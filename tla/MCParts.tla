------------------------------- MODULE MCParts -------------------------------
(* The variables of the parts of the daemon that share no state: one run   *)
(* takes them one beside the other.  "part" says which one a behaviour is  *)
(* about; w1..w19 are the variables of that part, in the order its module  *)
(* declares them, and those it does not need stay 0.                       *)
EXTENDS Integers, FiniteSets, Sequences, TLC

VARIABLES part, w1, w2, w3, w4, w5, w6, w7, w8, w9, w10, w11, w12, w13, w14,
          w15, w16, w17, w18, w19

From17 == <<w17, w18, w19>>
From15 == <<w15, w16, From17>>
From13 == <<w13, w14, From15>>
From12 == <<w12, From13>>
From10 == <<w10, w11, From12>>
From8 == <<w8, w9, From10>>
From7 == <<w7, From8>>
From6 == <<w6, From7>>
From5 == <<w5, From6>>
From4 == <<w4, From5>>
From3 == <<w3, From4>>
From1 == <<w1, w2, From3>>
partVars == <<part, From1>>

Idle17 == w17 = 0 /\ w18 = 0 /\ w19 = 0
Idle15 == w15 = 0 /\ w16 = 0 /\ Idle17
Idle13 == w13 = 0 /\ w14 = 0 /\ Idle15
Idle12 == w12 = 0 /\ Idle13
Idle10 == w10 = 0 /\ w11 = 0 /\ Idle12
Idle8 == w8 = 0 /\ w9 = 0 /\ Idle10
Idle7 == w7 = 0 /\ Idle8
Idle6 == w6 = 0 /\ Idle7
Idle5 == w5 = 0 /\ Idle6
Idle4 == w4 = 0 /\ Idle5
Idle3 == w3 = 0 /\ Idle4
Idle1 == w1 = 0 /\ w2 = 0 /\ Idle3
===============================================================================
