----------------------------- MODULE ObjectUpload -----------------------------
(***************************************************************************)
(* How the objects of a staged capture reach the store: the shipper's      *)
(* upload passes (ship.rs upload_until, upload_batch, put_object), the     *)
(* presigned PUTs and multipart uploads (sink.rs PresignedHttp), the URLs  *)
(* minted, cached and settled (registrar.rs RegistrarMinter), and the      *)
(* registrar that prices, opens and completes uploads (registrar.rs        *)
(* InMemoryRegistrar).  An answer may be lost after the call was carried   *)
(* out; a cached URL ages; the lease, the epoch and the quota move.        *)
(*                                                                         *)
(* An object is its key: a stored key holds the whole object.  Every       *)
(* object costs one unit of the byte quota.                                *)
(***************************************************************************)
EXTENDS Integers, FiniteSets

CONSTANTS
    Large,          \* keys at or over the multipart threshold
    Small,          \* keys sent in a single PUT
    UploadLimits    \* records [faults, quota, leases, takeovers, present]

\* What the constants may be.
UploadAssumption ==
    /\ Large \cap Small = {}
    /\ \A l \in UploadLimits :
        /\ {l.faults, l.quota, l.leases, l.takeovers} \subseteq Nat
        /\ l.present \in BOOLEAN

Keys == Large \cup Small
\* Parts of a large object (size.div_ceil(part_size)).
Parts == 1..2
\* parts_in_flight, clamped to the count.
PartsInFlight == 2

VARIABLES
    registrar,  \* the epoch and lease held, the quota, what is priced, open and completed
    store,      \* keys the bucket holds, and the parts it received per upload id
    minter,     \* RegistrarMinter: PUT URLs and multipart plans cached, keys answered present
    shipper,    \* the pass under way and what is marked uploaded
    put,        \* put[k]: the put_object call of k
    uleft

uploadVars == <<registrar, store, minter, shipper, put, uleft>>

NoPlan == [id |-> 0, fresh |-> FALSE]
IdlePut == [pc |-> "idle"]

UploadInit ==
    /\ uleft \in UploadLimits
    /\ registrar = [lease |-> TRUE, live |-> TRUE, quota |-> uleft.quota, exempt |-> FALSE,
                    priced |-> {}, uploads |-> {}, next |-> 1, completed |-> {}, chain |-> FALSE]
    /\ store = [keys |-> {}, parts |-> {}]
    /\ minter = [urls |-> {}, plan |-> [k \in Large |-> NoPlan], present |-> {}]
    /\ shipper = [pc |-> "large", uploaded |-> {}, halt |-> FALSE]
    /\ put = [k \in Keys |-> IdlePut]

----------------------------------------------------------------------------
\* The registrar's calls: what upload.urls answers, and what it leaves behind.

\* InMemoryRegistrar::price, over the keys not priced yet.
OverQuota(keys) ==
    /\ ~registrar.exempt
    /\ Cardinality(registrar.priced \cup keys) > registrar.quota

\* check_epoch, the lease, price (upload_urls); refusal and mint_error name them to the sink.
Refusal(keys) ==
    IF ~registrar.live THEN "no_url"
    ELSE IF ~registrar.lease THEN "lease"
    ELSE IF OverQuota(keys) THEN "quota"
    ELSE "none"

\* The keys the bucket holds already, where the registrar answers them.
AnsweredPresent(keys) == IF uleft.present THEN keys \cap store.keys ELSE {}

\* upload_urls for large keys opens one upload each.
Minted(keys) ==
    LET opened == (keys \cap Large) \ AnsweredPresent(keys)
    IN  [registrar EXCEPT !.priced = @ \cup keys,
                          !.uploads = @ \cup {[id |-> registrar.next, key |-> k] : k \in opened},
                          !.next = IF opened = {} THEN @ ELSE @ + 1]

\* A call's fate: carried out and answered; carried out, the answer lost; not carried out.
Fate(f) ==
    /\ f \in {"answered", "lost", "down"}
    /\ IF f = "answered" THEN uleft' = uleft
       ELSE uleft.faults > 0 /\ uleft' = [uleft EXCEPT !.faults = @ - 1]

----------------------------------------------------------------------------
\* What happens outside.

OutsideOnly == UNCHANGED <<store, minter, shipper, put>>

LeaseMovesU ==
    /\ uleft.leases > 0
    /\ uleft' = [uleft EXCEPT !.leases = @ - 1]
    /\ registrar' = [registrar EXCEPT !.lease = ~@]
    /\ OutsideOnly

TakeoverU ==
    /\ uleft.takeovers > 0 /\ registrar.live
    /\ uleft' = [uleft EXCEPT !.takeovers = @ - 1]
    /\ registrar' = [registrar EXCEPT !.live = FALSE]
    /\ OutsideOnly

QuotaRaised ==
    /\ registrar.quota < Cardinality(Keys)
    /\ registrar' = [registrar EXCEPT !.quota = @ + 1]
    /\ OutsideOnly /\ UNCHANGED uleft

\* PreservingFlush::begin: from here on calls carry the final marker, which the quota exempts.
PreservingBegins ==
    /\ ~registrar.exempt /\ registrar.quota < Cardinality(Keys)
    /\ registrar' = [registrar EXCEPT !.exempt = TRUE]
    /\ OutsideOnly /\ UNCHANGED uleft

\* PUT_URL_REUSE passes.
UrlAges(k) ==
    /\ k \in minter.urls
    /\ minter' = [minter EXCEPT !.urls = @ \ {k}]
    /\ UNCHANGED <<registrar, store, shipper, put, uleft>>

PlanAges(k) ==
    /\ minter.plan[k].fresh
    /\ minter' = [minter EXCEPT !.plan[k] = NoPlan]
    /\ UNCHANGED <<registrar, store, shipper, put, uleft>>

----------------------------------------------------------------------------
\* put_object and the sink.

\* settled, without forgetting the multipart plan.
SettledKeepingPlan(k) == [minter EXCEPT !.urls = @ \ {k}, !.present = @ \ {k}]

\* UrlMinter::settled
Settled(k) ==
    [minter EXCEPT !.urls = @ \ {k}, !.present = @ \ {k},
                   !.plan = [j \in Large |-> IF j = k THEN NoPlan ELSE @[j]]]
Back(k) == [put EXCEPT ![k] = IdlePut]

\* A retryable error: the next attempt, or the attempts are spent and the pass halts.
RetryOrHalt(k) ==
    /\ put' = Back(k)
    /\ shipper' \in {shipper, [shipper EXCEPT !.halt = TRUE]}

\* Any other error halts the pass.
HaltPass(k) == put' = Back(k) /\ shipper' = [shipper EXCEPT !.halt = TRUE]

Done(k) ==
    /\ put' = Back(k)
    /\ shipper' = [shipper EXCEPT !.uploaded = @ \cup {k}]

\* upload_batch gives the key to a worker of the group under way.
Takes(k) ==
    /\ shipper.pc \in {"large", "small"} /\ (shipper.pc = "large") = (k \in Large)
    /\ ~shipper.halt /\ k \notin shipper.uploaded /\ put[k].pc = "idle"

\* Shipper::prefetch mints the whole batch of small keys; a refusal of another kind is left to the
\* uploads themselves.
Prefetch ==
    LET wanted == {k \in Small : k \notin shipper.uploaded /\ k \notin minter.urls
                                                          /\ k \notin minter.present}
    IN  /\ shipper.pc = "prefetch"
        /\ \E f \in {"answered", "lost", "down"} :
            /\ Fate(f)
            /\ IF wanted = {} THEN
                  /\ f = "answered"
                  /\ shipper' = [shipper EXCEPT !.pc = "small"]
                  /\ UNCHANGED <<registrar, minter>>
               ELSE IF f = "down" THEN
                  /\ shipper' \in {shipper, [shipper EXCEPT !.pc = "small", !.halt = TRUE]}
                  /\ UNCHANGED <<registrar, minter>>
               ELSE IF Refusal(wanted) # "none" THEN
                  /\ shipper' = [shipper EXCEPT !.pc = "small",
                                                !.halt = Refusal(wanted) # "no_url"]
                  /\ UNCHANGED <<registrar, minter>>
               ELSE
                  /\ registrar' = Minted(wanted)
                  /\ IF f = "lost" THEN UNCHANGED <<shipper, minter>>
                     ELSE /\ shipper' = [shipper EXCEPT !.pc = "small"]
                          /\ minter' = [minter EXCEPT
                                !.present = @ \cup AnsweredPresent(wanted),
                                !.urls = @ \cup (wanted \ AnsweredPresent(wanted))]
    /\ UNCHANGED <<store, put>>

\* put_target for a single PUT: the cached URL, present, or one more upload.urls.
PutBegins(k) ==
    /\ Takes(k) /\ k \in Small
    /\ \E f \in {"answered", "lost", "down"} :
        /\ Fate(f)
        /\ IF k \in minter.urls THEN
              /\ f = "answered"
              /\ put' = [put EXCEPT ![k] = [pc |-> "send"]]
              /\ UNCHANGED <<registrar, minter, shipper>>
           ELSE IF k \in minter.present THEN
              /\ f = "answered"
              /\ Done(k) /\ minter' = Settled(k) /\ UNCHANGED registrar
           ELSE IF f = "down" THEN RetryOrHalt(k) /\ UNCHANGED <<registrar, minter>>
           ELSE IF Refusal({k}) # "none" THEN HaltPass(k) /\ UNCHANGED <<registrar, minter>>
           ELSE /\ registrar' = Minted({k})
                /\ IF f = "lost" THEN RetryOrHalt(k) /\ UNCHANGED minter
                   ELSE IF AnsweredPresent({k}) # {} THEN Done(k) /\ UNCHANGED minter
                   ELSE /\ put' = [put EXCEPT ![k] = [pc |-> "send"]]
                        /\ minter' = [minter EXCEPT !.urls = @ \cup {k}]
                        /\ UNCHANGED shipper
    /\ UNCHANGED store

\* The PUT, If-None-Match: stored, already there (412), the answer lost or the store down (the URL
\* stays cached), or refused for good (settled).
Send(k) ==
    /\ put[k].pc = "send"
    /\ \E f \in {"answered", "lost", "down", "refused"} :
        /\ Fate(IF f = "refused" THEN "down" ELSE f)
        /\ store' = IF f \in {"answered", "lost"} THEN [store EXCEPT !.keys = @ \cup {k}] ELSE store
        /\ CASE f = "answered" -> Done(k) /\ minter' = Settled(k)
             [] f = "refused" -> HaltPass(k) /\ minter' = Settled(k)
             [] OTHER -> RetryOrHalt(k) /\ UNCHANGED minter
    /\ UNCHANGED registrar

Upload(id) == [pc |-> "parts", id |-> id, next |-> 1, flying |-> {}, etags |-> {},
               failed |-> "no", attempt |-> 0]

\* multipart_urls: present goes the single way, a fresh plan is used again, else one is minted.
MultipartBegins(k) ==
    /\ Takes(k) /\ k \in Large
    /\ \E f \in {"answered", "lost", "down"} :
        /\ Fate(f)
        /\ IF minter.plan[k].fresh THEN
              /\ f = "answered"
              /\ put' = [put EXCEPT ![k] = Upload(minter.plan[k].id)]
              /\ UNCHANGED <<registrar, minter, shipper>>
           ELSE IF f = "down" THEN RetryOrHalt(k) /\ UNCHANGED <<registrar, minter>>
           ELSE IF Refusal({k}) # "none" THEN HaltPass(k) /\ UNCHANGED <<registrar, minter>>
           ELSE /\ registrar' = Minted({k})
                /\ IF f = "lost" THEN RetryOrHalt(k) /\ UNCHANGED minter
                   ELSE IF AnsweredPresent({k}) # {} THEN Done(k) /\ UNCHANGED minter
                   ELSE /\ put' = [put EXCEPT ![k] = Upload(registrar.next)]
                        /\ minter' = [minter EXCEPT
                              !.plan[k] = [id |-> registrar.next, fresh |-> TRUE]]
                        /\ UNCHANGED shipper
    /\ UNCHANGED store

\* A worker of the multipart upload claims the next part; all stop at the first failure.
PartClaimed(k) ==
    /\ put[k].pc = "parts" /\ put[k].failed = "no" /\ put[k].next \in Parts
    /\ Cardinality(put[k].flying) < PartsInFlight
    /\ put' = [put EXCEPT ![k].next = @ + 1, ![k].flying = @ \cup {put[k].next}]
    /\ UNCHANGED <<registrar, store, minter, shipper, uleft>>

Open(id) == \E u \in registrar.uploads : u.id = id

\* upload_part with its retries: accepted while the upload is open, refused when it is gone, or the
\* store stays down over every attempt.
PartEnds(k, n) ==
    LET u == put[k]
    IN  /\ u.pc = "parts" /\ n \in u.flying
        /\ \E f \in {"answered", "down"} :
            /\ Fate(f)
            /\ put' = [put EXCEPT ![k].flying = @ \ {n},
                                  ![k].etags = IF f = "answered" /\ Open(u.id) THEN @ \cup {n} ELSE @,
                                  ![k].failed = IF @ # "no" \/ (f = "answered" /\ Open(u.id)) THEN @
                                                ELSE IF f = "down" THEN "retryable" ELSE "final"]
            /\ store' = IF f = "answered" /\ Open(u.id)
                        THEN [store EXCEPT !.parts = @ \cup {<<u.id, n>>}] ELSE store
        /\ UNCHANGED <<registrar, minter, shipper>>

\* The workers are back, and what they sent is completed whatever failed.
PartsInAnyway(k) ==
    /\ put[k].pc = "parts" /\ put[k].flying = {}
    /\ put[k].failed # "no" \/ put[k].next \notin Parts
    /\ put' = [put EXCEPT ![k].pc = "complete"]
    /\ UNCHANGED <<registrar, store, minter, shipper, uleft>>

\* The workers are back: the first failure is returned (settled unless it is worth another try), or
\* every part has its ETag.
PartsIn(k) ==
    LET u == put[k]
    IN  /\ u.pc = "parts" /\ u.flying = {} /\ (u.failed # "no" \/ u.next \notin Parts)
        /\ CASE u.failed = "no" -> put' = [put EXCEPT ![k].pc = "complete"] /\ UNCHANGED <<minter, shipper>>
             [] u.failed = "retryable" -> RetryOrHalt(k) /\ UNCHANGED minter
             [] u.failed = "final" -> HaltPass(k) /\ minter' = Settled(k)
        /\ UNCHANGED <<registrar, store, uleft>>

\* InMemoryRegistrar::upload_complete, for an upload that is open: the object is assembled once.
CompleteAnswer(k) ==
    IF ~registrar.live THEN "refused"
    ELSE IF ~registrar.lease THEN "lease"
    ELSE IF ~Open(put[k].id) THEN "refused"
    ELSE IF k \in registrar.completed THEN "exists"
    ELSE "stored"

Assembled(k) ==
    IF \A n \in Parts : <<put[k].id, n>> \in store.parts THEN {k} ELSE {}

Closed(k) == {u \in registrar.uploads : u.id # put[k].id}

\* PresignedHttp::complete: tried again while the call is unheard; an upload that is gone is an
\* error that settles nothing.
Complete(k) ==
    /\ put[k].pc = "complete"
    /\ \E f \in {"answered", "lost", "down"} :
        /\ Fate(f)
        /\ LET answer == CompleteAnswer(k)
               heard == f = "answered"
           IN  /\ registrar' = IF f # "down" /\ answer \in {"stored", "exists"}
                               THEN [registrar EXCEPT !.completed = @ \cup {k}, !.uploads = Closed(k)]
                               ELSE registrar
               /\ store' = IF f # "down" /\ answer = "stored"
                           THEN [store EXCEPT !.keys = @ \cup Assembled(k)] ELSE store
               /\ IF ~heard THEN
                     /\ \/ put' = put /\ UNCHANGED shipper
                        \/ RetryOrHalt(k)
                     /\ UNCHANGED minter
                  ELSE IF answer \in {"refused", "lease"} THEN HaltPass(k) /\ UNCHANGED minter
                  ELSE IF answer = "exists" THEN Done(k) /\ minter' = Settled(k)
                  ELSE /\ put' = [put EXCEPT ![k] = [pc |-> "size"]]
                       /\ minter' = Settled(k)
                       /\ UNCHANGED shipper

\* remote_size: an assembled object of another size is an error.
SizeChecked(k) ==
    /\ put[k].pc = "size"
    /\ \E f \in {"answered", "down"} :
        /\ Fate(f)
        /\ IF f = "down" THEN RetryOrHalt(k)
           ELSE IF k \in store.keys THEN Done(k) ELSE HaltPass(k)
    /\ UNCHANGED <<registrar, store, minter>>

\* upload_until goes on to the next group once the workers are back; a halted pass begins again
\* after its backoff (hold, lease or outage).
GroupEnds ==
    LET group == IF shipper.pc = "large" THEN Large ELSE Small
    IN  /\ shipper.pc \in {"large", "small"}
        /\ \A k \in Keys : put[k].pc = "idle"
        /\ shipper.halt \/ group \subseteq shipper.uploaded
        /\ shipper' = [shipper EXCEPT !.halt = FALSE,
                          !.pc = IF shipper.halt THEN "large"
                                 ELSE IF shipper.pc = "large" THEN "prefetch" ELSE "register"]
        /\ UNCHANGED <<registrar, store, minter, put, uleft>>

\* capture_register: the chain's head moves, once.
Registers ==
    /\ shipper.pc = "register"
    /\ \E f \in {"answered", "lost", "down"} :
        /\ Fate(f)
        /\ LET granted == registrar.live /\ registrar.lease
           IN  /\ registrar' = IF f # "down" /\ granted THEN [registrar EXCEPT !.chain = TRUE]
                               ELSE registrar
               /\ shipper' = IF f # "answered" THEN shipper
                             ELSE IF ~registrar.live THEN [shipper EXCEPT !.pc = "fenced"]
                             ELSE IF granted THEN [shipper EXCEPT !.pc = "registered"]
                             ELSE shipper
    /\ UNCHANGED <<store, minter, put>>

\* What the threads do, without the world outside.
Ships ==
    \/ Prefetch \/ GroupEnds \/ Registers
    \/ \E k \in Small : PutBegins(k) \/ Send(k)
    \/ \E k \in Large : \/ MultipartBegins(k) \/ PartClaimed(k) \/ PartsIn(k)
                        \/ Complete(k) \/ SizeChecked(k)
                        \/ \E n \in Parts : PartEnds(k, n)

UploadNext ==
    \/ Ships
    \/ LeaseMovesU \/ TakeoverU \/ QuotaRaised \/ PreservingBegins
    \/ \E k \in Small : UrlAges(k)
    \/ \E k \in Large : PlanAges(k)

\* The pass loop, its workers and every call go on; calls have timeouts.
UploadFairness ==
    /\ WF_uploadVars(Prefetch \/ GroupEnds \/ Registers)
    /\ \A k \in Small : WF_uploadVars(PutBegins(k) \/ Send(k))
    /\ \A k \in Large :
        /\ WF_uploadVars(MultipartBegins(k) \/ PartClaimed(k) \/ PartsIn(k) \/ Complete(k)
                         \/ SizeChecked(k))
        /\ \A n \in Parts : WF_uploadVars(PartEnds(k, n))

UploadSpec == UploadInit /\ [][UploadNext]_uploadVars /\ UploadFairness

----------------------------------------------------------------------------
UploadTypeOK ==
    /\ registrar.priced \subseteq Keys /\ registrar.completed \subseteq Large
    /\ store.keys \subseteq Keys /\ minter.present \subseteq Keys
    /\ shipper.pc \in {"large", "prefetch", "small", "register", "registered", "fenced"}
    /\ \A k \in Keys : put[k].pc \in {"idle", "send", "parts", "complete", "size"}

\* What the shipper marked uploaded, and so what a registered capture names, is in the store whole,
\* whichever answers were lost, plans reused and calls repeated (put_object, mark_uploaded).
UploadedIsStored ==
    /\ shipper.uploaded \subseteq store.keys
    /\ registrar.chain => Keys \subseteq store.keys

\* Once the registrar keeps granting, the capture is registered: no lost answer, dead upload or
\* stale plan keeps an object from the store (settled, "or the next attempt would reuse them").
Unhindered ==
    /\ registrar.lease /\ registrar.live
    /\ registrar.exempt \/ registrar.quota >= Cardinality(Keys)
UploadConverges == <>[]Unhindered => <>registrar.chain
=============================================================================
