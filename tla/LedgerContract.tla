--------------------------- MODULE LedgerContract ---------------------------
(***************************************************************************)
(* What submitting an event promises, whatever the network and the two     *)
(* services do: an eventId is applied to the ledger at most once and       *)
(* recorded by the Gateway at most once, never recorded before it is       *)
(* applied, and every answer tells the truth about the record.             *)
(*                                                                         *)
(* The promise is silent about three things on purpose.  A request may be  *)
(* applied at any time after its submission, even after it was refused.  A *)
(* request that failed may have been recorded.  And where a commit of the  *)
(* Gateway can fail, a record may vanish that no one was told was created. *)
(***************************************************************************)
CONSTANTS
    Requests, EventIds, EventOf,
    Tries,      \* the numbers of a request's attempts
    MayVanish   \* commits of the Gateway's database may fail

VARIABLES
    applied,   \* the attempt, a request and a number, whose transaction the
               \* ledger holds, per event: the empty set or a singleton
    recorded,  \* the request whose record the Gateway holds, per event
    answer     \* what each request has been told; "matched" is still waiting,
               \* its event having been found among the records

vars == <<applied, recorded, answer>>

Init ==
    /\ applied = [e \in EventIds |-> {}]
    /\ recorded = [e \in EventIds |-> {}]
    /\ answer = [r \in Requests |-> "unsent"]

Waiting == {"pending", "matched"}

Move(r, from, to) ==
    /\ answer[r] \in from
    /\ answer' = [answer EXCEPT ![r] = to]
    /\ UNCHANGED <<applied, recorded>>

Submit(r) == Move(r, {"unsent"}, "pending")

Apply(r) ==
    /\ answer[r] # "unsent"
    /\ applied[EventOf[r]] = {}
    /\ \E n \in Tries : applied' = [applied EXCEPT ![EventOf[r]] = {<<r, n>>}]
    /\ UNCHANGED <<recorded, answer>>

Record(r) ==
    /\ answer[r] = "pending"
    /\ applied[EventOf[r]] # {}
    /\ recorded[EventOf[r]] = {}
    /\ recorded' = [recorded EXCEPT ![EventOf[r]] = {r}]
    /\ UNCHANGED <<applied, answer>>

Match(r) == recorded[EventOf[r]] \notin {{}, {r}} /\ Move(r, {"pending"}, "matched")

Created(r)   == recorded[EventOf[r]] = {r} /\ Move(r, {"pending"}, "created")
Duplicate(r) == Move(r, {"matched"}, "duplicate")
Refuse(r)    == r \notin recorded[EventOf[r]] /\ Move(r, {"pending"}, "refused")
Fail(r)      == Move(r, Waiting, "failed")

Reply(r) == Created(r) \/ Duplicate(r) \/ Refuse(r) \/ Fail(r)

\* Records disappear, but none that was acknowledged as created.
Vanish ==
    /\ MayVanish
    /\ \E gone \in SUBSET {r \in Requests : answer[r] # "created"} :
         recorded' = [e \in EventIds |-> recorded[e] \ gone]
    /\ UNCHANGED applied

\* The Gateway goes down: whoever waits for an answer will get none.
Abort ==
    /\ answer' = [r \in Requests |-> IF answer[r] \in Waiting THEN "lost" ELSE answer[r]]
    /\ UNCHANGED <<applied, recorded>> \/ Vanish

Next ==
    \/ \E r \in Requests : Submit(r) \/ Apply(r) \/ Record(r) \/ Match(r) \/ Reply(r)
    \/ Vanish /\ UNCHANGED answer
    \/ Abort

Safety == Init /\ [][Next]_vars

\* No submission stays without an answer while the Gateway is up.
Spec == Safety /\ \A r \in Requests : WF_vars(Reply(r))
=============================================================================
