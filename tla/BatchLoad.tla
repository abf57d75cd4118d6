----------------------------- MODULE BatchLoad -----------------------------
(***************************************************************************)
(* What the rest of ChartMuseum relies on when it calls                    *)
(* addIndexObjectsAsync (pkg/chartmuseum/server/multitenant/cache.go): a   *)
(* call is given a batch of storage objects; it settles them one by one,   *)
(* in any order, putting the good charts into the index and skipping the   *)
(* invalid packages; it returns exactly when the whole batch is settled,   *)
(* and it may give up early, leaving in the index what it has put there.   *)
(* No goroutine, channel, context or limiter appears here: IndexLoader is  *)
(* shown to implement this module.                                         *)
(***************************************************************************)
CONSTANTS Calls,     \* calls of addIndexObjectsAsync, by any tenants
          Objects    \* storage objects a call may be asked to load

VARIABLES status,    \* status[c]: where call c is
          batch,     \* batch[c]: the objects call c was given
          settled,   \* settled[c]: the objects call c has dealt with
          index      \* index[c]: the objects call c has put in its index

vars == <<status, batch, settled, index>>

Init ==
    /\ status = [c \in Calls |-> "idle"]
    /\ batch = [c \in Calls |-> {}]
    /\ settled = [c \in Calls |-> {}]
    /\ index = [c \in Calls |-> {}]

\* A call with nothing to load returns at once.
Begin(c, objs) ==
    /\ status[c] = "idle"
    /\ status' = [status EXCEPT ![c] = IF objs = {} THEN "returned"
                                       ELSE "collecting"]
    /\ batch' = [batch EXCEPT ![c] = objs]
    /\ UNCHANGED <<settled, index>>

\* One object is dealt with; good says whether it is a chart.  The call
\* returns with the last one.
Settle(c, o, good) ==
    /\ status[c] = "collecting"
    /\ o \in batch[c] \ settled[c]
    /\ settled' = [settled EXCEPT ![c] = @ \cup {o}]
    /\ index' = [index EXCEPT ![c] = IF good THEN @ \cup {o} ELSE @]
    /\ status' = [status EXCEPT ![c] = IF settled[c] \cup {o} = batch[c]
                                       THEN "returned" ELSE @]
    /\ UNCHANGED batch

\* The call gives up on an object it could not read.
Fail(c) ==
    /\ status[c] = "collecting"
    /\ settled[c] # batch[c]
    /\ status' = [status EXCEPT ![c] = "failed"]
    /\ UNCHANGED <<batch, settled, index>>

Next ==
    \E c \in Calls :
        \/ \E objs \in SUBSET Objects : Begin(c, objs)
        \/ \E o \in Objects, good \in BOOLEAN : Settle(c, o, good)
        \/ Fail(c)

Spec == Init /\ [][Next]_vars
=============================================================================
