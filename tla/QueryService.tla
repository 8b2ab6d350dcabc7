---------------------------- MODULE QueryService ----------------------------
(***************************************************************************)
(* What refsapi_mysql_mngr.h promises of a query, without threads, slots,  *)
(* frames, flags or maps of priorities: it is pending until its handler    *)
(* has been called, and it is released only after that, or when there is   *)
(* nothing more to hope for.  A map change cancels everything at once.     *)
(***************************************************************************)
EXTENDS Naturals

CONSTANTS Queries,     \* the queries a plugin may submit
          Tries        \* the attempts a query gets

VARIABLES status,      \* where each query is
          tries,       \* failed attempts of each query
          callable,    \* queries with a handler that can be called
          stopping     \* a map change is in progress

vars == <<status, tries, callable, stopping>>

Status == {"unused", "pending", "delivered", "released", "cancelled"}

Live(q) == status[q] \in {"pending", "delivered"}

Init ==
  /\ status = [q \in Queries |-> "unused"]
  /\ tries = [q \in Queries |-> 0]
  /\ callable = {} /\ stopping = FALSE

Become(q, s) == status' = [status EXCEPT ![q] = s]

Submit(q) ==
  /\ status[q] = "unused"
  /\ Become(q, "pending")
  /\ UNCHANGED <<tries, callable, stopping>>

(* The connection of the query has a handler, or none. *)
Resolve(q) ==
  /\ status[q] \in {"pending", "cancelled"}
  /\ callable' \in {callable \cup {q}, callable \ {q}}
  /\ UNCHANGED <<status, tries, stopping>>

(* A failed attempt; a query that was cancelled meanwhile is not retried,  *)
(* and one whose result was delivered has not failed.                      *)
Fail(q) ==
  /\ status[q] = "pending" /\ tries[q] < Tries
  /\ tries' = [tries EXCEPT ![q] = @ + 1]
  /\ UNCHANGED <<status, callable, stopping>>

(* The handler is called, once, with the result. *)
Deliver(q) ==
  /\ status[q] = "pending" /\ q \in callable
  /\ Become(q, "delivered")
  /\ UNCHANGED <<tries, callable, stopping>>

(* Nothing is released that still could be delivered. *)
Release(q) ==
  /\ \/ status[q] = "delivered"
     \/ /\ status[q] = "pending"
        /\ q \notin callable \/ tries[q] = Tries \/ stopping
  /\ Become(q, "released")
  /\ UNCHANGED <<tries, callable, stopping>>

StopBegin ==
  /\ ~stopping /\ stopping' = TRUE
  /\ UNCHANGED <<status, tries, callable>>

Cancel ==
  /\ stopping
  /\ status' = [q \in Queries |-> IF Live(q) THEN "cancelled" ELSE status[q]]
  /\ UNCHANGED <<tries, callable, stopping>>

StopEnd ==
  /\ stopping /\ stopping' = FALSE
  /\ UNCHANGED <<status, tries, callable>>

Next ==
  \/ StopBegin \/ Cancel \/ StopEnd
  \/ \E q \in Queries : \/ Submit(q) \/ Resolve(q) \/ Fail(q)
                        \/ Deliver(q) \/ Release(q)

Spec == Init /\ [][Next]_vars

=============================================================================
