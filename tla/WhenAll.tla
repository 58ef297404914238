------------------------------ MODULE WhenAll -------------------------------
(***************************************************************************)
(* when_all: what its runners record.  The first error and the first       *)
(* exception are claimed with an exchange and written afterwards, and each *)
(* of them requests stop for the other branches.                           *)
(***************************************************************************)
EXTENDS Join

VARIABLES
    values,                          \* the branches whose value is stored
    has_error, first_error,          \* claimed; the branch it came from, or 0
    has_exception, first_exception

all_vars == <<values, has_error, first_error, has_exception, first_exception>>

AllInit ==
    /\ values = {} /\ has_error = "no" /\ first_error = 0
    /\ has_exception = "no" /\ first_exception = 0

\* Mutant: the error is published, and the share released, before stop is
\* requested.
all_claim_silent(b) ==
    /\ pc[b] = "record"
    /\ \/ /\ outcome[b] = "ok" /\ values' = values \cup {b}
          /\ Goto(b, "final") /\ UNCHANGED <<has_error, has_exception>>
       \/ /\ outcome[b] = "error" /\ has_error' = "yes"
          /\ Goto(b, IF has_error = "no" THEN "write" ELSE "final")
          /\ UNCHANGED <<values, has_exception>>
       \/ /\ outcome[b] = "throw" /\ has_exception' = "yes"
          /\ Goto(b, IF has_exception = "no" THEN "write" ELSE "final")
          /\ UNCHANGED <<values, has_error>>
    /\ UNCHANGED <<mode, join_vars, stop_vars, parent_vars, outcome,
                   first_error, first_exception>>

\* The runner stores its value, or claims the place of the first failure of its
\* kind; whoever comes second only requests stop.  (The variadic overload stores
\* the payload of a failed branch too; no result below depends on it.)
all_claim(b) ==
    /\ pc[b] = "record"
    /\ \/ /\ outcome[b] = "ok" /\ values' = values \cup {b}
          /\ Goto(b, "final") /\ UNCHANGED <<has_error, has_exception>>
       \/ /\ outcome[b] = "error" /\ has_error' = "yes"
          /\ Goto(b, IF has_error = "no" THEN "write" ELSE "stop")
          /\ UNCHANGED <<values, has_exception>>
       \/ /\ outcome[b] = "throw" /\ has_exception' = "yes"
          /\ Goto(b, IF has_exception = "no" THEN "write" ELSE "stop")
          /\ UNCHANGED <<values, has_error>>
    /\ UNCHANGED <<mode, join_vars, stop_vars, parent_vars, outcome,
                   first_error, first_exception>>

\* record_error() or capture_exception() writes what it claimed.
all_write(b) ==
    /\ pc[b] = "write" /\ Goto(b, "stop")
    /\ IF outcome[b] = "error"
       THEN first_error' = b /\ UNCHANGED first_exception
       ELSE first_exception' = b /\ UNCHANGED first_error
    /\ UNCHANGED <<mode, join_vars, stop_vars, parent_vars, outcome, values,
                   has_error, has_exception>>

AllStep(b) ==
    \/ all_claim(b) \/ all_write(b)
    \/ runner_stops(b, "final") /\ UNCHANGED all_vars

\* What the parent returns: an exception comes before an error, and an error
\* before the values.
all_result ==
    IF first_exception # 0 THEN <<"throw", first_exception>>
    ELSE IF has_error = "yes" THEN <<"error", first_error>> ELSE <<"values", values>>
=============================================================================
