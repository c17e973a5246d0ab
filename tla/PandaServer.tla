---------------------------- MODULE PandaServer ----------------------------
(***************************************************************************)
(* The PANDA meeting place (panda/server): under each tag two parties      *)
(* leave one message each, and either is handed the other's.  Postings are *)
(* kept in memory and written back by a worker.  After a restart they are  *)
(* in the map by value, where every user of the map expects a pointer.     *)
(***************************************************************************)
EXTENDS Integers, FiniteSets, TLC

CONSTANTS
    Nothing,    \* no value
    MaxSrv      \* the shared random values seen

(* The first and the second meeting of an exchange.                        *)
Tags == (1..2) \X (1..MaxSrv)

VARIABLE postings       \* postings[tag]: the messages A and B, or Nothing

Posting(m) == [a |-> m, b |-> Nothing, expired |-> FALSE, loaded |-> FALSE]

(* Fault: the party that came first is not known when it comes back.       *)
firstForgotten(s, m) == s.b # Nothing /\ m # s.b

(* OnRequest.  The posting is locked from Get to Replace.                  *)
contended(s, m) == s.b # Nothing /\ m \notin {s.a, s.b}

Status(tag, m) ==
    LET s == postings[tag] IN
    CASE s = Nothing -> "Received1"
      [] s # Nothing /\ s.loaded -> "StorageError"
      [] s # Nothing /\ ~s.loaded /\ s.expired -> "none"
      [] OTHER -> CASE contended(s, m) -> "TagContended"
                    [] s.b = Nothing /\ m = s.a -> "RequestRecorded"
                    [] OTHER -> "Received2"

(* The first message makes a posting, and the second, which must differ,   *)
(* completes it.                                                           *)
OnRequest(tag, m) ==
    postings' = [postings EXCEPT ![tag] =
        CASE Status(tag, m) = "Received1" -> Posting(m)
          [] Status(tag, m) = "Received2" /\ @.b = Nothing -> [@ EXCEPT !.b = m]
          [] OTHER -> @]

(* The message that comes with Received2.                                  *)
Answer(tag, m) ==
    IF postings[tag].a = m THEN postings[tag].b ELSE postings[tag].a

(* The process dies.  The database has any of the postings, each as it is  *)
(* or as it was before the second message came.                            *)
Written(s) == IF s = Nothing THEN {Nothing}
              ELSE {Nothing} \cup {[s EXCEPT !.loaded = TRUE, !.b = x] : x \in {s.b, Nothing}}

load == \E d \in [Tags -> UNION {Written(postings[t]) : t \in Tags}] :
            /\ \A t \in Tags : d[t] \in Written(postings[t])
            /\ postings' = d

(* Time passes a posting's expiration; Vacuum drops the expired ones, and  *)
(* stops where it meets a loaded one.                                      *)
Expire(tag) ==
    /\ postings[tag] # Nothing /\ ~postings[tag].expired
    /\ postings' = [postings EXCEPT ![tag].expired = TRUE]

Vacuum ==
    LET there == {t \in Tags : postings[t] # Nothing}
        old   == {t \in there : postings[t].expired /\ ~postings[t].loaded}
    IN \E d \in SUBSET old \ {{}} :
           /\ d = old \/ \E t \in there : postings[t].loaded
           /\ postings' = [t \in Tags |-> IF t \in d THEN Nothing ELSE postings[t]]
=============================================================================
