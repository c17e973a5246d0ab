---------------------------- MODULE TimelyProofs ----------------------------
(***************************************************************************)
(* The proof of TimelyConsensus: a voting round that is on time ends with  *)
(* a consensus.  TInv is inductive relative to IInv of VotingProofs.       *)
(***************************************************************************)
EXTENDS VotingProofs

(* The authorities that take part in the round. *)
Present == {b \in Authorities : up[b] = TRUE}

Certifying == Done \cup {"accept_cert"}

Revealing == Certifying \cup {"accept_reveal"}

(* The votes of those present fill the topology and agree on parameters. *)
Full == TallyOK(Present) /\ Cardinality(TalliedMixes(Present)) >= MinMixes

(* What an authority sends it also keeps (doCommit, getCertificate). *)
OwnHeld ==
    \A a \in Present :
        /\ st[a] # "accept_desc" => a \in votes[a] /\ a \in reveals[a]
        /\ certificate[a] # None => a \in certificates[a]

(* Who does not take the epoch for the genesis epoch has the previous      *)
(* document; in the first epoch nobody has one.                            *)
PrevHeld ==
    \A a \in Authorities :
        /\ st[a] # "accept_desc" /\ genesis[a] = FALSE => prev[a] = TRUE
        /\ HasPrev = {} => prev[a] = FALSE

(* The epoch begins when the certificate phase is over everywhere. *)
ClockHolds == expired = TRUE => \A a \in Present : st[a] \in Done

(* The one view that the authorities present can have signed, up to the    *)
(* previous shared random value and the genesis epoch.                     *)
View(a) ==
    /\ myconsensus[a] # None
    /\ myconsensus[a].mixes = TalliedMixes(Present)
    /\ myconsensus[a].params \in TalliedParams(Present)
    /\ myconsensus[a].reveals = Present
    /\ myconsensus[a].genesis = genesis[a]
    /\ genesis[a] = FALSE => myconsensus[a].prev = TRUE
    /\ HasPrev = {} => myconsensus[a].prev = FALSE

(* How far the authority a is through a round that is on time: it holds    *)
(* everything that those present have sent in the phases behind it, and    *)
(* with a full topology it has certified and signed the common view.       *)
Through(a) ==
    /\ st[a] \in Revealing => Present \subseteq votes[a]
    /\ st[a] \in Certifying => Present \subseteq reveals[a]
    /\ st[a] \in Certifying /\ Full
           => certificate[a] # None /\ certificate[a].shared = Present
    /\ st[a] \in Done /\ Full => View(a)
    /\ st[a] = "bootstrap" /\ Full /\ Cardinality(Alike(a)) >= Threshold
           => genesis[a] # FALSE /\ HasPrev # {}

OnTimeHolds == OnTime => \A a \in Present : Through(a)

TInv == OwnHeld /\ PrevHeld /\ ClockHolds /\ OnTimeHolds

(* A command that did not miss its phase has been heard (Leave). *)
LEMMA NoneLate ==
    ASSUME missed \in Nat, NEW a, NEW s, NEW late \in SUBSET Authorities,
           Leave(a, s, late), missed' = 0
    PROVE  missed = 0 /\ late \subseteq {a}
<1>1. IsFiniteSet(late \ {a}) /\ Cardinality(late \ {a}) \in Nat
  BY AuthoritiesAssumption, FS_Subset, FS_CardinalityType
<1>2. missed = 0 /\ Cardinality(late \ {a}) = 0
  BY <1>1 DEF Leave
<1>3. late \ {a} = {}
  BY <1>1, <1>2, FS_EmptySet
<1> QED
  BY <1>2, <1>3

(* With FSMs that wait for the same deadlines, who leaves a phase finds    *)
(* every authority that is up in that phase or behind it (fsm).            *)
LEMMA SamePhase ==
    ASSUME IInv, MaxSkew = 1, NEW a \in Authorities, NEW b \in Present
    PROVE  /\ Active(a, "accept_cert") => st[b] \in Certifying
           /\ Active(a, "accept_signature") => st[b] \in Done
           /\ EpochBegins => st[b] \in Done
<1>1. b \in Authorities /\ up[b] /\ st[b] \in States
  BY DEF Present, IInv, TypeOK
<1>2. /\ Active(a, "accept_cert") => Phase(a) = 3 /\ Phase(a) < Phase(b) + 1
      /\ Active(a, "accept_signature") => Phase(a) = 4 /\ Phase(a) < Phase(b) + 1
      /\ EpochBegins => 4 < Phase(b) + 1
  <2>1. st[a] = "accept_cert" => Phase(a) = 3
    BY DEF Phase
  <2>2. st[a] = "accept_signature" => Phase(a) = 4
    BY DEF Phase
  <2> QED BY <1>1, <2>1, <2>2 DEF Active, EpochBegins
<1>3. /\ Phase(b) \in Nat
      /\ Phase(b) >= 3 => st[b] \in Certifying
      /\ Phase(b) >= 4 => st[b] \in Done
  BY <1>1 DEF Phase, States, Certifying, Done
<1> QED
  BY <1>2, <1>3

(* In a round that is on time, what is held comes from those present. *)
LEMMA HeldIsPresent ==
    ASSUME IInv, OnTime, NEW a \in Authorities
    PROVE  votes[a] \subseteq Present /\ Certified \subseteq Present
<1>1. \A b \in Authorities : vote[b] # None => b \in Present
  BY DEF OnTime, Present, IInv, TypeOK
<1>2. votes[a] \subseteq Present
  BY <1>1 DEF IInv, TypeOK, HeldWasSent
<1>3. \A b \in Certified : b \in Authorities /\ vote[b] # None
  BY DEF Certified, IInv, SentInPhase, Done
<1> QED
  BY <1>1, <1>2, <1>3

(* While nobody votes or crashes, those present and their tally stay. *)
LEMMA TallyStays ==
    ASSUME UNCHANGED <<up, vote>>
    PROVE  /\ Present' = Present
           /\ TalliedMixes(Present)' = TalliedMixes(Present)
           /\ TalliedParams(Present)' = TalliedParams(Present)
           /\ Full' = Full
<1>1. Present' = Present
  BY DEF Present
<1>2. TalliedMixes(Present)' = TalliedMixes(Present)
  BY <1>1 DEF TalliedMixes
<1>3. TalliedParams(Present)' = TalliedParams(Present)
  BY <1>1 DEF TalliedParams
<1> QED
  BY <1>1, <1>2, <1>3 DEF Full, TallyOK

(* Nobody leaves the vote phase before all those present have voted. *)
LEMMA NotAllVoted ==
    ASSUME IInv, OnTimeHolds, OnTime, NEW c \in Present, vote[c] = None,
           NEW a \in Present
    PROVE  st[a] \notin Revealing
<1>1. st[a] \in Revealing => c \in votes[a]
  BY Zenon DEF OnTimeHolds, Through
<1>2. a \in Authorities
  BY DEF Present
<1>3. c \notin votes[a]
  BY <1>2 DEF IInv, HeldWasSent
<1> QED
  BY <1>1, <1>3

(* An authority that does not move, and that holds what it held, is as far *)
(* as it was.                                                              *)
LEMMA StaysThrough ==
    ASSUME UNCHANGED <<up, vote, genesis>>,
           NEW b \in Authorities, Through(b), st'[b] = st[b],
           certificate'[b] = certificate[b], myconsensus'[b] = myconsensus[b],
           votes[b] \subseteq votes'[b], reveals[b] \subseteq reveals'[b]
    PROVE  Through(b)'
<1>1. /\ Present' = Present
      /\ TalliedMixes(Present)' = TalliedMixes(Present)
      /\ TalliedParams(Present)' = TalliedParams(Present)
      /\ Full' = Full
  BY TallyStays
<1>2. View(b) => View(b)'
  BY <1>1, Zenon DEF View
<1>3. Alike(b)' = Alike(b)
  BY Zenon DEF Alike
<1> HIDE DEF Full, Present, Alike, View
<1>4. /\ (st[b] \in Revealing => Present \subseteq votes[b])'
      /\ (st[b] \in Certifying => Present \subseteq reveals[b])'
  BY <1>1, Zenon DEF Through
<1>5. (st[b] \in Certifying /\ Full
           => certificate[b] # None /\ certificate[b].shared = Present)'
  BY <1>1, Zenon DEF Through
<1>6. (st[b] \in Done /\ Full => View(b))'
  BY <1>1, <1>2, Zenon DEF Through
<1>7. (st[b] = "bootstrap" /\ Full /\ Cardinality(Alike(b)) >= Threshold
           => genesis[b] # FALSE /\ HasPrev # {})'
  BY <1>1, <1>3, Zenon DEF Through
<1> QED
  BY <1>4, <1>5, <1>6, <1>7, Zenon DEF Through

(* An upload handler stores the command it was sent and changes nothing    *)
(* else (onVoteUpload, onRevealUpload, onCertUpload, onSigUpload).         *)
LEMMA UploadAdds ==
    ASSUME IInv, NEW a \in Authorities, NEW b \in Authorities, upload(b, a)
    PROVE  /\ UNCHANGED <<st, up, prev, genesis, vote, certificate, myconsensus,
                          expired>>
           /\ \A c \in Authorities : /\ votes[c] \subseteq votes'[c]
                                     /\ reveals[c] \subseteq reveals'[c]
                                     /\ certificates[c] \subseteq certificates'[c]
<1>1. CASE onVoteUpload(b, a)
  BY <1>1 DEF onVoteUpload, IInv, TypeOK
<1>2. CASE onRevealUpload(b, a)
  BY <1>2 DEF onRevealUpload, IInv, TypeOK
<1>3. CASE onCertUpload(b, a)
  BY <1>3, Zenon DEF onCertUpload, IInv, TypeOK
<1>4. CASE onSigUpload(b, a)
  BY <1>4, Zenon DEF onSigUpload
<1> QED
  BY <1>1, <1>2, <1>3, <1>4 DEF upload

(* What no step can undo: own commands are kept, who voted with the        *)
(* previous document has it, and the epoch begins after the certificates   *)
(* (getVote, getCertificate, fsm).                                         *)
LEMMA HeldStep ==
    ASSUME MaxSkew = 1, IInv, OwnHeld, PrevHeld, ClockHolds, [Next]_vars
    PROVE  OwnHeld' /\ PrevHeld' /\ ClockHolds'
<1> USE DEF Present
<1>1. ASSUME NEW a \in Authorities, getVote(a)
      PROVE  OwnHeld' /\ PrevHeld' /\ ClockHolds'
  <2>1. /\ st[a] = "accept_desc" /\ a \in Present
        /\ st' = [st EXCEPT ![a] = "accept_vote"]
        /\ votes' = [votes EXCEPT ![a] = @ \cup {a}]
        /\ reveals' = [reveals EXCEPT ![a] = @ \cup {a}]
        /\ genesis' = [genesis EXCEPT ![a] = ~prev[a]]
        /\ UNCHANGED <<up, prev, certificate, certificates, expired>>
    BY <1>1 DEF getVote, Active, Leave, IInv, TypeOK
  <2>2. OwnHeld'
    BY <2>1 DEF OwnHeld, IInv, TypeOK
  <2>3. PrevHeld'
    BY <2>1, Zenon DEF PrevHeld, IInv, TypeOK
  <2>4. ClockHolds'
    BY <2>1, Zenon DEF ClockHolds, Done
  <2> QED BY <2>2, <2>3, <2>4
<1>2. ASSUME NEW a \in Authorities, sendReveal(a) \/ getMyConsensus(a)
                                      \/ getThresholdConsensus(a)
      PROVE  OwnHeld' /\ PrevHeld' /\ ClockHolds'
  <2>1. /\ st[a] # "accept_desc"
        /\ \E s \in States \ {"accept_desc"} :
             /\ st' = [st EXCEPT ![a] = s]
             /\ st[a] \in Done => s \in Done
        /\ UNCHANGED <<up, prev, genesis, certificate, votes, reveals,
                       certificates, expired>>
    BY <1>2, Zenon DEF sendReveal, getMyConsensus, getThresholdConsensus, Active, Leave,
                States, Done
  <2>2. OwnHeld' /\ PrevHeld'
    BY <2>1 DEF OwnHeld, PrevHeld, IInv, TypeOK
  <2>3. ClockHolds'
    BY <2>1, Zenon DEF ClockHolds, IInv, TypeOK
  <2> QED BY <2>2, <2>3, Zenon
<1>3. ASSUME NEW a \in Authorities, getCertificate(a)
      PROVE  OwnHeld' /\ PrevHeld' /\ ClockHolds'
  <2>1. /\ st[a] = "accept_reveal" /\ a \in Present
        /\ st' = [st EXCEPT ![a] = "accept_cert"]
        /\ UNCHANGED <<up, prev, genesis, votes, reveals, expired>>
    BY <1>3, Zenon DEF getCertificate, Active, Leave, IInv, TypeOK
  <2>2. \A b \in Authorities : /\ certificates[b] \subseteq certificates'[b]
                               /\ certificate'[b] # certificate[b]
                                     => b = a /\ a \in certificates'[a]
    <3>1. \/ UNCHANGED <<certificate, certificates>>
          \/ /\ \E new : certificate' = [certificate EXCEPT ![a] = new]
             /\ certificates' = [certificates EXCEPT ![a] = @ \cup {a}]
      BY <1>3, Zenon DEF getCertificate
    <3> QED BY <3>1 DEF IInv, TypeOK
  <2>3. OwnHeld'
    BY <2>1, <2>2, Zenon DEF OwnHeld, IInv, TypeOK
  <2>4. PrevHeld'
    BY <2>1 DEF PrevHeld, IInv, TypeOK
  <2>5. ClockHolds'
    BY <2>1, Zenon DEF ClockHolds, Done
  <2> QED BY <2>3, <2>4, <2>5
<1>4. ASSUME NEW a \in Authorities, NEW b \in Authorities, upload(b, a)
      PROVE  OwnHeld' /\ PrevHeld' /\ ClockHolds'
  <2>1. /\ UNCHANGED <<st, up, prev, genesis, certificate, expired>>
        /\ \A c \in Authorities : /\ votes[c] \subseteq votes'[c]
                                  /\ reveals[c] \subseteq reveals'[c]
                                  /\ certificates[c] \subseteq certificates'[c]
    BY <1>4, UploadAdds
  <2> QED BY <2>1 DEF OwnHeld, PrevHeld, ClockHolds
<1>5. ASSUME NEW a \in Authorities, Crash(a)
      PROVE  OwnHeld' /\ PrevHeld' /\ ClockHolds'
  <2>1. /\ UNCHANGED <<st, prev, genesis, certificate, expired>>
        /\ Present' = Present \ {a}
        /\ \A c \in Present' : /\ votes'[c] = votes[c] /\ reveals'[c] = reveals[c]
                               /\ certificates'[c] = certificates[c]
    BY <1>5, Zenon DEF Crash, IInv, TypeOK
  <2> HIDE DEF Present
  <2> QED BY <2>1, Zenon DEF OwnHeld, PrevHeld, ClockHolds
<1>6. ASSUME NEW a \in Authorities, fetchPrevious(a)
      PROVE  OwnHeld' /\ PrevHeld' /\ ClockHolds'
  <2>1. /\ UNCHANGED <<st, up, genesis, certificate, votes, reveals,
                       certificates, expired>>
        /\ HasPrev # {} /\ prev' = [prev EXCEPT ![a] = TRUE]
    BY <1>6, Zenon DEF fetchPrevious
  <2> QED BY <2>1 DEF OwnHeld, PrevHeld, ClockHolds, IInv, TypeOK
<1>7. ASSUME (\E a \in Authorities : fetchConsensus(a)) \/ UNCHANGED vars
      PROVE  OwnHeld' /\ PrevHeld' /\ ClockHolds'
  <2>1. UNCHANGED <<st, up, prev, genesis, certificate, votes, reveals,
                    certificates, expired>>
    BY <1>7 DEF fetchConsensus, vars
  <2> QED BY <2>1, Zenon DEF OwnHeld, PrevHeld, ClockHolds
<1>8. ASSUME EpochBegins
      PROVE  OwnHeld' /\ PrevHeld' /\ ClockHolds'
  <2>1. UNCHANGED <<st, up, prev, genesis, certificate, votes, reveals,
                    certificates>>
    BY <1>8 DEF EpochBegins
  <2>2. \A b \in Present : st[b] \in Done
    BY <1>8, SamePhase, Zenon
  <2> QED BY <2>1, <2>2 DEF OwnHeld, PrevHeld, ClockHolds
<1> QED
  BY <1>1, <1>2, <1>3, <1>4, <1>5, <1>6, <1>7, <1>8 DEF Next, fsm

(* The round was on time before, if it is on time after a step: missed     *)
(* never decreases, a vote is not taken back and a crash is for good.      *)
LEMMA OnTimeBefore ==
    ASSUME IInv, [Next]_vars, OnTime'
    PROVE  OnTime
<1>1. missed' = 0 /\ \A b \in Authorities : up'[b] \/ vote'[b] = None
  BY DEF OnTime
<1>2. missed = 0
  <2>1. ASSUME NEW a \in Authorities, fsm(a) PROVE missed = 0
    <3>1. PICK s \in States, late \in SUBSET Authorities : Leave(a, s, late)
      BY <2>1, Zenon DEF fsm, getVote, sendReveal, getCertificate, getMyConsensus,
                  getThresholdConsensus, States
    <3> QED BY <1>1, <3>1, NoneLate DEF IInv, TypeOK
  <2>2. CASE UNCHANGED missed
    BY <1>1, <2>2, Zenon
  <2>3. (\E a \in Authorities : fsm(a)) \/ UNCHANGED missed
    BY Zenon DEF Next, upload, onVoteUpload, onRevealUpload, onCertUpload, onSigUpload,
           Crash, fetchPrevious, fetchConsensus, EpochBegins, vars
  <2> QED BY <2>1, <2>2, <2>3, Zenon
<1>3. \A b \in Authorities : up'[b] => up[b]
  <2>1. UNCHANGED up \/ \E a \in Authorities : up' = [up EXCEPT ![a] = FALSE]
    BY Zenon DEF Next, fsm, getVote, sendReveal, getCertificate, getMyConsensus,
           getThresholdConsensus, upload, onVoteUpload, onRevealUpload,
           onCertUpload, onSigUpload, Crash, fetchPrevious, fetchConsensus,
           EpochBegins, vars
  <2> QED BY <2>1 DEF IInv, TypeOK
<1>4. \A b \in Authorities : vote'[b] = None => vote[b] = None
  <2>1. ASSUME NEW a \in Authorities, getVote(a), NEW b \in Authorities,
               vote'[b] = None
        PROVE  vote[b] = None
    <3>1. PICK ds \in SUBSET Mixes : vote' = [vote EXCEPT ![a] = ds]
      BY <2>1, Zenon DEF getVote
    <3>2. ds # None
      BY NoneAssumption, Zenon
    <3> QED BY <2>1, <3>1, <3>2, Zenon DEF IInv, TypeOK
  <2>2. (\E a \in Authorities : getVote(a)) \/ UNCHANGED vote
    BY Zenon DEF Next, fsm, sendReveal, getCertificate, getMyConsensus,
           getThresholdConsensus, upload, onVoteUpload, onRevealUpload,
           onCertUpload, onSigUpload, Crash, fetchPrevious, fetchConsensus,
           EpochBegins, vars
  <2> QED BY <2>1, <2>2
<1> QED
  BY <1>1, <1>2, <1>3, <1>4 DEF OnTime

(* While an authority present has not voted, nobody is through a phase,    *)
(* and a vote or a crash of that authority leaves it so (getVote).         *)
LEMMA BeforeReveals ==
    ASSUME IInv, OnTimeHolds, OnTime, OnTime', NEW c \in Authorities,
           getVote(c) \/ Crash(c)
    PROVE  \A b \in Present' : Through(b)'
<1>1. c \in Present
  BY DEF getVote, Active, Crash, Present, IInv, TypeOK
<1>2. vote[c] = None
  <2>1. CASE getVote(c)
    BY <2>1, Zenon DEF getVote, Active, IInv, SentInPhase
  <2>2. CASE Crash(c)
    BY <2>2 DEF Crash, OnTime, IInv, TypeOK
  <2> QED BY <2>1, <2>2, Zenon
<1>3. \A b \in Present : st[b] \notin Revealing
  BY <1>1, <1>2, NotAllVoted, Zenon
<1>4. \A b \in Present' : b \in Present /\ st'[b] \notin Revealing
  <2>1. Present' \subseteq Present
    BY Zenon DEF getVote, Crash, Present, IInv, TypeOK
  <2>2. \A b \in Authorities : st'[b] = st[b] \/ st'[b] = "accept_vote"
    BY DEF getVote, Crash, Leave, IInv, TypeOK
  <2> QED BY <1>3, <2>1, <2>2, Zenon DEF Present, Revealing, Certifying, Done
<1> SUFFICES ASSUME NEW b \in Present' PROVE Through(b)'
  OBVIOUS
<1>5. /\ st'[b] \notin Revealing /\ st'[b] \notin Certifying
      /\ st'[b] \notin Done /\ st'[b] # "bootstrap"
  BY <1>4 DEF Revealing, Certifying, Done
<1> QED
  BY <1>5, Zenon DEF Through

(* The end of the vote phase: the votes of all those present are there. *)
LEMMA ThroughVotes ==
    ASSUME IInv, OwnHeld, OnTimeHolds, OnTime, OnTime', NEW c \in Authorities,
           sendReveal(c)
    PROVE  \A b \in Present' : Through(b)'
<1>1. /\ c \in Present /\ st[c] = "accept_vote"
      /\ st' = [st EXCEPT ![c] = "accept_reveal"]
      /\ UNCHANGED <<up, vote, genesis, certificate, myconsensus, votes, reveals>>
  BY DEF sendReveal, Active, Leave, Present, IInv, TypeOK
<1>2. Present' = Present
  BY <1>1, TallyStays, Zenon
<1>3. Present \subseteq votes[c]
  <2>1. {b \in Authorities : up[b]} \ votes[c] \subseteq {c}
    BY NoneLate DEF sendReveal, OnTime, IInv, TypeOK
  <2> QED BY <1>1, <2>1 DEF OwnHeld, Present
<1>4. Through(c)'
  <2>1. /\ st'[c] = "accept_reveal" /\ votes'[c] = votes[c]
    BY <1>1 DEF IInv, TypeOK
  <2>2. /\ st'[c] \notin Certifying /\ st'[c] \notin Done /\ st'[c] # "bootstrap"
    BY <2>1, Zenon DEF Certifying, Done
  <2> QED BY <1>2, <1>3, <2>1, <2>2, Zenon DEF Through
<1>5. \A b \in Present \ {c} : Through(b)'
  <2> SUFFICES ASSUME NEW b \in Present \ {c} PROVE Through(b)'
    OBVIOUS
  <2>1. b \in Authorities /\ st'[b] = st[b] /\ Through(b)
    BY <1>1 DEF Present, OnTimeHolds, IInv, TypeOK
  <2> QED BY <1>1, <2>1, StaysThrough, Zenon
<1> QED
  BY <1>2, <1>4, <1>5, Zenon

(* The end of the reveal phase: the reveals of all those present are       *)
(* there, and a full topology is certified (getCertificate).               *)
LEMMA ThroughReveals ==
    ASSUME Cardinality(Authorities) > 1, IInv, OwnHeld, ClockHolds, OnTimeHolds,
           OnTime, OnTime', NEW c \in Authorities, getCertificate(c)
    PROVE  \A b \in Present' : Through(b)'
<1>1. /\ c \in Present /\ st[c] = "accept_reveal"
      /\ st' = [st EXCEPT ![c] = "accept_cert"]
      /\ UNCHANGED <<up, vote, genesis, myconsensus, votes, reveals>>
  BY Zenon DEF getCertificate, Active, Leave, Present, IInv, TypeOK
<1>2. Present' = Present /\ Full' = Full
  BY <1>1, TallyStays, Zenon
<1>3. votes[c] = Present
  <2>1. Present \subseteq votes[c]
    <3>1. Through(c) /\ st[c] \in Revealing
      BY <1>1 DEF OnTimeHolds, Revealing
    <3> QED BY <3>1, Zenon DEF Through
  <2> QED BY <2>1, HeldIsPresent, Zenon
<1>4. Present \subseteq reveals[c]
  <2> DEFINE late == {b \in Authorities : up[b]} \ reveals[c]
  <2>1. Leave(c, "accept_cert", late) /\ missed \in Nat /\ missed' = 0
    BY Zenon DEF getCertificate, OnTime, IInv, TypeOK
  <2>2. late \in SUBSET Authorities
    OBVIOUS
  <2>3. late \subseteq {c}
    <3> HIDE DEF late
    <3> QED BY <2>1, <2>2, NoneLate
  <2> QED BY <1>1, <2>3 DEF OwnHeld, Present
<1>5. Full => TallyOK(votes[c]) /\ CertificateWellFormed(c)
  <2> SUFFICES ASSUME Full PROVE TallyOK(votes[c]) /\ CertificateWellFormed(c)
    OBVIOUS
  <2>1. ~expired
    BY <1>1 DEF ClockHolds, Done, IInv, TypeOK
  <2>2. Cardinality(votes[c]) # 1
    <3>1. Cardinality(Authorities) \in Nat
      BY Count
    <3>2. Cardinality(Present) >= Threshold
      BY DEF Full, TallyOK
    <3>3. Threshold >= 2
      BY <3>1 DEF Threshold
    <3>4. Present \in SUBSET Authorities
      BY DEF Present
    <3>5. Cardinality(Present) \in Nat /\ Threshold \in Nat
      BY <3>4, Count, Majority
    <3> QED BY <1>3, <3>2, <3>3, <3>5
  <2> QED BY <1>3, <1>4, <2>1, <2>2 DEF Full, CertificateWellFormed
<1>6. Full => certificate'[c] # None /\ certificate'[c].shared = Present
  <2> SUFFICES ASSUME Full
               PROVE  certificate'[c] # None /\ certificate'[c].shared = Present
    OBVIOUS
  <2> DEFINE new == [mixes |-> TalliedMixes(votes[c]), shared |-> votes[c]]
  <2>1. certificate' = [certificate EXCEPT ![c] = new]
    BY <1>5, Zenon DEF getCertificate
  <2>2. new.shared = Present /\ new \in Certificate
    <3>1. TalliedMixes(votes[c]) \in SUBSET Mixes /\ votes[c] \in SUBSET Authorities
      BY DEF TalliedMixes, IInv, TypeOK
    <3> QED BY <1>3, <3>1 DEF Certificate
  <2>3. certificate'[c] = new
    BY <2>1, Zenon DEF IInv, TypeOK
  <2> HIDE DEF new
  <2> QED BY <2>2, <2>3, NoneAssumption
<1>7. Through(c)'
  <2>1. /\ st'[c] = "accept_cert" /\ votes'[c] = votes[c] /\ reveals'[c] = reveals[c]
    BY <1>1, Zenon DEF IInv, TypeOK
  <2>2. st'[c] \notin Done /\ st'[c] # "bootstrap"
    BY <2>1, Zenon DEF Done
  <2> QED BY <1>2, <1>3, <1>4, <1>6, <2>1, <2>2, Zenon DEF Through
<1>8. \A b \in Present \ {c} : Through(b)'
  <2> SUFFICES ASSUME NEW b \in Present \ {c} PROVE Through(b)'
    OBVIOUS
  <2>1. b \in Authorities /\ st'[b] = st[b] /\ Through(b)
    BY <1>1, Zenon DEF Present, OnTimeHolds, IInv, TypeOK
  <2>2. certificate'[b] = certificate[b]
    BY <2>1, Zenon DEF getCertificate, IInv, TypeOK
  <2> QED BY <1>1, <2>1, <2>2, StaysThrough, Zenon
<1> QED
  BY <1>2, <1>7, <1>8, Zenon

(* The views that getMyConsensus may compute when its checks pass. *)
LEMMA Views ==
    ASSUME NEW c, ~(\/ Cardinality(certificates[c]) < Threshold
                    \/ expired
                    \/ ~TallyOK(votes[c]))
    PROVE  \A d : d \in MyConsensus(c) <=>
             \E p \in TalliedParams(votes[c]),
                r \in {s \in VerifiedCommits(c) : Cardinality(s) >= Threshold} :
                  d = [mixes |-> TalliedMixes(votes[c]), params |-> p,
                       reveals |-> r, prev |-> prev[c], genesis |-> genesis[c]]
  BY DEF MyConsensus

(* A document is what its fields are: a signature over one view verifies   *)
(* over an equal one (AddSignature).                                       *)
LEMMA SameFields ==
    ASSUME NEW d \in Document, NEW e \in Document,
           d.mixes = e.mixes, d.params = e.params, d.reveals = e.reveals,
           d.prev = e.prev, d.genesis = e.genesis
    PROVE  d = e
  BY DEF Document

(* With the certificates of all those present, the commits that verify are *)
(* theirs, so that every view computed is the common one (verifyCommits,   *)
(* getMyConsensus).                                                        *)
LEMMA CommonView ==
    ASSUME IInv, NEW c \in Authorities, Full, ~expired,
           certificates[c] = Present, c \in Present,
           \A b \in Present : certificate[b].shared = Present,
           votes[c] = Present, Present \subseteq reveals[c]
    PROVE  /\ VerifiedCommits(c) = {Present}
           /\ MyConsensus(c) # {}
           /\ \A d \in MyConsensus(c) :
                 \E p \in TalliedParams(Present) :
                    d = [mixes |-> TalliedMixes(Present), params |-> p,
                         reveals |-> Present, prev |-> prev[c],
                         genesis |-> genesis[c]]
<1>1. VerifiedCommits(c) = {Present}
  <2> DEFINE peers == UNION {certificate[b].shared : b \in certificates[c] \ {c}}
  <2>1. \A b \in certificates[c] \ {c} : certificate[b].shared = Present
    OBVIOUS
  <2>2. peers \subseteq Present
    BY <2>1
  <2>3. c \in certificates[c] /\ votes[c] \subseteq reveals[c]
    OBVIOUS
  <2>4. VerifiedCommits(c) = {peers \cup votes[c]}
    BY <2>3, Zenon DEF VerifiedCommits
  <2> HIDE DEF peers
  <2>5. peers \cup votes[c] = Present
    BY <2>2
  <2> QED BY <2>4, <2>5, Zenon
<1>2. Cardinality(Present) >= Threshold /\ TallyOK(Present)
  BY DEF Full, TallyOK
<1>3. ~(Cardinality(Present) < Threshold)
  <2>1. Present \in SUBSET Authorities
    BY DEF Present
  <2> QED BY <1>2, <2>1, Count, Majority
<1>4. {s \in VerifiedCommits(c) : Cardinality(s) >= Threshold} = {Present}
  BY <1>1, <1>2
<1>5. ~(\/ Cardinality(certificates[c]) < Threshold
        \/ expired
        \/ ~TallyOK(votes[c]))
  BY <1>2, <1>3, Zenon
<1>6. \A d : d \in MyConsensus(c) <=>
        \E p \in TalliedParams(votes[c]),
           r \in {s \in VerifiedCommits(c) : Cardinality(s) >= Threshold} :
             d = [mixes |-> TalliedMixes(votes[c]), params |-> p, reveals |-> r,
                  prev |-> prev[c], genesis |-> genesis[c]]
  BY <1>5, Views, Zenon
<1>7. \A d : d \in MyConsensus(c) <=>
        \E p \in TalliedParams(Present) :
             d = [mixes |-> TalliedMixes(Present), params |-> p,
                  reveals |-> Present, prev |-> prev[c], genesis |-> genesis[c]]
  BY <1>4, <1>6, Zenon
<1>8. \E p : p \in TalliedParams(Present)
  BY <1>2, Zenon DEF TallyOK
<1> QED
  BY <1>1, <1>7, <1>8, Zenon
(* The end of the certificate phase: with a full topology, everybody       *)
(* present has certified it and signs the common view (getMyConsensus).    *)
LEMMA ThroughCertificates ==
    ASSUME MaxSkew = 1, IInv, OwnHeld, PrevHeld, ClockHolds, OnTimeHolds,
           OnTime, OnTime', NEW c \in Authorities, getMyConsensus(c)
    PROVE  \A b \in Present' : Through(b)'
<1>1. /\ c \in Present /\ st[c] = "accept_cert" /\ Through(c)
      /\ st' = [st EXCEPT ![c] = "accept_signature"]
      /\ UNCHANGED <<up, prev, genesis, vote, certificate, votes, reveals>>
  BY DEF getMyConsensus, Active, Leave, Present, OnTimeHolds, IInv, TypeOK
<1>2. /\ Present' = Present /\ Full' = Full
      /\ TalliedMixes(Present)' = TalliedMixes(Present)
      /\ TalliedParams(Present)' = TalliedParams(Present)
  BY <1>1, TallyStays
<1>3. st[c] \in Revealing /\ st[c] \in Certifying
  BY <1>1 DEF Revealing, Certifying
<1>4. votes[c] = Present /\ Present \subseteq reveals[c]
  <2>1. Present \subseteq votes[c] /\ Present \subseteq reveals[c]
    BY <1>1, <1>3, Zenon DEF Through
  <2> QED BY <2>1, HeldIsPresent, Zenon
<1>5. ASSUME Full PROVE View(c)'
  <2>1. \A b \in Present : certificate[b] # None /\ certificate[b].shared = Present
    <3> SUFFICES ASSUME NEW b \in Present
                 PROVE  certificate[b] # None /\ certificate[b].shared = Present
      BY Zenon
    <3>1. st[b] \in Certifying
      BY SamePhase DEF getMyConsensus
    <3>2. Through(b)
      BY DEF OnTimeHolds
    <3> QED BY <1>5, <3>1, <3>2, Zenon DEF Through
  <2>2. certificates[c] = Present
    <3> DEFINE late == Certified \ certificates[c]
    <3>1. Leave(c, "accept_signature", late) /\ missed \in Nat /\ missed' = 0
      BY Zenon DEF getMyConsensus, Certified, OnTime, IInv, TypeOK
    <3>2. late \in SUBSET Authorities
      BY DEF Certified
    <3>3. late \subseteq {c}
      <4> HIDE DEF late
      <4> QED BY <3>1, <3>2, NoneLate, Zenon
    <3>4. Present \subseteq certificates[c]
      BY <1>1, <2>1, <3>3 DEF OwnHeld, Certified, Present
    <3>5. certificates[c] \subseteq Certified
      BY DEF Certified, IInv, TypeOK, HeldWasSent
    <3> QED BY <3>4, <3>5, HeldIsPresent, Zenon
  <2>3. ~expired
    BY <1>1, Zenon DEF ClockHolds, Done, IInv, TypeOK
  <2>4. /\ VerifiedCommits(c) = {Present}
        /\ MyConsensus(c) # {}
        /\ \A d \in MyConsensus(c) :
              \E p \in TalliedParams(Present) :
                 d = [mixes |-> TalliedMixes(Present), params |-> p,
                      reveals |-> Present, prev |-> prev[c],
                      genesis |-> genesis[c]]
    BY <1>1, <1>4, <1>5, <2>1, <2>2, <2>3, CommonView, Zenon
  <2>5. ~ \E s \in VerifiedCommits(c) : Cardinality(s) < Threshold
    <3>1. Present \in SUBSET Authorities /\ Cardinality(Present) >= Threshold
      BY <1>5 DEF Present, Full, TallyOK
    <3>2. ~(Cardinality(Present) < Threshold)
      BY <3>1, Count, Majority
    <3> QED BY <2>4, <3>2
  <2>6. PICK d \in MyConsensus(c) : myconsensus' = [myconsensus EXCEPT ![c] = d]
    BY <2>4, <2>5, Zenon DEF getMyConsensus
  <2>7. PICK p \in TalliedParams(Present) :
           d = [mixes |-> TalliedMixes(Present), params |-> p,
                reveals |-> Present, prev |-> prev[c], genesis |-> genesis[c]]
    BY <2>4, <2>6, Zenon
  <2>8. myconsensus'[c] = d
    BY <2>6, Zenon DEF IInv, TypeOK
  <2>9. d # None
    BY ConsensusComputed, <1>1, <2>6, NoneAssumption, Zenon
  <2>10. /\ d.mixes = TalliedMixes(Present) /\ d.params = p
         /\ d.reveals = Present /\ d.prev = prev[c] /\ d.genesis = genesis[c]
    BY <2>7, Zenon
  <2>11. /\ genesis[c] = FALSE => prev[c] = TRUE
         /\ HasPrev = {} => prev[c] = FALSE
    BY <1>1, Zenon DEF PrevHeld
  <2> QED BY <1>1, <1>2, <2>8, <2>9, <2>10, <2>11, Zenon DEF View
<1>6. Through(c)'
  <2>1. /\ st'[c] = "accept_signature" /\ st'[c] # "bootstrap"
    BY <1>1 DEF IInv, TypeOK
  <2>2. Full => certificate[c] # None /\ certificate[c].shared = Present
    BY <1>1, <1>3, Zenon DEF Through
  <2> QED BY <1>1, <1>2, <1>4, <1>5, <2>1, <2>2, Zenon DEF Through
<1>7. \A b \in Present \ {c} : Through(b)'
  <2> SUFFICES ASSUME NEW b \in Present \ {c} PROVE Through(b)'
    OBVIOUS
  <2>1. b \in Authorities /\ st'[b] = st[b] /\ Through(b)
    BY <1>1 DEF Present, OnTimeHolds, IInv, TypeOK
  <2>2. myconsensus'[b] = myconsensus[b]
    BY <2>1, Zenon DEF getMyConsensus, IInv, TypeOK
  <2> QED BY <1>1, <2>1, <2>2, StaysThrough, Zenon
<1> QED
  BY <1>2, <1>6, <1>7, Zenon

(* Two thresholds of the same votes name the same parameters (tallyVotes). *)
LEMMA ParamsUnique ==
    ASSUME NEW p \in TalliedParams(Present), NEW q \in TalliedParams(Present)
    PROVE  p = q
<1>1. {b \in Present : Params[b] = p} \in SUBSET Authorities
  BY DEF Present
<1>2. {b \in Present : Params[b] = q} \in SUBSET Authorities
  BY DEF Present
<1>3. /\ Cardinality({b \in Present : Params[b] = p}) >= Threshold
      /\ Cardinality({b \in Present : Params[b] = q}) >= Threshold
  BY Zenon DEF TalliedParams
<1>4. \E a \in Authorities : /\ a \in {b \in Present : Params[b] = p}
                             /\ a \in {b \in Present : Params[b] = q}
  BY <1>1, <1>2, <1>3, QuorumsMeet
<1> QED
  BY <1>4

(* The end of the signature phase: an authority whose view a majority      *)
(* shares has their signatures and does not go back to bootstrap           *)
(* (getThresholdConsensus).                                                *)
LEMMA ThroughSignatures ==
    ASSUME MaxSkew = 1, IInv, OnTimeHolds, OnTime, OnTime',
           NEW c \in Authorities, getThresholdConsensus(c)
    PROVE  \A b \in Present' : Through(b)'
<1>1. /\ c \in Present /\ st[c] = "accept_signature" /\ Through(c)
      /\ UNCHANGED <<up, genesis, vote, certificate, myconsensus, votes, reveals>>
  BY Zenon DEF getThresholdConsensus, Active, Present, OnTimeHolds, IInv, TypeOK
<1>2. PICK s \in {"next_round", "bootstrap"} : st' = [st EXCEPT ![c] = s]
  BY DEF getThresholdConsensus, Leave
<1>3. /\ Present' = Present /\ Full' = Full
      /\ TalliedMixes(Present)' = TalliedMixes(Present)
      /\ TalliedParams(Present)' = TalliedParams(Present)
  BY <1>1, TallyStays
<1>4. st[c] \in Revealing /\ st[c] \in Certifying /\ st[c] \in Done
  BY <1>1 DEF Revealing, Certifying, Done
<1>5. ASSUME Full, Cardinality(Alike(c)) >= Threshold,
             genesis[c] = FALSE \/ HasPrev = {}
      PROVE  s = "next_round"
  <2>1. \A b \in Present : View(b)
    <3> SUFFICES ASSUME NEW b \in Present PROVE View(b)
      BY Zenon
    <3>1. st[b] \in Done
      BY SamePhase, Zenon DEF getThresholdConsensus
    <3>2. Through(b)
      BY DEF OnTimeHolds
    <3> QED BY <1>5, <3>1, <3>2, Zenon DEF Through
  <2> DEFINE late == {b \in Authorities : myconsensus[b] # None} \ signatures[c]
  <2>2. (\E t : Leave(c, t, late)) /\ missed \in Nat /\ missed' = 0
    BY Zenon DEF getThresholdConsensus, OnTime, IInv, TypeOK
  <2>3. late \subseteq {c}
    <3>1. late \in SUBSET Authorities
      OBVIOUS
    <3> HIDE DEF late
    <3> QED BY <2>2, <3>1, NoneLate
  <2>4. Alike(c) \subseteq Signers(c)
    <3> SUFFICES ASSUME NEW b \in Alike(c) PROVE b \in Signers(c)
      OBVIOUS
    <3>1. b \in Present /\ b \in Authorities /\ genesis[b] = genesis[c]
      BY Zenon DEF Alike, Present, IInv, TypeOK
    <3>2. View(b) /\ View(c)
      BY <1>1, <2>1, <3>1, Zenon
    <3>3. b \in signatures[c] \cup {c}
      BY <2>3, <3>1, <3>2, Zenon DEF View
    <3>4. myconsensus[b] \in Document /\ myconsensus[c] \in Document
      BY <3>1, <3>2, Zenon DEF View, IInv, TypeOK
    <3>5. /\ myconsensus[b].mixes = myconsensus[c].mixes
          /\ myconsensus[b].params = myconsensus[c].params
          /\ myconsensus[b].reveals = myconsensus[c].reveals
          /\ myconsensus[b].genesis = myconsensus[c].genesis
      BY <3>1, <3>2, ParamsUnique, Zenon DEF View
    <3>6. myconsensus[b].prev = myconsensus[c].prev
      BY <1>5, <3>1, <3>2, Zenon DEF View
    <3>7. myconsensus[b] = myconsensus[c]
      BY <3>4, <3>5, <3>6, SameFields, Zenon
    <3> QED BY <3>3, <3>7 DEF Signers
  <2>5. Cardinality(Signers(c)) >= Threshold
    <3>1. Signers(c) \in SUBSET Authorities
      BY Zenon DEF Signers, IInv, TypeOK
    <3> HIDE DEF late
    <3>2. /\ Cardinality(Alike(c)) \in Nat /\ Cardinality(Signers(c)) \in Nat
          /\ Cardinality(Alike(c)) <= Cardinality(Signers(c))
      BY <2>4, <3>1, Count, Zenon
    <3> QED BY <1>5, <3>2, Majority
  <2>6. myconsensus[c] # None
    BY <1>1, <2>1, Zenon DEF View
  <2>7. st'[c] = "next_round"
    <3>1. \E t : Leave(c, "next_round", t)
      BY <2>5, <2>6, Zenon DEF getThresholdConsensus
    <3> QED BY <3>1, Zenon DEF Leave, IInv, TypeOK
  <2> QED BY <1>2, <2>7 DEF IInv, TypeOK
<1>6. Through(c)'
  <2>1. st'[c] = s
    BY <1>2 DEF IInv, TypeOK
  <2>2. /\ Present \subseteq votes[c] /\ Present \subseteq reveals[c]
        /\ Full => certificate[c] # None /\ certificate[c].shared = Present
        /\ Full => View(c)
    BY <1>1, <1>4, Zenon DEF Through
  <2>3. View(c)' <=> View(c)
    BY <1>1, <1>3, Zenon DEF View
  <2>4. Alike(c)' = Alike(c)
    BY <1>1, Zenon DEF Alike
  <2>5. (st[c] = "bootstrap" /\ Full /\ Cardinality(Alike(c)) >= Threshold
           => genesis[c] # FALSE /\ HasPrev # {})'
    BY <1>1, <1>3, <1>5, <2>1, <2>4, Zenon
  <2> QED BY <1>1, <1>3, <2>2, <2>3, <2>5, Zenon DEF Through
<1>7. \A b \in Present \ {c} : Through(b)'
  <2> SUFFICES ASSUME NEW b \in Present \ {c} PROVE Through(b)'
    OBVIOUS
  <2>1. b \in Authorities /\ st'[b] = st[b] /\ Through(b)
    BY <1>2, Zenon DEF Present, OnTimeHolds, IInv, TypeOK
  <2> QED BY <1>1, <2>1, StaysThrough, Zenon
<1> QED
  BY <1>3, <1>6, <1>7, Zenon

(* The other steps move no FSM and only add to what is held. *)
LEMMA ThroughOthers ==
    ASSUME IInv, OnTimeHolds, OnTime,
           \/ \E a, b \in Authorities : upload(b, a)
           \/ \E a \in Authorities : fetchPrevious(a) \/ fetchConsensus(a)
           \/ EpochBegins
           \/ UNCHANGED vars
    PROVE  \A b \in Present' : Through(b)'
<1>1. /\ UNCHANGED <<st, up, vote, genesis, certificate, myconsensus>>
      /\ \A c \in Authorities : /\ votes[c] \subseteq votes'[c]
                                /\ reveals[c] \subseteq reveals'[c]
  <2>1. CASE \E a, b \in Authorities : upload(b, a)
    BY <2>1, UploadAdds
  <2>2. CASE \/ \E a \in Authorities : fetchPrevious(a) \/ fetchConsensus(a)
             \/ EpochBegins
             \/ UNCHANGED vars
    <3>1. UNCHANGED <<st, up, vote, genesis, certificate, myconsensus, votes,
                      reveals>>
      BY <2>2, Zenon DEF fetchPrevious, fetchConsensus, EpochBegins, vars
    <3> QED BY <3>1, Zenon
  <2> QED BY <2>1, <2>2, Zenon
<1>2. Present' = Present
  BY <1>1, TallyStays, Zenon
<1> SUFFICES ASSUME NEW b \in Present PROVE Through(b)'
  BY <1>2
<1>3. b \in Authorities /\ Through(b)
  BY DEF Present, OnTimeHolds
<1> QED
  BY <1>1, <1>3, StaysThrough, Zenon

(* TInv is inductive, relative to IInv. *)
LEMMA NextTInv ==
    ASSUME MaxSkew = 1, Cardinality(Authorities) > 1
    PROVE  IInv /\ TInv /\ [Next]_vars => TInv'
<1> SUFFICES ASSUME IInv, TInv, [Next]_vars PROVE TInv'
  OBVIOUS
<1>1. OwnHeld /\ PrevHeld /\ ClockHolds /\ OnTimeHolds
  BY DEF TInv
<1>2. OwnHeld' /\ PrevHeld' /\ ClockHolds'
  BY <1>1, HeldStep
<1>3. ASSUME OnTime' PROVE \A b \in Present' : Through(b)'
  <2>1. OnTime
    BY <1>3, OnTimeBefore
  <2>2. CASE \E a \in Authorities : fsm(a) \/ Crash(a)
    BY <1>1, <1>3, <2>1, <2>2, BeforeReveals, ThroughVotes, ThroughReveals,
       ThroughCertificates, ThroughSignatures DEF fsm
  <2>3. CASE \/ \E a, b \in Authorities : upload(b, a)
             \/ \E a \in Authorities : fetchPrevious(a) \/ fetchConsensus(a)
             \/ EpochBegins
             \/ UNCHANGED vars
    BY <1>1, <2>1, <2>3, ThroughOthers
  <2> QED BY <2>2, <2>3 DEF Next
<1>4. OnTimeHolds'
  BY <1>3, Zenon DEF OnTimeHolds
<1> QED
  BY <1>2, <1>4, Zenon DEF TInv

(* In a network of several authorities whose FSMs wait for the same        *)
(* deadlines, a round in which no command is late and nobody crashes after *)
(* voting ends with a document at every authority that voted with the      *)
(* previous one, when a majority did, or that votes in the first epoch:    *)
(* only the votes themselves can prevent it (fsm).                         *)
THEOREM TimelyHolds ==
    ASSUME MaxSkew = 1, Cardinality(Authorities) > 1
    PROVE  Spec => []TimelyConsensus
<1>1. Init => TInv
  <2> SUFFICES ASSUME Init PROVE TInv
    OBVIOUS
  <2> USE DEF Init
  <2>1. OwnHeld /\ PrevHeld /\ ClockHolds
    <3>1. OwnHeld /\ ClockHolds
      BY DEF OwnHeld, ClockHolds, Present
    <3>2. \A a \in Authorities : st[a] = "accept_desc"
      BY Zenon
    <3>3. \A a \in Authorities : a \notin HasPrev => prev[a] = FALSE
      <4> SUFFICES ASSUME NEW a \in Authorities, a \notin HasPrev
                   PROVE  prev[a] = FALSE
        BY Zenon
      <4>1. prev[a] = (a \in HasPrev)
        BY Zenon
      <4>2. (a \in HasPrev) = FALSE
        OBVIOUS
      <4> HIDE DEF Init
      <4> QED BY <4>1, <4>2, Zenon
    <3>4. PrevHeld
      <4> HIDE DEF Init
      <4> QED BY <3>2, <3>3 DEF PrevHeld
    <3> QED BY <3>1, <3>4
  <2>2. \A a \in Present : /\ st[a] \notin Revealing /\ st[a] \notin Certifying
                           /\ st[a] \notin Done /\ st[a] # "bootstrap"
    BY DEF Present, Revealing, Certifying, Done
  <2>3. OnTimeHolds
    BY <2>2, Zenon DEF OnTimeHolds, Through
  <2> QED BY <2>1, <2>3 DEF TInv
<1>2. IInv /\ TInv => TimelyConsensus
  <2> SUFFICES ASSUME IInv, TInv, OnTime, NEW a \in Authorities,
                      up[a], st[a] = "bootstrap",
                      Cardinality(Alike(a)) >= Threshold,
                      ~genesis[a] \/ HasPrev = {},
                      TallyOK(votes[a])
               PROVE  Cardinality(TalliedMixes(votes[a])) < MinMixes
    BY Zenon DEF TimelyConsensus
  <2>1. a \in Present /\ (genesis[a] = FALSE \/ HasPrev = {})
    BY Zenon DEF Present, IInv, TypeOK
  <2>2. Through(a)
    BY <2>1 DEF TInv, OnTimeHolds
  <2>3. votes[a] = Present
    <3>1. st[a] \in Revealing
      BY DEF Revealing, Certifying, Done
    <3>2. Present \subseteq votes[a]
      BY <2>2, <3>1, Zenon DEF Through
    <3> QED BY <3>2, HeldIsPresent, Zenon
  <2>4. ~Full
    BY <2>1, <2>2, Zenon DEF Through
  <2>5. ~(Cardinality(TalliedMixes(votes[a])) >= MinMixes)
    BY <2>3, <2>4, Zenon DEF Full
  <2>6. Cardinality(TalliedMixes(votes[a])) \in Nat
    BY MixesAssumption, FS_Subset, FS_CardinalityType, Zenon DEF TalliedMixes
  <2> QED BY <2>5, <2>6, MixesAssumption
<1> QED
  BY <1>1, <1>2, NextTInv, Invariance, PTL DEF Spec
=============================================================================
