---------------------------- MODULE VotingProofs ----------------------------
(***************************************************************************)
(* Proofs about a voting round, for any finite set of authorities and any  *)
(* bounds.  IInv is the inductive invariant; the four invariants of Voting *)
(* and the refinement of AgreedDocument follow from it.                    *)
(***************************************************************************)
EXTENDS Voting, FiniteSetTheorems, TLAPS

Done == {"accept_signature", "next_round", "bootstrap"}

(* What has been sent was sent in its phase, once. *)
SentInPhase ==
    \A a \in Authorities :
        /\ vote[a] # None => st[a] # "accept_desc"
        /\ st[a] # "accept_desc" => vote[a] # None
        /\ certificate[a] # None => st[a] \in Done \cup {"accept_cert"}
        /\ myconsensus[a] # None => st[a] \in Done
        /\ documents[a] # None /\ up[a] => st[a] \in {"next_round", "bootstrap"}

(* What an authority holds was sent. *)
HeldWasSent ==
    \A a \in Authorities :
        /\ \A b \in votes[a] : vote[b] # None
        /\ \A b \in reveals[a] : Revealed(b) \/ (b = a /\ vote[a] # None)
        /\ \A b \in certificates[a] : certificate[b] # None

(* A certificate fills the topology, its descriptors stay in the tally of  *)
(* its author, and the authorities it names have revealed.                 *)
CertificateHolds ==
    \A a \in Authorities : certificate[a] # None =>
        /\ Cardinality(certificate[a].mixes) >= MinMixes
        /\ up[a] => certificate[a].mixes \subseteq TalliedMixes(votes[a])
        /\ myconsensus[a] # None
               => certificate[a].mixes \subseteq myconsensus[a].mixes
        /\ \A b \in certificate[a].shared : Revealed(b)

Backers(m) == {b \in Authorities : vote[b] # None /\ m \in vote[b]}

Certified == {b \in Authorities : certificate[b] # None}

(* A signed consensus was computed from a majority of certificates, of     *)
(* votes for each descriptor and of reveals.                               *)
ConsensusHolds ==
    \A a \in Authorities : myconsensus[a] # None =>
        /\ Cardinality(Certified) >= Threshold
        /\ \A m \in myconsensus[a].mixes : Cardinality(Backers(m)) >= Threshold
        /\ Cardinality(myconsensus[a].reveals) >= Threshold
        /\ \A b \in myconsensus[a].reveals : Revealed(b)

(* A published document carries the signatures of a majority, each over    *)
(* the very document that is published.                                    *)
DocumentSigned ==
    \A a \in Authorities : documents[a] # None =>
        /\ Cardinality(documents[a].signers) >= Threshold
        /\ \A b \in documents[a].signers : myconsensus[b] = documents[a].doc

IInv == /\ TypeOK
        /\ SentInPhase
        /\ HeldWasSent
        /\ CertificateHolds
        /\ ConsensusHolds
        /\ DocumentSigned

-----------------------------------------------------------------------------
(* Counting authorities. *)

(* Sets of authorities have natural cardinalities that grow with the set,  *)
(* as len() of the maps keyed by authority does.                           *)
LEMMA Count ==
    ASSUME NEW T \in SUBSET Authorities, NEW S \in SUBSET T
    PROVE  /\ Cardinality(S) \in Nat
           /\ Cardinality(T) \in Nat
           /\ Cardinality(S) <= Cardinality(T)
<1>1. IsFiniteSet(T)
  BY AuthoritiesAssumption, FS_Subset
<1>2. IsFiniteSet(S) /\ Cardinality(S) <= Cardinality(T)
  BY <1>1, FS_Subset
<1> QED
  BY <1>1, <1>2, FS_CardinalityType

(* newState's threshold is a majority. *)
LEMMA Majority ==
    /\ Threshold \in Nat
    /\ Threshold + Threshold > Cardinality(Authorities)
<1>1. Cardinality(Authorities) \in Nat
  BY Count
<1> QED
  BY <1>1 DEF Threshold

(* Two thresholds of authorities have one in common. *)
LEMMA QuorumsMeet ==
    ASSUME NEW P \in SUBSET Authorities, NEW Q \in SUBSET Authorities,
           Cardinality(P) >= Threshold, Cardinality(Q) >= Threshold
    PROVE  \E a \in Authorities : a \in P /\ a \in Q
<1>1. /\ Cardinality(P) \in Nat /\ Cardinality(Q) \in Nat
      /\ Cardinality(Authorities) \in Nat
  BY Count
<1>2. Cardinality(P) + Cardinality(Q) > Cardinality(Authorities)
  BY <1>1, Majority
<1>3. P \cap Q # {}
  BY <1>2, AuthoritiesAssumption, FS_MajoritiesIntersect
<1> QED
  BY <1>3

(* tallyVotes is monotone: with more votes no descriptor is lost. *)
LEMMA TallyMonotone ==
    ASSUME NEW W \in SUBSET Authorities, NEW V \in SUBSET W
    PROVE  TalliedMixes(V) \subseteq TalliedMixes(W)
<1> SUFFICES ASSUME NEW m \in TalliedMixes(V)
             PROVE  m \in TalliedMixes(W)
  OBVIOUS
<1> DEFINE S == {b \in V : m \in vote[b]}
           T == {b \in W : m \in vote[b]}
<1>1. m \in Mixes /\ Cardinality(S) >= Threshold
  BY DEF TalliedMixes
<1>2. Cardinality(S) \in Nat /\ Cardinality(T) \in Nat
      /\ Cardinality(S) <= Cardinality(T)
  <2>1. T \in SUBSET Authorities /\ S \in SUBSET T
    OBVIOUS
  <2> QED BY <2>1, Count
<1>3. Cardinality(T) >= Threshold
  <2> HIDE DEF S, T
  <2> QED BY <1>1, <1>2, Majority
<1> QED
  BY <1>1, <1>3 DEF TalliedMixes

(* A descriptor in a tally of votes that were cast is backed by a majority. *)
LEMMA TallyIsBacked ==
    ASSUME NEW V \in SUBSET Authorities, \A b \in V : vote[b] # None,
           NEW m \in TalliedMixes(V)
    PROVE  Cardinality(Backers(m)) >= Threshold
<1> DEFINE S == {b \in V : m \in vote[b]}
<1>1. Cardinality(S) >= Threshold
  BY DEF TalliedMixes
<1>2. Backers(m) \in SUBSET Authorities /\ S \in SUBSET Backers(m)
  BY DEF Backers
<1>3. Cardinality(S) \in Nat /\ Cardinality(Backers(m)) \in Nat
      /\ Cardinality(S) <= Cardinality(Backers(m))
  BY <1>2, Count
<1> QED
  <2> HIDE DEF S
  <2> QED BY <1>1, <1>3, Majority

-----------------------------------------------------------------------------
(* The inductive invariant. *)

(* The round starts in IInv: nothing has been sent (newState). *)
LEMMA InitIInv == Init => IInv
<1> SUFFICES ASSUME Init PROVE IInv
  OBVIOUS
<1> USE DEF Init
<1>1. TypeOK
  <2>1. up \in [Authorities -> BOOLEAN]
    OBVIOUS
  <2>2. prev \in [Authorities -> BOOLEAN]
    <3>1. \A a \in Authorities : (a \in HasPrev) \in BOOLEAN
      OBVIOUS
    <3> QED BY <3>1
  <2>3. genesis \in [Authorities -> BOOLEAN] /\ expired \in BOOLEAN
    BY Zenon
  <2> QED BY <2>1, <2>2, <2>3 DEF TypeOK, States
<1>2. SentInPhase /\ HeldWasSent
  BY DEF SentInPhase, HeldWasSent
<1>3. CertificateHolds /\ ConsensusHolds /\ DocumentSigned
  BY DEF CertificateHolds, ConsensusHolds, DocumentSigned
<1> QED
  BY <1>1, <1>2, <1>3 DEF IInv

(* Leave counts the commands that missed their phase. *)
LEMMA MissedType ==
    ASSUME missed \in Nat, NEW a, NEW s, NEW late \in SUBSET Authorities,
           Leave(a, s, late)
    PROVE  missed' \in Nat
<1>1. Cardinality(late \ {a}) \in Nat
  BY Count
<1> QED
  BY <1>1 DEF Leave

(* The deadline of accept_desc: the vote is cast once, so nobody holds it  *)
(* yet and the tallies of the others keep their value (getVote).           *)
LEMMA getVoteStep ==
    ASSUME IInv, NEW a \in Authorities, getVote(a)
    PROVE  IInv'
<1> USE DEF IInv
<1>1. st[a] = "accept_desc" /\ vote[a] = None
  BY DEF getVote, Active, SentInPhase
<1>2. PICK ds \in SUBSET Mixes : vote' = [vote EXCEPT ![a] = ds]
  BY Zenon DEF getVote
<1>3. \A b \in Authorities \ {a} : vote'[b] = vote[b] /\ st'[b] = st[b]
  BY <1>2 DEF getVote, Leave, TypeOK
<1>4. /\ vote'[a] = ds /\ vote'[a] # None /\ st'[a] = "accept_vote"
  BY <1>2, NoneAssumption DEF getVote, Leave, TypeOK
<1>5. \A b \in Authorities : Revealed(b) <=> Revealed(b)'
  BY <1>1, <1>3, <1>4 DEF Revealed
<1>6. TypeOK'
  <2>1. genesis' \in [Authorities -> BOOLEAN]
    BY DEF getVote, TypeOK
  <2>2. missed' \in Nat
    BY MissedType DEF getVote, TypeOK
  <2> QED BY <1>2, <2>1, <2>2 DEF getVote, Leave, TypeOK, States
<1>7. SentInPhase'
  BY <1>1, <1>3, <1>4 DEF SentInPhase, getVote, Leave, TypeOK, Done
<1>8. HeldWasSent'
  BY <1>3, <1>4, <1>5 DEF HeldWasSent, getVote, TypeOK
<1>9. CertificateHolds'
  <2> SUFFICES ASSUME NEW b \in Authorities, certificate[b] # None
               PROVE  /\ Cardinality(certificate[b].mixes) >= MinMixes
                      /\ up[b] => certificate[b].mixes \subseteq TalliedMixes(votes[b])'
                      /\ myconsensus[b] # None
                            => certificate[b].mixes \subseteq myconsensus[b].mixes
                      /\ \A c \in certificate[b].shared : Revealed(c)'
    BY Zenon DEF CertificateHolds, getVote
  <2>1. b # a
    BY <1>1 DEF SentInPhase, Done
  <2>2. votes'[b] = votes[b] /\ a \notin votes[b] /\ votes[b] \subseteq Authorities
    BY <2>1, <1>1 DEF getVote, TypeOK, HeldWasSent
  <2>3. TalliedMixes(votes[b])' = TalliedMixes(votes[b])
    <3>1. \A m \in Mixes : {c \in votes'[b] : m \in vote'[c]} = {c \in votes[b] : m \in vote[c]}
      BY <2>2, <1>3
    <3> QED BY Zenon, <3>1 DEF TalliedMixes
  <2>4. certificate[b].shared \subseteq Authorities
    BY DEF TypeOK, Certificate
  <2> QED BY <2>3, <2>4, <1>5 DEF CertificateHolds
<1>10. ConsensusHolds'
  <2>1. Certified' = Certified
    BY DEF Certified, getVote
  <2>2. \A m : Cardinality(Backers(m)) >= Threshold
                  => Cardinality(Backers(m)') >= Threshold
    <3> SUFFICES ASSUME NEW m, Cardinality(Backers(m)) >= Threshold
                 PROVE  Cardinality(Backers(m)') >= Threshold
      OBVIOUS
    <3>1. Backers(m)' \in SUBSET Authorities /\ Backers(m) \in SUBSET (Backers(m)')
      BY <1>1, <1>3 DEF Backers
    <3> HIDE DEF IInv
    <3> QED BY <3>1, Count, Majority
  <2>3. \A b \in Authorities : myconsensus[b] # None
                => myconsensus[b].reveals \subseteq Authorities
    BY DEF TypeOK, Document
  <2> QED BY <1>5, <2>1, <2>2, <2>3 DEF ConsensusHolds, getVote
<1>11. DocumentSigned'
  BY DEF DocumentSigned, getVote
<1> QED
  BY <1>6, <1>7, <1>8, <1>9, <1>10, <1>11

(* Sending the reveal changes only the phase (fsm, accept_vote). *)
LEMMA sendRevealStep ==
    ASSUME IInv, NEW a \in Authorities, sendReveal(a)
    PROVE  IInv'
<1> USE DEF IInv
<1>1. /\ st[a] = "accept_vote" /\ st' = [st EXCEPT ![a] = "accept_reveal"]
      /\ UNCHANGED <<up, documents, vote, certificate, myconsensus, votes,
                     reveals, certificates, signatures>>
  BY DEF sendReveal, Active, Leave
<1>2. \A b \in Authorities : Revealed(b) => Revealed(b)'
  BY <1>1 DEF Revealed, TypeOK
<1>3. TypeOK'
  <2>1. missed' \in Nat
    BY MissedType DEF sendReveal, TypeOK
  <2> QED BY <1>1, <2>1 DEF sendReveal, TypeOK, States
<1>4. SentInPhase'
  BY <1>1 DEF SentInPhase, TypeOK, Done
<1>5. HeldWasSent'
  BY <1>1, <1>2 DEF HeldWasSent, TypeOK
<1>6. CertificateHolds'
  BY <1>1, <1>2 DEF CertificateHolds, TalliedMixes, TypeOK, Certificate
<1>7. ConsensusHolds'
  <2>1. Certified' = Certified /\ \A m : Backers(m)' = Backers(m)
    BY <1>1 DEF Certified, Backers
  <2>2. \A b \in Authorities : myconsensus[b] # None
                => myconsensus[b].reveals \subseteq Authorities
    BY DEF TypeOK, Document
  <2> QED BY <1>1, <1>2, <2>1, <2>2 DEF ConsensusHolds
<1>8. DocumentSigned'
  BY <1>1 DEF DocumentSigned
<1> QED
  BY <1>3, <1>4, <1>5, <1>6, <1>7, <1>8

(* The certificate is made from the votes held now, each with its reveal,  *)
(* after the topology check (getCertificate).                              *)
LEMMA getCertificateStep ==
    ASSUME IInv, NEW a \in Authorities, getCertificate(a)
    PROVE  IInv'
<1> USE DEF IInv
<1> DEFINE new == [mixes |-> TalliedMixes(votes[a]), shared |-> votes[a]]
<1>1. /\ st[a] = "accept_reveal" /\ st' = [st EXCEPT ![a] = "accept_cert"]
      /\ UNCHANGED <<up, documents, vote, myconsensus, votes, reveals, signatures>>
  BY DEF getCertificate, Active, Leave
<1>2. certificate[a] = None /\ myconsensus[a] = None
  BY <1>1 DEF SentInPhase, Done
<1>3. \A b \in Authorities : Revealed(b) <=> Revealed(b)'
  BY <1>1 DEF Revealed, TypeOK
<1>4. new \in Certificate /\ new # None
  <2>1. TalliedMixes(votes[a]) \in SUBSET Mixes /\ votes[a] \in SUBSET Authorities
    BY DEF TalliedMixes, TypeOK
  <2>2. new \in Certificate
    BY <2>1 DEF Certificate
  <2> QED BY <2>2, NoneAssumption
<1>5. \/ UNCHANGED <<certificate, certificates>>
      \/ /\ CertificateWellFormed(a)
         /\ certificate' = [certificate EXCEPT ![a] = new]
         /\ certificates' = [certificates EXCEPT ![a] = @ \cup {a}]
  BY DEF getCertificate
<1>6. \A b \in Authorities \ {a} : certificate'[b] = certificate[b]
  BY <1>5 DEF TypeOK
<1>7. certificate'[a] # None => certificate'[a] = new /\ CertificateWellFormed(a)
  BY Zenon, <1>2, <1>5 DEF TypeOK
<1>8. TypeOK'
  <2>1. missed' \in Nat
    BY MissedType DEF getCertificate, TypeOK
  <2>2. st' \in [Authorities -> States]
    BY <1>1 DEF TypeOK, States
  <2>3. /\ certificate' \in [Authorities -> Certificate \cup {None}]
        /\ certificates' \in [Authorities -> SUBSET Authorities]
    <3> HIDE DEF new
    <3> QED BY <1>4, <1>5 DEF TypeOK
  <2> QED BY <2>1, <2>2, <2>3, Zenon DEF getCertificate, TypeOK
<1>9. SentInPhase'
  BY Zenon, <1>1, <1>2, <1>6 DEF SentInPhase, TypeOK, Done
<1>10. HeldWasSent'
  <2>1. \A b \in Authorities :
          /\ certificates'[b] \subseteq certificates[b] \cup {a}
          /\ a \in certificates'[b] => a \in certificates[b] \/ certificate'[a] = new
    <3> HIDE DEF new
    <3> QED BY <1>5 DEF TypeOK
  <2>2. \A b \in Authorities : \A c \in certificates'[b] : certificate'[c] # None
    <3> HIDE DEF new
    <3> QED BY <1>2, <1>4, <1>6, <2>1, ZenonT(30) DEF HeldWasSent, TypeOK
  <2>3. \A b \in Authorities :
          /\ \A c \in votes'[b] : vote'[c] # None
          /\ \A c \in reveals'[b] : Revealed(c)' \/ (c = b /\ vote'[b] # None)
    BY <1>1, <1>3, Zenon DEF HeldWasSent, TypeOK
  <2> QED BY <2>2, <2>3, Zenon DEF HeldWasSent
<1>11. CertificateHolds'
  <2> SUFFICES ASSUME NEW b \in Authorities, certificate'[b] # None
               PROVE  /\ Cardinality(certificate'[b].mixes) >= MinMixes
                      /\ up[b] => certificate'[b].mixes \subseteq TalliedMixes(votes[b])
                      /\ myconsensus[b] # None
                            => certificate'[b].mixes \subseteq myconsensus[b].mixes
                      /\ \A c \in certificate'[b].shared : Revealed(c)
    <3>1. \A b \in Authorities : TalliedMixes(votes[b])' = TalliedMixes(votes[b])
      BY <1>1 DEF TalliedMixes
    <3>2. \A b \in Authorities : certificate'[b] # None
                => certificate'[b].shared \subseteq Authorities
      BY <1>8 DEF TypeOK, Certificate
    <3> QED BY <1>1, <1>3, <3>1, <3>2, Zenon DEF CertificateHolds
  <2>1. CASE b = a
    <3>1. \A c \in votes[a] : Revealed(c)
      BY <1>1, <1>7, <2>1 DEF HeldWasSent, CertificateWellFormed, Revealed, TypeOK
    <3> QED BY <1>2, <1>7, <2>1, <3>1 DEF CertificateWellFormed
  <2>2. CASE b # a
    BY <1>6, <2>2 DEF CertificateHolds
  <2> QED BY <2>1, <2>2
<1>12. ConsensusHolds'
  <2>1. Certified \in SUBSET (Certified') /\ Certified' \in SUBSET Authorities
    BY <1>2, <1>6 DEF Certified
  <2>2. Cardinality(Certified) >= Threshold => Cardinality(Certified') >= Threshold
    <3> HIDE DEF IInv
    <3> QED BY <2>1, Count, Majority
  <2>3. \A m : Backers(m)' = Backers(m)
    BY <1>1 DEF Backers
  <2>4. \A b \in Authorities : myconsensus[b] # None
                => myconsensus[b].reveals \subseteq Authorities
    BY DEF TypeOK, Document
  <2> QED BY <1>1, <1>3, <2>2, <2>3, <2>4 DEF ConsensusHolds
<1>13. DocumentSigned'
  BY <1>1 DEF DocumentSigned
<1> QED
  BY <1>8, <1>9, <1>10, <1>11, <1>12, <1>13

(* verifyCommits accepts only authorities that have revealed, even from    *)
(* the certificate that aliases the live maps.                             *)
LEMMA VerifiedHaveRevealed ==
    ASSUME IInv, NEW a \in Authorities, st[a] = "accept_cert",
           NEW r \in VerifiedCommits(a)
    PROVE  r \in SUBSET Authorities /\ \A b \in r : Revealed(b)
<1> USE DEF IInv
<1> DEFINE peers == UNION {certificate[b].shared : b \in certificates[a] \ {a}}
<1>1. peers \in SUBSET Authorities /\ \A b \in peers : Revealed(b)
  <2>1. \A b \in certificates[a] :
          /\ certificate[b].shared \subseteq Authorities
          /\ \A c \in certificate[b].shared : Revealed(c)
    BY DEF TypeOK, HeldWasSent, Certificate, CertificateHolds
  <2> QED BY <2>1
<1>2. reveals[a] \in SUBSET Authorities /\ \A b \in reveals[a] : Revealed(b)
  BY DEF TypeOK, HeldWasSent, Revealed
<1>3. votes[a] \in SUBSET Authorities
  BY DEF TypeOK
<1>4. \/ r = peers
      \/ r = peers \cup votes[a] /\ votes[a] \subseteq reveals[a]
      \/ \E seen \in SUBSET reveals[a] : r = (peers \cup seen) \ {a}
  BY Zenon DEF VerifiedCommits
<1> QED
  <2> HIDE DEF peers, IInv
  <2> QED BY <1>1, <1>2, <1>3, <1>4

(* The consensus an authority signs (getMyConsensus). *)
LEMMA ConsensusComputed ==
    ASSUME IInv, NEW a \in Authorities, st[a] = "accept_cert",
           NEW d \in MyConsensus(a)
    PROVE  /\ d \in Document
           /\ d.mixes = TalliedMixes(votes[a])
           /\ Cardinality(certificates[a]) >= Threshold
           /\ Cardinality(d.reveals) >= Threshold
           /\ \A b \in d.reveals : Revealed(b)
<1>1. /\ ~(Cardinality(certificates[a]) < Threshold)
      /\ \E p \in TalliedParams(votes[a]),
            r \in {s \in VerifiedCommits(a) : Cardinality(s) >= Threshold} :
            d = [mixes |-> TalliedMixes(votes[a]), params |-> p, reveals |-> r,
                 prev |-> prev[a], genesis |-> genesis[a]]
  BY DEF MyConsensus
<1>2. PICK p \in TalliedParams(votes[a]), r \in VerifiedCommits(a) :
         /\ Cardinality(r) >= Threshold
         /\ d = [mixes |-> TalliedMixes(votes[a]), params |-> p, reveals |-> r,
                 prev |-> prev[a], genesis |-> genesis[a]]
  BY <1>1
<1>3. r \in SUBSET Authorities /\ \A b \in r : Revealed(b)
  BY VerifiedHaveRevealed
<1>4. Cardinality(certificates[a]) >= Threshold
  <2>1. certificates[a] \in SUBSET Authorities
    BY DEF IInv, TypeOK
  <2>2. Cardinality(certificates[a]) \in Nat
    BY <2>1, Count
  <2> QED BY <1>1, <2>2, Majority
<1>5. d \in Document
  <2>1. p \in ParamValues /\ TalliedMixes(votes[a]) \in SUBSET Mixes
    BY DEF TalliedParams, TalliedMixes
  <2>2. prev[a] \in BOOLEAN /\ genesis[a] \in BOOLEAN
    BY DEF IInv, TypeOK
  <2> QED BY <1>2, <1>3, <2>1, <2>2 DEF Document
<1> QED
  BY Zenon, <1>2, <1>3, <1>4, <1>5

(* The consensus is signed once, in the certificate phase, and keeps the   *)
(* descriptors of the own certificate (getMyConsensus).                    *)
LEMMA getMyConsensusStep ==
    ASSUME IInv, NEW a \in Authorities, getMyConsensus(a)
    PROVE  IInv'
<1> USE DEF IInv
<1>1. /\ st[a] = "accept_cert" /\ st' = [st EXCEPT ![a] = "accept_signature"]
      /\ up[a]
      /\ UNCHANGED <<up, documents, vote, certificate, votes, reveals,
                     certificates, signatures>>
  BY DEF getMyConsensus, Active, Leave
<1>2. myconsensus[a] = None
  BY <1>1 DEF SentInPhase, Done
<1>3. \A b \in Authorities : Revealed(b) <=> Revealed(b)'
  BY <1>1 DEF Revealed, TypeOK
<1>4. \/ UNCHANGED myconsensus
      \/ \E d \in MyConsensus(a) : myconsensus' = [myconsensus EXCEPT ![a] = d]
  BY DEF getMyConsensus
<1>5. \A b \in Authorities \ {a} : myconsensus'[b] = myconsensus[b]
  BY <1>4 DEF TypeOK
<1>6. myconsensus'[a] # None => myconsensus'[a] \in MyConsensus(a)
  BY Zenon, <1>2, <1>4 DEF TypeOK
<1>7. TypeOK'
  <2>1. missed' \in Nat
    BY MissedType DEF getMyConsensus, TypeOK
  <2>2. st' \in [Authorities -> States]
    BY Zenon, <1>1 DEF TypeOK, States
  <2>3. myconsensus' \in [Authorities -> Document \cup {None}]
    BY <1>1, <1>4, ConsensusComputed DEF TypeOK
  <2> QED BY <1>1, <2>1, <2>2, <2>3 DEF getMyConsensus, TypeOK
<1>8. SentInPhase'
  BY <1>1, <1>2, <1>5 DEF SentInPhase, TypeOK, Done
<1>9. HeldWasSent'
  BY <1>1, <1>3 DEF HeldWasSent, TypeOK
<1>10. CertificateHolds'
  <2>1. \A b \in Authorities : TalliedMixes(votes[b])' = TalliedMixes(votes[b])
    BY <1>1 DEF TalliedMixes
  <2>2. \A b \in Authorities : certificate[b] # None
              => certificate[b].shared \subseteq Authorities
    BY DEF TypeOK, Certificate
  <2>3. myconsensus'[a] # None => myconsensus'[a].mixes = TalliedMixes(votes[a])
    BY <1>1, <1>6, ConsensusComputed
  <2> QED BY Zenon, <1>1, <1>3, <1>5, <2>1, <2>2, <2>3 DEF CertificateHolds
<1>11. ConsensusHolds'
  <2>1. Certified' = Certified /\ \A m : Backers(m)' = Backers(m)
    BY <1>1 DEF Certified, Backers
  <2>2. \A b \in Authorities : myconsensus'[b] # None
                => myconsensus'[b].reveals \subseteq Authorities
    BY <1>7 DEF TypeOK, Document
  <2> SUFFICES ASSUME NEW b \in Authorities, myconsensus'[b] # None
               PROVE  /\ Cardinality(Certified) >= Threshold
                      /\ \A m \in myconsensus'[b].mixes :
                            Cardinality(Backers(m)) >= Threshold
                      /\ Cardinality(myconsensus'[b].reveals) >= Threshold
                      /\ \A c \in myconsensus'[b].reveals : Revealed(c)
    BY <1>3, <2>1, <2>2, Zenon DEF ConsensusHolds
  <2>3. CASE b = a
    <3>1. myconsensus'[a] \in MyConsensus(a)
      BY <1>6, <2>3
    <3>2. /\ myconsensus'[a].mixes = TalliedMixes(votes[a])
          /\ Cardinality(certificates[a]) >= Threshold
          /\ Cardinality(myconsensus'[a].reveals) >= Threshold
          /\ \A c \in myconsensus'[a].reveals : Revealed(c)
      BY <1>1, <3>1, ConsensusComputed
    <3>3. Cardinality(Certified) >= Threshold
      <4>1. Certified \in SUBSET Authorities /\ certificates[a] \in SUBSET Certified
        BY DEF Certified, TypeOK, HeldWasSent
      <4> HIDE DEF IInv
      <4> QED BY <3>2, <4>1, Count, Majority
    <3>4. \A m \in TalliedMixes(votes[a]) : Cardinality(Backers(m)) >= Threshold
      <4>1. votes[a] \in SUBSET Authorities /\ \A c \in votes[a] : vote[c] # None
        BY DEF TypeOK, HeldWasSent
      <4> HIDE DEF IInv
      <4> QED BY <4>1, TallyIsBacked
    <3> QED BY <2>3, <3>2, <3>3, <3>4
  <2>4. CASE b # a
    BY <1>5, <2>4 DEF ConsensusHolds
  <2> QED BY <2>3, <2>4
<1>12. DocumentSigned'
  <2>1. \A b \in Authorities : documents[b] # None
              => documents[b].signers \subseteq Authorities /\ documents[b].doc # None
    BY NoneAssumption DEF TypeOK, Signed
  <2> QED BY <1>1, <1>2, <1>5, <2>1 DEF DocumentSigned
<1> QED
  BY <1>7, <1>8, <1>9, <1>10, <1>11, <1>12

(* What IInv says of the messages is kept by every step that changes no    *)
(* vote, vote set, certificate or consensus, crashes at most and takes     *)
(* back no reveal.                                                         *)
LEMMA MessagesKept ==
    ASSUME IInv,
           UNCHANGED <<vote, certificate, myconsensus>>,
           \A a \in Authorities : Revealed(a) => Revealed(a)',
           \A a \in Authorities : up'[a] => up[a] /\ votes[a] \subseteq votes'[a],
           TypeOK'
    PROVE  CertificateHolds' /\ ConsensusHolds'
<1> USE DEF IInv
<1>1. CertificateHolds'
  <2>1. \A a \in Authorities : up'[a]
             => TalliedMixes(votes[a]) \subseteq TalliedMixes(votes[a])'
    <3> SUFFICES ASSUME NEW a \in Authorities, up'[a]
                 PROVE  TalliedMixes(votes[a]) \subseteq TalliedMixes(votes[a])'
      BY Zenon
    <3>1. votes'[a] \in SUBSET Authorities /\ votes[a] \in SUBSET votes'[a]
      BY Zenon DEF TypeOK
    <3>2. TalliedMixes(votes[a])' = TalliedMixes(votes'[a])
      BY Zenon DEF TalliedMixes
    <3> HIDE DEF IInv
    <3> QED BY <3>1, <3>2, TallyMonotone
  <2>2. \A a \in Authorities : certificate[a] # None
              => certificate[a].shared \subseteq Authorities
    BY Zenon DEF TypeOK, Certificate
  <2> QED BY <2>1, <2>2 DEF CertificateHolds
<1>2. ConsensusHolds'
  <2>1. Certified' = Certified /\ \A m : Backers(m)' = Backers(m)
    BY Zenon DEF Certified, Backers
  <2>2. \A b \in Authorities : myconsensus[b] # None
                => myconsensus[b].reveals \subseteq Authorities
    BY DEF TypeOK, Document
  <2> QED BY <2>1, <2>2 DEF ConsensusHolds
<1> QED
  BY <1>1, <1>2

(* A document is published with the signatures that verify over the own    *)
(* view, and only with a threshold of them (getThresholdConsensus).        *)
LEMMA getThresholdConsensusStep ==
    ASSUME IInv, NEW a \in Authorities, getThresholdConsensus(a)
    PROVE  IInv'
<1> USE DEF IInv
<1> DEFINE late == {b \in Authorities : myconsensus[b] # None} \ signatures[a]
           new == [doc |-> myconsensus[a], signers |-> Signers(a)]
<1>1. /\ st[a] = "accept_signature"
      /\ UNCHANGED <<up, vote, certificate, myconsensus, votes, reveals,
                     certificates, signatures>>
  BY Zenon DEF getThresholdConsensus, Active
<1>2. PICK s \in {"next_round", "bootstrap"} : Leave(a, s, late)
  BY DEF getThresholdConsensus
<1>3. st' = [st EXCEPT ![a] = s]
  BY <1>2 DEF Leave
<1>4. \A b \in Authorities : Revealed(b) <=> Revealed(b)'
  BY Zenon, <1>1, <1>3 DEF Revealed, TypeOK
<1>5. \/ UNCHANGED documents
      \/ /\ myconsensus[a] # None /\ Cardinality(Signers(a)) >= Threshold
         /\ documents' = [documents EXCEPT ![a] = new]
  BY DEF getThresholdConsensus
<1>6. Signers(a) \in SUBSET Authorities
      /\ \A b \in Signers(a) : myconsensus[b] = myconsensus[a]
  BY Zenon DEF Signers, TypeOK
<1>7. TypeOK'
  <2>1. missed' \in Nat
    BY <1>2, MissedType DEF TypeOK
  <2>2. st' \in [Authorities -> States]
    BY Zenon, <1>3 DEF TypeOK, States
  <2>3. documents' \in [Authorities -> Signed \cup {None}]
    <3>1. myconsensus[a] # None => new \in Signed
      BY <1>6 DEF TypeOK, Signed
    <3> QED BY Zenon, <1>5, <3>1 DEF TypeOK
  <2> QED BY <1>1, <2>1, <2>2, <2>3 DEF getThresholdConsensus, TypeOK
<1>8. SentInPhase'
  BY Zenon, <1>1, <1>3, <1>5 DEF SentInPhase, TypeOK, Done
<1>9. HeldWasSent'
  BY <1>1, <1>4 DEF HeldWasSent, TypeOK
<1>10. CertificateHolds' /\ ConsensusHolds'
  BY Zenon, <1>1, <1>4, <1>7, MessagesKept
<1>11. DocumentSigned'
  <2>1. CASE UNCHANGED documents
    BY <1>1, <2>1 DEF DocumentSigned
  <2>2. CASE /\ Cardinality(Signers(a)) >= Threshold
             /\ documents' = [documents EXCEPT ![a] = new]
    <3>1. documents'[a] = new
          /\ \A b \in Authorities \ {a} : documents'[b] = documents[b]
      BY Zenon, <2>2 DEF TypeOK
    <3> QED BY <1>1, <1>6, <2>2, <3>1 DEF DocumentSigned
  <2> QED BY <1>5, <2>1, <2>2
<1> QED
  BY <1>7, <1>8, <1>9, <1>10, <1>11

(* A step that only lets an authority hold more of what was sent. *)
LEMMA HoldingMore ==
    ASSUME IInv,
           UNCHANGED <<st, up, documents, prev, genesis, vote, certificate,
                       myconsensus, expired, missed>>,
           votes' \in [Authorities -> SUBSET Authorities],
           reveals' \in [Authorities -> SUBSET Authorities],
           certificates' \in [Authorities -> SUBSET Authorities],
           signatures' \in [Authorities -> SUBSET Authorities],
           \A c \in Authorities : votes[c] \subseteq votes'[c],
           HeldWasSent'
    PROVE  IInv'
<1>1. TypeOK'
  BY DEF IInv, TypeOK
<1>2. SentInPhase'
  BY DEF IInv, SentInPhase
<1>3. CertificateHolds' /\ ConsensusHolds'
  <2>1. \A c \in Authorities : Revealed(c) <=> Revealed(c)'
    BY DEF Revealed
  <2> QED BY <1>1, <2>1, MessagesKept
<1>4. DocumentSigned'
  BY DEF IInv, DocumentSigned
<1> QED
  BY <1>1, <1>2, <1>3, <1>4 DEF IInv

(* Each upload handler stores what its sender has sent. *)
LEMMA uploadStep ==
    ASSUME IInv, NEW a \in Authorities, NEW b \in Authorities, upload(b, a)
    PROVE  IInv'
<1>1. /\ votes \in [Authorities -> SUBSET Authorities]
      /\ reveals \in [Authorities -> SUBSET Authorities]
      /\ certificates \in [Authorities -> SUBSET Authorities]
      /\ signatures \in [Authorities -> SUBSET Authorities]
      /\ HeldWasSent
  BY DEF IInv, TypeOK
<1>2. CASE onVoteUpload(b, a)
  <2>1. /\ votes' = [votes EXCEPT ![b] = votes[b] \cup {a}] /\ vote[a] # None
        /\ UNCHANGED <<st, up, documents, prev, genesis, vote, certificate,
                 myconsensus, reveals, certificates, signatures, expired, missed>>
    BY <1>2 DEF onVoteUpload
  <2>2. HeldWasSent'
    BY <1>1, <2>1 DEF HeldWasSent, Revealed
  <2> QED BY <1>1, <2>1, <2>2, HoldingMore
<1>3. CASE onRevealUpload(b, a)
  <2>1. /\ reveals' = [reveals EXCEPT ![b] = reveals[b] \cup {a}] /\ Revealed(a)
        /\ UNCHANGED <<st, up, documents, prev, genesis, vote, certificate,
                 myconsensus, votes, certificates, signatures, expired, missed>>
    BY <1>3 DEF onRevealUpload
  <2>2. HeldWasSent'
    BY <1>1, <2>1 DEF HeldWasSent, Revealed
  <2> QED BY <1>1, <2>1, <2>2, HoldingMore
<1>4. CASE onCertUpload(b, a)
  <2>1. /\ certificates' = [certificates EXCEPT ![b] = certificates[b] \cup {a}]
        /\ certificate[a] # None
        /\ UNCHANGED <<st, up, documents, prev, genesis, vote, certificate,
                       myconsensus, votes, reveals, signatures, expired, missed>>
    BY <1>4 DEF onCertUpload
  <2>2. HeldWasSent'
    BY <1>1, <2>1 DEF HeldWasSent, Revealed
  <2> QED BY Zenon, <1>1, <2>1, <2>2, HoldingMore
<1>5. CASE onSigUpload(b, a)
  <2>1. /\ signatures' = [signatures EXCEPT ![b] = signatures[b] \cup {a}]
        /\ UNCHANGED <<st, up, documents, prev, genesis, vote, certificate,
                       myconsensus, votes, reveals, certificates, expired, missed>>
    BY <1>5 DEF onSigUpload
  <2>2. HeldWasSent'
    BY <1>1, <2>1 DEF HeldWasSent, Revealed
  <2> QED BY <1>1, <2>1, <2>2, HoldingMore
<1> QED
  BY <1>2, <1>3, <1>4, <1>5 DEF upload

(* A crash forgets what was held, never what was sent. *)
LEMMA CrashStep ==
    ASSUME IInv, NEW a \in Authorities, Crash(a)
    PROVE  IInv'
<1> USE DEF IInv, Crash
<1>1. TypeOK'
  <2>1. up' \in [Authorities -> BOOLEAN]
    BY Zenon DEF TypeOK
  <2> QED BY <2>1 DEF TypeOK
<1>2. SentInPhase'
  <2>1. /\ UNCHANGED <<st, documents, vote, certificate, myconsensus>>
        /\ \A c \in Authorities : up'[c] => up[c]
    BY Zenon DEF TypeOK
  <2> HIDE DEF Crash
  <2> QED BY <2>1, Zenon DEF SentInPhase
<1>3. HeldWasSent'
  BY DEF HeldWasSent, TypeOK, Revealed
<1>4. CertificateHolds' /\ ConsensusHolds'
  <2>1. \A c \in Authorities : Revealed(c) <=> Revealed(c)'
    BY Zenon DEF Revealed
  <2>2. \A c \in Authorities : up'[c] => up[c] /\ votes[c] \subseteq votes'[c]
    BY Zenon DEF TypeOK
  <2> QED BY <1>1, <2>1, <2>2, MessagesKept
<1>5. DocumentSigned'
  BY DEF DocumentSigned
<1> QED
  BY <1>1, <1>2, <1>3, <1>4, <1>5, Zenon

(* The background fetches and the epoch clock send nothing; a fetched      *)
(* document is one that an authority published (backgroundFetchConsensus). *)
LEMMA EnvironmentStep ==
    ASSUME IInv,
           \/ \E a \in Authorities : fetchPrevious(a) \/ fetchConsensus(a)
           \/ EpochBegins
           \/ UNCHANGED vars
    PROVE  IInv'
<1> USE DEF IInv, fetchPrevious, fetchConsensus, EpochBegins, vars
<1>1. UNCHANGED <<st, up, genesis, vote, certificate, myconsensus, votes,
                  reveals, certificates, signatures, missed>>
  BY Zenon
<1>2. \A a \in Authorities : documents'[a] = documents[a]
         \/ \E b \in Authorities : documents[b] # None /\ documents'[a] = documents[b]
  BY Zenon DEF TypeOK
<1>3. TypeOK'
  <2>1. documents' \in [Authorities -> Signed \cup {None}]
    BY DEF TypeOK
  <2>2. prev' \in [Authorities -> BOOLEAN]
    BY Zenon DEF TypeOK
  <2>3. expired' \in BOOLEAN
    BY Zenon DEF TypeOK
  <2> QED BY Zenon, <1>1, <2>1, <2>2, <2>3 DEF TypeOK
<1>4. SentInPhase' /\ HeldWasSent'
  <2>1. \A a \in Authorities : documents'[a] # None
             => documents[a] # None \/ (up[a] => st[a] = "bootstrap")
    BY DEF TypeOK
  <2> HIDE DEF fetchPrevious, fetchConsensus, EpochBegins, vars
  <2>2. SentInPhase'
    BY Zenon, <1>1, <2>1 DEF SentInPhase
  <2>3. HeldWasSent'
    BY Zenon, <1>1 DEF HeldWasSent, Revealed
  <2> QED BY Zenon, <2>2, <2>3
<1>5. CertificateHolds' /\ ConsensusHolds'
  <2>1. \A c \in Authorities : Revealed(c) <=> Revealed(c)'
    BY Zenon, <1>1 DEF Revealed
  <2> QED BY Zenon, <1>1, <1>3, <2>1, MessagesKept
<1>6. DocumentSigned'
  BY <1>1, <1>2 DEF DocumentSigned
<1> QED
  BY <1>3, <1>4, <1>5, <1>6

(* IInv is inductive: every FSM step, upload, crash and fetch keeps it. *)
LEMMA NextIInv == IInv /\ [Next]_vars => IInv'
<1> SUFFICES ASSUME IInv, [Next]_vars PROVE IInv'
  OBVIOUS
<1>1. CASE \E a \in Authorities : fsm(a)
  BY <1>1, getVoteStep, sendRevealStep, getCertificateStep,
     getMyConsensusStep, getThresholdConsensusStep DEF fsm
<1>2. CASE \E a, b \in Authorities : upload(b, a)
  BY <1>2, uploadStep
<1>3. CASE \E a \in Authorities : Crash(a)
  BY <1>3, CrashStep
<1>4. CASE \/ \E a \in Authorities : fetchPrevious(a) \/ fetchConsensus(a)
           \/ EpochBegins
           \/ UNCHANGED vars
  BY <1>4, EnvironmentStep
<1> QED
  BY <1>1, <1>2, <1>3, <1>4 DEF Next

(* IInv holds in every state of a round. *)
THEOREM Invariance == Spec => []IInv
  BY InitIInv, NextIInv, PTL DEF Spec

(* Every variable keeps its type: in particular what is published is       *)
(* always a document with its signers (persistDocument).                   *)
THEOREM TypeCorrect == Spec => []TypeOK
<1>1. IInv => TypeOK
  BY DEF IInv
<1> QED
  BY <1>1, Invariance, PTL

(* Two published documents have a signer in common, who signed one view.   *)
LEMMA IInvAgreement == IInv => Agreement
<1> SUFFICES ASSUME IInv, NEW a \in Authorities, NEW b \in Authorities,
                    documents[a] # None, documents[b] # None
             PROVE  documents[a].doc = documents[b].doc
  BY DEF Agreement
<1>1. /\ documents[a].signers \in SUBSET Authorities
      /\ documents[b].signers \in SUBSET Authorities
  BY DEF IInv, TypeOK, Signed
<1>2. PICK c \in Authorities :
          c \in documents[a].signers /\ c \in documents[b].signers
  BY Zenon, <1>1, QuorumsMeet DEF IInv, DocumentSigned
<1> QED
  BY <1>2 DEF IInv, DocumentSigned

(* No two authorities publish or adopt different documents for an epoch,   *)
(* for any number of authorities, crashes and late or lost commands        *)
(* (getThresholdConsensus, backgroundFetchConsensus).                      *)
THEOREM AgreementHolds == Spec => []Agreement
  BY IInvAgreement, Invariance, PTL

(* Every published document has a signer, and its signers signed it. *)
LEMMA SomeSigner ==
    ASSUME IInv, NEW a \in Authorities, documents[a] # None
    PROVE  \E c \in Authorities : myconsensus[c] # None
                                  /\ myconsensus[c] = documents[a].doc
<1>1. documents[a].signers \in SUBSET Authorities /\ documents[a].doc # None
  BY NoneAssumption DEF IInv, TypeOK, Signed
<1>2. PICK c \in Authorities : c \in documents[a].signers
  BY <1>1, QuorumsMeet DEF IInv, DocumentSigned
<1> QED
  BY Zenon, <1>1, <1>2 DEF IInv, DocumentSigned

(* A published document lists only descriptors that a majority voted for,  *)
(* and its shared random value is that of a majority of authorities which  *)
(* all revealed (tallyVotes, verifyCommits).                               *)
THEOREM BackedHolds == Spec => []PublishedIsBacked
<1>1. IInv => PublishedIsBacked
  <2> SUFFICES ASSUME IInv, NEW a \in Authorities, documents[a] # None
               PROVE  LET d == documents[a].doc IN
                      /\ \A m \in d.mixes : Cardinality(Backers(m)) >= Threshold
                      /\ Cardinality(d.reveals) >= Threshold
                      /\ \A b \in d.reveals : Revealed(b)
    BY DEF PublishedIsBacked, Backers
  <2>1. PICK c \in Authorities : myconsensus[c] # None
                                 /\ myconsensus[c] = documents[a].doc
    BY SomeSigner
  <2> QED BY <2>1 DEF IInv, ConsensusHolds
<1> QED
  BY <1>1, Invariance, PTL

(* A published document fills the topology although getMyConsensus does    *)
(* not check it: a majority made certificates, which getCertificate did    *)
(* check, so one of the signers did.                                       *)
THEOREM WellFormedHolds == Spec => []PublishedIsWellFormed
<1>1. IInv => PublishedIsWellFormed
  <2> SUFFICES ASSUME IInv, NEW a \in Authorities, documents[a] # None
               PROVE  Cardinality(documents[a].doc.mixes) >= MinMixes
    BY DEF PublishedIsWellFormed
  <2>1. /\ documents[a].signers \in SUBSET Authorities
        /\ documents[a].doc.mixes \in SUBSET Mixes
        /\ documents[a].doc # None
    <3>1. documents[a] \in Signed
      BY DEF IInv, TypeOK
    <3>2. documents[a].doc \in Document
      BY <3>1 DEF Signed
    <3> QED BY <3>1, <3>2, NoneAssumption DEF Signed, Document
  <2>2. Cardinality(Certified) >= Threshold /\ Certified \in SUBSET Authorities
    BY SomeSigner DEF IInv, ConsensusHolds, Certified
  <2>3. PICK c \in Authorities : c \in documents[a].signers /\ c \in Certified
    BY <2>1, <2>2, QuorumsMeet DEF IInv, DocumentSigned
  <2>4. certificate[c] # None /\ myconsensus[c] = documents[a].doc
    BY <2>3 DEF IInv, DocumentSigned, Certified
  <2>5. /\ certificate[c].mixes \in SUBSET documents[a].doc.mixes
        /\ Cardinality(certificate[c].mixes) >= MinMixes
    BY <2>1, <2>4 DEF IInv, CertificateHolds
  <2>6. IsFiniteSet(documents[a].doc.mixes)
    BY <2>1, MixesAssumption, FS_Subset
  <2>7. /\ IsFiniteSet(certificate[c].mixes)
        /\ Cardinality(certificate[c].mixes) <= Cardinality(documents[a].doc.mixes)
    BY <2>5, <2>6, FS_Subset
  <2>8. /\ Cardinality(certificate[c].mixes) \in Nat
        /\ Cardinality(documents[a].doc.mixes) \in Nat
    BY <2>6, <2>7, FS_CardinalityType
  <2> QED BY <2>5, <2>7, <2>8, MixesAssumption
<1> QED
  BY <1>1, Invariance, PTL

(* Only a document that was not there yet appears at one authority. *)
LEMMA OnePublishes ==
    ASSUME IInv, [Next]_vars
    PROVE  \/ UNCHANGED documents
           \/ \E a \in Authorities : \E d \in Signed :
                 documents[a] = None /\ documents' = [documents EXCEPT ![a] = d]
<1>1. CASE \E a \in Authorities : getThresholdConsensus(a)
  <2>1. PICK a \in Authorities : getThresholdConsensus(a)
    BY Zenon, <1>1
  <2>2. documents[a] = None
    BY Zenon, <2>1 DEF getThresholdConsensus, Active, IInv, SentInPhase
  <2> DEFINE new == [doc |-> myconsensus[a], signers |-> Signers(a)]
  <2>3. \/ UNCHANGED documents
        \/ myconsensus[a] # None /\ documents' = [documents EXCEPT ![a] = new]
    BY <2>1 DEF getThresholdConsensus
  <2>4. myconsensus[a] # None => new \in Signed
    BY DEF IInv, TypeOK, Signed, Signers
  <2> QED BY <2>2, <2>3, <2>4
<1>2. CASE \E a \in Authorities : fetchConsensus(a)
  BY Zenon, <1>2 DEF fetchConsensus, IInv, TypeOK
<1>3. CASE \/ \E a \in Authorities : \/ getVote(a) \/ sendReveal(a)
                                     \/ getCertificate(a) \/ getMyConsensus(a)
                                     \/ Crash(a) \/ fetchPrevious(a)
           \/ \E a, b \in Authorities : upload(b, a)
           \/ EpochBegins \/ UNCHANGED vars
  BY Zenon, <1>3 DEF getVote, sendReveal, getCertificate, getMyConsensus, Crash,
              fetchPrevious, upload, onVoteUpload, onRevealUpload,
              onCertUpload, onSigUpload, EpochBegins, vars
<1> QED
  BY <1>1, <1>2, <1>3 DEF Next, fsm

(* The round implements AgreedDocument: the published documents appear one *)
(* after the other, never change and are all the same.                     *)
THEOREM Refinement == Spec => ImplementsAgreedDocument
<1>1. Init => Abstract!Init
  BY DEF Init, Abstract!Init, PublishedDoc
<1>2. IInv /\ IInv' /\ [Next]_vars => [Abstract!Next]_PublishedDoc
  <2> SUFFICES ASSUME IInv, IInv', [Next]_vars
               PROVE  Abstract!Next \/ UNCHANGED PublishedDoc
    OBVIOUS
  <2>1. CASE UNCHANGED documents
    BY Zenon, <2>1 DEF PublishedDoc
  <2>2. ASSUME NEW a \in Authorities, NEW d \in Signed, documents[a] = None,
               documents' = [documents EXCEPT ![a] = d]
        PROVE  Abstract!Publish(a)
    <3>1. documents'[a] = d /\ d # None
          /\ \A b \in Authorities \ {a} : documents'[b] = documents[b]
      BY <2>2, NoneAssumption DEF IInv, TypeOK
    <3>2. PublishedDoc[a] = None /\ PublishedDoc'[a] = d.doc /\ d.doc \in Document
      BY <2>2, <3>1 DEF PublishedDoc, Signed
    <3>3. \A b \in Authorities : PublishedDoc[b] \in {None, d.doc}
      <4>1. Agreement'
        <5>1. (IInv => Agreement)'
          BY IInvAgreement, PTL
        <5> QED BY <5>1
      <4> QED BY <2>2, <3>1, <4>1 DEF Agreement, PublishedDoc
    <3>4. PublishedDoc' = [PublishedDoc EXCEPT ![a] = d.doc]
      BY Zenon, <3>1 DEF PublishedDoc
    <3> QED BY Zenon, <3>2, <3>3, <3>4 DEF Abstract!Publish
  <2> QED BY <2>1, <2>2, OnePublishes DEF Abstract!Next
<1> QED
  BY <1>1, <1>2, Invariance, PTL DEF Spec, ImplementsAgreedDocument, Abstract!Spec
=============================================================================
