------------------------------- MODULE Voting -------------------------------
(***************************************************************************)
(* One voting round of the directory authorities: the round in which they  *)
(* agree on the PKI document of one epoch (authority/voting/server).       *)
(*                                                                         *)
(* Every authority runs the FSM of state.fsm(): it votes, reveals, sends a *)
(* certificate, signs its view of the consensus and finally looks for a    *)
(* threshold of signatures.  Each FSM step and each upload handler runs    *)
(* under the state lock, so each is one action.  The commands between      *)
(* authorities are sent once, without retry: a command that was sent can   *)
(* be handled at any later time or never, in any order.  A crash loses the *)
(* memory of an authority; it cannot rejoin the round, because the         *)
(* bootstrap step refuses to vote after MixPublishDeadline.                *)
(***************************************************************************)
EXTENDS Integers, FiniteSets

CONSTANTS
    Authorities,    \* the configured directory authorities
    Mixes,          \* the mix descriptors that may be uploaded this epoch
    MinMixes,       \* fewest descriptors that fill every layer and a provider
    ParamValues,    \* the possible network parameters
    Params,         \* the parameters each authority is configured with
    HasPrev,        \* the authorities that start with the previous document
    MaxSkew,        \* bound: how many phases one FSM may be ahead of another
    MaxCrash,       \* bound: how many authorities crash during the round
    MaxMissed,      \* bound: how many commands miss their phase at a receiver
    None            \* the absence of a document

(* Fault: half of the authorities instead of a majority. *)
Half == Cardinality(Authorities) \div 2

(* newState: threshold = len(verifiers)/2 + 1. *)
Threshold == (Cardinality(Authorities) \div 2) + 1

(* What a vote or consensus document is told apart by.  "reveals" stands   *)
(* for the shared random value, a hash of the revealed values; "prev" says *)
(* whether the previous SRV went into that hash, "genesis" whether the     *)
(* document names this epoch as the genesis epoch.                         *)
Document == [mixes : SUBSET Mixes, params : ParamValues,
             reveals : SUBSET Authorities, prev : BOOLEAN, genesis : BOOLEAN]

(* A certificate: the tally of its author and the authorities whose commit *)
(* and reveal it carries.                                                  *)
Certificate == [mixes : SUBSET Mixes, shared : SUBSET Authorities]

Signed == [doc : Document, signers : SUBSET Authorities]

ASSUME AuthoritiesAssumption == IsFiniteSet(Authorities)
ASSUME MixesAssumption == IsFiniteSet(Mixes) /\ MinMixes \in Nat
ASSUME ParamsAssumption == Params \in [Authorities -> ParamValues]
ASSUME HasPrevAssumption == HasPrev \subseteq Authorities
ASSUME BoundsAssumption == {MaxSkew, MaxCrash, MaxMissed} \subseteq Nat
ASSUME NoneAssumption == /\ \A ds \in SUBSET Mixes : ds # None
                         /\ None \notin Document
                         /\ None \notin Certificate
                         /\ None \notin Signed

VARIABLES
    st,             \* st[a]: the FSM state of a
    up,             \* up[a]: a has not crashed in this round
    documents,      \* documents[a]: a's published consensus for the epoch
    prev,           \* prev[a]: a holds the document of the previous epoch
    genesis,        \* genesis[a]: a took this epoch as the genesis epoch
    vote,           \* vote[a]: the descriptors in the vote a signed and sent
    certificate,    \* certificate[a]: the certificate a signed and sent
    myconsensus,    \* myconsensus[a]: the consensus a signed
    votes,          \* votes[a]: the authorities whose vote and commit a holds
    reveals,        \* reveals[a]: the authorities whose reveal a holds
    certificates,   \* certificates[a]: ... whose certificate a holds
    signatures,     \* signatures[a]: ... whose signature a holds
    expired,        \* the epoch being voted on has begun
    missed          \* how many commands missed their phase (for MaxMissed)

vars == <<st, up, documents, prev, genesis, vote, certificate, myconsensus,
          votes, reveals, certificates, signatures, expired, missed>>

States == {"accept_desc", "accept_vote", "accept_reveal", "accept_cert",
           "accept_signature", "next_round", "bootstrap"}

(* The states in which votingEpoch is still the epoch of this round. *)
InRound == States \ {"next_round", "bootstrap"}

(* How far the FSM of a is in the round. *)
Phase(a) == CASE st[a] = "accept_desc" -> 0 [] st[a] = "accept_vote" -> 1
              [] st[a] = "accept_reveal" -> 2 [] st[a] = "accept_cert" -> 3
              [] st[a] = "accept_signature" -> 4 [] OTHER -> 5

(* a has sent its reveal. *)
Revealed(a) == /\ vote[a] # None
               /\ st[a] \notin {"accept_desc", "accept_vote"}

TypeOK ==
    /\ st \in [Authorities -> States]
    /\ up \in [Authorities -> BOOLEAN]
    /\ documents \in [Authorities -> Signed \cup {None}]
    /\ prev \in [Authorities -> BOOLEAN]
    /\ genesis \in [Authorities -> BOOLEAN]
    /\ vote \in [Authorities -> {None} \cup SUBSET Mixes]
    /\ certificate \in [Authorities -> Certificate \cup {None}]
    /\ myconsensus \in [Authorities -> Document \cup {None}]
    /\ votes \in [Authorities -> SUBSET Authorities]
    /\ reveals \in [Authorities -> SUBSET Authorities]
    /\ certificates \in [Authorities -> SUBSET Authorities]
    /\ signatures \in [Authorities -> SUBSET Authorities]
    /\ expired \in BOOLEAN
    /\ missed \in Nat

Init ==
    /\ st = [a \in Authorities |-> "accept_desc"]
    /\ up = [a \in Authorities |-> TRUE]
    /\ documents = [a \in Authorities |-> None]
    /\ prev = [a \in Authorities |-> a \in HasPrev]
    /\ genesis = [a \in Authorities |-> FALSE]
    /\ vote = [a \in Authorities |-> None]
    /\ certificate = [a \in Authorities |-> None]
    /\ myconsensus = [a \in Authorities |-> None]
    /\ votes = [a \in Authorities |-> {}]
    /\ reveals = [a \in Authorities |-> {}]
    /\ certificates = [a \in Authorities |-> {}]
    /\ signatures = [a \in Authorities |-> {}]
    /\ expired = FALSE
    /\ missed = 0

-----------------------------------------------------------------------------
(* The tally: tallyVotes and verifyCommits. *)

(* Fault: the tally takes every descriptor of every vote. *)
AnyMixes(V) == {m \in Mixes : \E b \in V : m \in vote[b]}

(* The descriptors that a threshold of the votes in V contain. *)
TalliedMixes(V) ==
    {m \in Mixes : Cardinality({b \in V : m \in vote[b]}) >= Threshold}

(* The parameters that a threshold of the votes in V carry. *)
TalliedParams(V) ==
    {p \in ParamValues : Cardinality({b \in V : Params[b] = p}) >= Threshold}

(* tallyVotes returns no error. *)
TallyOK(V) == Cardinality(V) >= Threshold /\ TalliedParams(V) # {}

(* The authorities whose commit and reveal verifyCommits may accept at a.  *)
(* The certificate that a keeps of its own aliases the live maps of        *)
(* commits and reveals, so it has grown if votes or reveals arrived late;  *)
(* a commit without a reveal in it makes a a bad node, and the entries     *)
(* visited before it, in Go's random map order, still count.               *)
VerifiedCommits(a) ==
    LET peers == UNION {certificate[b].shared : b \in certificates[a] \ {a}}
    IN  IF a \notin certificates[a] THEN {peers}
        ELSE IF votes[a] \subseteq reveals[a] THEN {peers \cup votes[a]}
        ELSE {(peers \cup seen) \ {a} : seen \in SUBSET reveals[a]}

(* The consensus documents getMyConsensus may compute at a; none when one  *)
(* of its checks fails.  After the epoch begins the commits have expired   *)
(* and every certificate fails verifyCommits.                              *)
MyConsensus(a) ==
    IF \/ Cardinality(certificates[a]) < Threshold
       \/ expired
       \/ ~TallyOK(votes[a])
    THEN {}
    ELSE {[mixes |-> TalliedMixes(votes[a]), params |-> p, reveals |-> r,
           prev |-> prev[a], genesis |-> genesis[a]] :
              p \in TalliedParams(votes[a]),
              r \in {s \in VerifiedCommits(a) : Cardinality(s) >= Threshold}}

-----------------------------------------------------------------------------
(* The FSM steps. *)

(* a is in state s and its timer has fired.  All FSMs wait for the same     *)
(* deadlines of the epoch clock, so no FSM is more than MaxSkew phases     *)
(* ahead of another one.                                                   *)
Active(a, s) ==
    /\ up[a]
    /\ st[a] = s
    /\ \A b \in Authorities : up[b] => Phase(a) < Phase(b) + MaxSkew

(* a moves to state s, without the commands of the phase from the peers in  *)
(* "late", which may still arrive.                                         *)
Leave(a, s, late) ==
    /\ st' = [st EXCEPT ![a] = s]
    /\ missed' = missed + Cardinality(late \ {a})
    /\ missed' <= MaxMissed

(* Fault: the own vote is sent but not saved. *)
getVoteUnsaved(a) ==
    /\ Active(a, "accept_desc")
    /\ \E ds \in SUBSET Mixes : vote' = [vote EXCEPT ![a] = ds]
    /\ genesis' = [genesis EXCEPT ![a] = ~prev[a]]
    /\ Leave(a, "accept_vote", {})
    /\ UNCHANGED <<up, documents, prev, certificate, myconsensus, votes,
                   reveals, certificates, signatures, expired>>

(* accept_desc -> accept_vote: getVote, with whatever descriptors were     *)
(* uploaded; doCommit stores the commit and the reveal of a itself.        *)
getVote(a) ==
    /\ Active(a, "accept_desc")
    /\ \E ds \in SUBSET Mixes : vote' = [vote EXCEPT ![a] = ds]
    /\ genesis' = [genesis EXCEPT ![a] = ~prev[a]]
    /\ votes' = [votes EXCEPT ![a] = @ \cup {a}]
    /\ reveals' = [reveals EXCEPT ![a] = @ \cup {a}]
    /\ Leave(a, "accept_vote", {})
    /\ UNCHANGED <<up, documents, prev, certificate, myconsensus,
                   certificates, signatures, expired>>

(* accept_vote -> accept_reveal. *)
sendReveal(a) ==
    /\ Active(a, "accept_vote")
    /\ Leave(a, "accept_reveal", {b \in Authorities : up[b]} \ votes[a])
    /\ UNCHANGED <<up, documents, prev, genesis, vote, certificate, myconsensus,
                   votes, reveals, certificates, signatures, expired>>

(* IsDocumentWellFormed of the certificate a would make now: every commit  *)
(* has an unexpired reveal, a lone commit must have none, and the topology *)
(* is full.                                                                *)
CertificateWellFormed(a) ==
    /\ ~expired
    /\ Cardinality(votes[a]) # 1
    /\ votes[a] \subseteq reveals[a]
    /\ Cardinality(TalliedMixes(votes[a])) >= MinMixes

(* accept_reveal -> accept_cert: on an error no certificate is sent, and   *)
(* the FSM moves on all the same.                                          *)
getCertificate(a) ==
    /\ Active(a, "accept_reveal")
    /\ Leave(a, "accept_cert", {b \in Authorities : up[b]} \ reveals[a])
    /\ IF TallyOK(votes[a]) /\ CertificateWellFormed(a)
       THEN /\ certificate' = [certificate EXCEPT
                 ![a] = [mixes |-> TalliedMixes(votes[a]), shared |-> votes[a]]]
            /\ certificates' = [certificates EXCEPT ![a] = @ \cup {a}]
       ELSE UNCHANGED <<certificate, certificates>>
    /\ UNCHANGED <<up, documents, prev, genesis, vote, myconsensus, votes,
                   reveals, signatures, expired>>

(* accept_cert -> accept_signature: a signs its view, if it has one. *)
getMyConsensus(a) ==
    /\ Active(a, "accept_cert")
    /\ Leave(a, "accept_signature",
             {b \in Authorities : certificate[b] # None} \ certificates[a])
    /\ \/ \E d \in MyConsensus(a) : myconsensus' = [myconsensus EXCEPT ![a] = d]
       \/ /\ \/ MyConsensus(a) = {}
             \/ \E s \in VerifiedCommits(a) : Cardinality(s) < Threshold
          /\ UNCHANGED myconsensus
    /\ UNCHANGED <<up, documents, prev, genesis, vote, certificate, votes,
                   reveals, certificates, signatures, expired>>

(* The signers of a's own view: AddSignature keeps the signatures that     *)
(* verify over it, and a has signed it itself.                             *)
Signers(a) == {b \in signatures[a] \cup {a} : myconsensus[b] = myconsensus[a]}

(* accept_signature -> the next round with a threshold of signatures, the  *)
(* document persisted and published; otherwise back to bootstrap.          *)
getThresholdConsensus(a) ==
    /\ Active(a, "accept_signature")
    /\ LET late == {b \in Authorities : myconsensus[b] # None} \ signatures[a] IN
       IF myconsensus[a] # None /\ Cardinality(Signers(a)) >= Threshold
       THEN /\ documents' = [documents EXCEPT
                 ![a] = [doc |-> myconsensus[a], signers |-> Signers(a)]]
            /\ Leave(a, "next_round", late)
       ELSE Leave(a, "bootstrap", late) /\ UNCHANGED documents
    /\ UNCHANGED <<up, prev, genesis, vote, certificate, myconsensus, votes,
                   reveals, certificates, signatures, expired>>

-----------------------------------------------------------------------------
(* The upload handlers, at b, of a command that a sent. *)

Hears(b, a) == up[b] /\ st[b] \in InRound /\ a # b

onVoteUpload(b, a) ==
    /\ Hears(b, a)
    /\ vote[a] # None
    /\ a \notin votes[b]
    /\ votes' = [votes EXCEPT ![b] = @ \cup {a}]
    /\ UNCHANGED <<st, up, documents, prev, genesis, vote, certificate,
                   myconsensus, reveals, certificates, signatures, expired, missed>>

onRevealUpload(b, a) ==
    /\ Hears(b, a)
    /\ Revealed(a)
    /\ ~expired
    /\ a \in votes[b]
    /\ a \notin reveals[b]
    /\ reveals' = [reveals EXCEPT ![b] = @ \cup {a}]
    /\ UNCHANGED <<st, up, documents, prev, genesis, vote, certificate,
                   myconsensus, votes, certificates, signatures, expired, missed>>

onCertUpload(b, a) ==
    /\ Hears(b, a)
    /\ certificate[a] # None
    /\ a \in votes[b]
    /\ a \notin certificates[b]
    /\ certificates' = [certificates EXCEPT ![b] = @ \cup {a}]
    /\ UNCHANGED <<st, up, documents, prev, genesis, vote, certificate,
                   myconsensus, votes, reveals, signatures, expired, missed>>

onSigUpload(b, a) ==
    /\ Hears(b, a)
    /\ myconsensus[a] # None
    /\ ~expired
    /\ a \notin signatures[b]
    /\ signatures' = [signatures EXCEPT ![b] = @ \cup {a}]
    /\ UNCHANGED <<st, up, documents, prev, genesis, vote, certificate,
                   myconsensus, votes, reveals, certificates, expired, missed>>

-----------------------------------------------------------------------------
(* The environment. *)

(* Fault: the restarted authority does not restore its document. *)
CrashForgets(a) ==
    /\ up[a]
    /\ Cardinality({b \in Authorities : ~up[b]}) < MaxCrash
    /\ up' = [up EXCEPT ![a] = FALSE]
    /\ documents' = [documents EXCEPT ![a] = None]
    /\ votes' = [votes EXCEPT ![a] = {}]
    /\ UNCHANGED <<st, prev, genesis, vote, certificate, myconsensus, reveals,
                   certificates, signatures, expired, missed>>

(* A crash loses the memory of a; what it sent is still under way.  After  *)
(* the restart votingEpoch is another epoch, so nothing of this round is   *)
(* accepted or sent any more.  The document that a published is on disk;   *)
(* one that it fetched is not, and is fetched again.                       *)
Crash(a) ==
    /\ up[a]
    /\ Cardinality({b \in Authorities : ~up[b]}) < MaxCrash
    /\ up' = [up EXCEPT ![a] = FALSE]
    /\ votes' = [votes EXCEPT ![a] = {}]
    /\ reveals' = [reveals EXCEPT ![a] = {}]
    /\ certificates' = [certificates EXCEPT ![a] = {}]
    /\ signatures' = [signatures EXCEPT ![a] = {}]
    /\ UNCHANGED <<st, documents, prev, genesis, vote, certificate,
                   myconsensus, expired, missed>>

(* backgroundFetchConsensus(epoch - 1) of the bootstrap step completes: it *)
(* runs in a goroutine and can finish at any point of the round.           *)
fetchPrevious(a) ==
    /\ up[a]
    /\ ~prev[a]
    /\ HasPrev # {}
    /\ prev' = [prev EXCEPT ![a] = TRUE]
    /\ UNCHANGED <<st, up, documents, genesis, vote, certificate, myconsensus,
                   votes, reveals, certificates, signatures, expired, missed>>

(* backgroundFetchConsensus(epoch), called by the bootstrap step of the    *)
(* following epoch: a takes the document of an authority that published.   *)
fetchConsensus(a) ==
    /\ expired
    /\ up[a] => st[a] = "bootstrap"
    /\ documents[a] = None
    /\ \E b \in Authorities :
          /\ documents[b] # None
          /\ Cardinality(documents[b].doc.mixes) >= MinMixes
          /\ documents' = [documents EXCEPT ![a] = documents[b]]
    /\ UNCHANGED <<st, up, prev, genesis, vote, certificate, myconsensus,
                   votes, reveals, certificates, signatures, expired, missed>>

EpochBegins ==
    /\ ~expired
    /\ \A b \in Authorities : up[b] => 4 < Phase(b) + MaxSkew
    /\ expired' = TRUE
    /\ UNCHANGED <<st, up, documents, prev, genesis, vote, certificate,
                   myconsensus, votes, reveals, certificates, signatures, missed>>

fsm(a) == \/ getVote(a) \/ sendReveal(a) \/ getCertificate(a)
          \/ getMyConsensus(a) \/ getThresholdConsensus(a)

upload(b, a) == \/ onVoteUpload(b, a) \/ onRevealUpload(b, a)
                \/ onCertUpload(b, a) \/ onSigUpload(b, a)

Next ==
    \/ \E a \in Authorities : \/ fsm(a) \/ Crash(a)
                              \/ fetchPrevious(a) \/ fetchConsensus(a)
    \/ \E a, b \in Authorities : upload(b, a)
    \/ EpochBegins

Spec == Init /\ [][Next]_vars

-----------------------------------------------------------------------------
(* What the round promises. *)

(* Agreement: no two authorities ever publish or adopt different documents *)
(* for the epoch, whatever is lost, late or crashes (getThresholdConsensus *)
(* needs a majority of signatures, and an authority signs one view only).  *)
Agreement ==
    \A a, b \in Authorities :
        documents[a] # None /\ documents[b] # None
            => documents[a].doc = documents[b].doc

(* A published document lists only descriptors that a majority of the      *)
(* authorities voted for (tallyVotes; pki.rst: "If half or fewer of the    *)
(* votes include the identity, do not include any descriptors"), and its   *)
(* shared random value comes from a majority of authorities that have      *)
(* indeed revealed (verifyCommits, computeSharedRandom).                   *)
PublishedIsBacked ==
    \A a \in Authorities : documents[a] # None =>
        LET d == documents[a].doc IN
        /\ \A m \in d.mixes :
              Cardinality({b \in Authorities : vote[b] # None /\ m \in vote[b]})
                  >= Threshold
        /\ Cardinality(d.reveals) >= Threshold
        /\ \A b \in d.reveals : Revealed(b)

(* A published document has a full topology, although getMyConsensus never *)
(* calls IsDocumentWellFormed: some signer of the document has also made a *)
(* certificate, getCertificate did check it, and the votes an authority    *)
(* tallies only grow.                                                      *)
PublishedIsWellFormed ==
    \A a \in Authorities :
        documents[a] # None => Cardinality(documents[a].doc.mixes) >= MinMixes

(* The round implements the abstract specification of a single published   *)
(* document: see AgreedDocument.                                           *)
PublishedDoc == [a \in Authorities |->
                    IF documents[a] = None THEN None ELSE documents[a].doc]

Abstract == INSTANCE AgreedDocument WITH Values <- Document,
                                         chosen <- PublishedDoc

ImplementsAgreedDocument == Abstract!Spec

(* Every command came in its phase, and every authority takes part in the *)
(* whole round or is down from its start.                                  *)
OnTime == missed = 0 /\ \A b \in Authorities : up[b] \/ vote[b] = None

(* Those who take part and agree with a on whether this is the genesis     *)
(* epoch, that is, on whether the previous document was there to vote with.*)
Alike(a) == {b \in Authorities : up[b] /\ genesis[b] = genesis[a]}

(* In a round that is on time, an authority that had the previous document *)
(* when it voted, as a majority had, publishes; so it does in the first    *)
(* epoch, when there is no previous document.  It is back in bootstrap     *)
(* only if the votes have too few descriptors to fill the topology, or no  *)
(* majority for the network parameters (fsm).  One that took the epoch for *)
(* the genesis epoch may fetch the previous document before or after it    *)
(* signs, and signs different views: nothing is promised to it.            *)
TimelyConsensus ==
    OnTime => \A a \in Authorities :
        (/\ up[a] /\ st[a] = "bootstrap"
         /\ Cardinality(Alike(a)) >= Threshold
         /\ ~genesis[a] \/ HasPrev = {})
            => Cardinality(TalliedMixes(votes[a])) < MinMixes \/ ~TallyOK(votes[a])
=============================================================================
