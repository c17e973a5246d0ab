----------------------------- MODULE Directory -----------------------------
(***************************************************************************)
(* The directory authorities over many epochs (authority/voting/server),   *)
(* as the nodes of the network see them: who is listed in the document of  *)
(* which epoch, and when an authority has it to give.                      *)
(*                                                                         *)
(* Time is counted in eighths of an epoch, because every deadline of the   *)
(* voting schedule is a multiple of Period/8; a wake-up takes its time     *)
(* within the eighth in which it is due.  What can be lost or come late    *)
(* within a round is the subject of module Voting; here a command reaches  *)
(* every authority that is up and votes on the same epoch, so that the     *)
(* tables of a round can be read off what was sent.                        *)
(***************************************************************************)
EXTENDS Integers, FiniteSets, FiniteSetsExt

CONSTANTS
    Authorities,    \* the configured directory authorities
    Nodes,          \* the mixes that are modelled (module NodePKI)
    Others,         \* mixes that are never down and always publish in time
    Layers,         \* Debug.Layers, with MinNodesPerLayer = 1
    Week,           \* weekOfEpochs
    Wrap,           \* the modulus of uint64, reduced
    MaxEpoch,       \* bound: the last epoch of a behaviour
    MaxFaults,      \* bound: how many faults happen
    MaxOutage,      \* bound: how long an outage lasts, in eighths
    None            \* the absence of a document or a vote

Mixes  == Nodes \cup Others
Epochs == 1..(MaxEpoch + 2)

(* Fault: half of the authorities are enough. *)
half == Cardinality(Authorities) \div 2

(* newState: threshold = len(verifiers)/2 + 1. *)
Threshold == (Cardinality(Authorities) \div 2) + 1

ASSUME DirectoryAssumption ==
    /\ IsFiniteSet(Authorities) /\ IsFiniteSet(Mixes)
    /\ Layers \in Nat \ {0} /\ Week \in Nat \ {0} /\ Wrap \in Nat \ {0}
    /\ {MaxEpoch, MaxFaults, MaxOutage} \subseteq Nat

VARIABLES
    now,            \* the time, in eighths of an epoch
    au,             \* au[a]: the state of authority a
    faults,         \* how many faults have happened (for MaxFaults)
    well            \* the first epoch in which no fault may be felt any more

dirVars == <<now, au, faults, well>>

Epoch   == now \div 8
elapsed == now % 8          \* eighths of the epoch that have passed
Start(e) == 8 * e

(* The voting schedule (state.go, MixPublishDeadline and after it).        *)
MixPublishDeadline       == 1
AuthorityVoteDeadline    == 2
AuthorityRevealDeadline  == 3
AuthorityCertDeadline    == 4
PublishConsensusDeadline == 5
generationDeadline       == 7

-----------------------------------------------------------------------------
(* Documents. *)

zeros == <<0, FALSE>>

(* computeSharedRandom: a hash over the reveals of epoch e and the value   *)
(* of the previous document, or zeros without one.                         *)
computeSharedRandom(e, hasPrev) == <<e, hasPrev>>

(* The document of epoch e among the documents of a set.                   *)
HasDoc(docs, e) == \E d \in docs : d.epoch = e
DocOf(docs, e)  == CHOOSE d \in docs : d.epoch = e

(* The mixes that document d lists; they are the domain of its topology.   *)
Listed(d) == DOMAIN d.layer

(* generateTopology: as many mixes as possible stay in their layer, up to  *)
(* the target size; the shared random value decides who stays and where    *)
(* the others go, filling the layers in turn.  The result is the set of    *)
(* topologies over all values.                                             *)
generateTopology(mixes, layerOf) ==
    LET target == Cardinality(mixes) \div Layers
        size(l) == target + (IF l < Cardinality(mixes) % Layers THEN 1 ELSE 0)
        old(l)  == {m \in mixes \cap DOMAIN layerOf : layerOf[m] = l}
    IN {f \in [mixes -> 0..(Layers - 1)] :
          \A l \in 0..(Layers - 1) :
             LET new == {m \in mixes : f[m] = l}
             IN /\ Cardinality(new) = size(l)
                /\ Cardinality(new \cap old(l)) >= Min({target, Cardinality(old(l))})}

(* generateRandomTopology: no previous document. *)
generateRandomTopology(mixes) == generateTopology(mixes, <<>>)

(* It is time to rotate the weekly shared random values: the difference    *)
(* of two uint64 is taken, and is negative after the genesis epoch.        *)
RotationDue(genesis, e) == ((genesis - e) % Wrap) % Week = 0

(* getCertificate, with a shared random value of zeros. *)
priorAtCertificate(prior, genesis, e) ==
    IF prior = <<>> THEN <<zeros, zeros>>
    ELSE IF RotationDue(genesis, e) THEN <<zeros, prior[1]>>
    ELSE prior

(* getMyConsensus. *)
priorAtConsensus(prior, genesis, e, srv) ==
    IF e = genesis THEN <<srv, srv>>
    ELSE IF RotationDue(genesis, e) THEN <<srv, prior[1]>>
    ELSE prior

-----------------------------------------------------------------------------
(* An authority: its FSM state, the epoch it votes on, when its timer      *)
(* fires, its documents and the epochs of those that were fetched and are  *)
(* not on disk, the descriptors it was sent (in memory and on disk alike), *)
(* and what it has sent in this round: its vote, reveal and certificate,   *)
(* and its view of the consensus.                                          *)
newAuthority(docs, descs, wake) ==
    [up |-> TRUE, st |-> "bootstrap", voting |-> 0, wake |-> wake,
     docs |-> docs, unsaved |-> {}, descs |-> descs,
     genesis |-> 0, prior |-> <<>>, vote |-> None, revealed |-> 0,
     certified |-> 0, view |-> None]

(* The authorities are started for the first time, at the beginning of     *)
(* epoch 1; in such a behaviour there are no faults.                       *)
DirColdInit ==
    /\ now = Start(1)
    /\ au = [a \in Authorities |->
               newAuthority({}, [e \in Epochs |-> {}], Start(1))]
    /\ faults = MaxFaults
    /\ well = 3

(* Or they have been at work for some time, and epoch 3 begins. *)
runningDocs(layer) ==
    {[epoch |-> e, layer |-> layer, srv |-> computeSharedRandom(e, TRUE),
      genesis |-> 0, prior |-> <<<<0, TRUE>>, <<0, TRUE>>>>] : e \in 1..3}

DirRunningInit(layer) ==
    /\ now = Start(3)
    /\ au = [a \in Authorities |->
               [newAuthority(runningDocs(layer), [e \in Epochs |-> IF e <= 3 THEN Nodes ELSE {}],
                             Start(3) + MixPublishDeadline)
                  EXCEPT !.st = "accept_desc", !.voting = 4]]
    /\ faults = 0
    /\ well = 3

(* a has a timer that has fired in FSM state s. *)
Due(a, s) == au[a].up /\ au[a].st = s /\ au[a].wake <= now

(* pruneDocuments, the last thing that every FSM step does. *)
pruneDocuments(r) ==
    [r EXCEPT !.docs = {d \in @ : d.epoch >= Epoch - 3},
              !.descs = [e \in Epochs |-> IF e < Epoch - 3 THEN {} ELSE @[e]]]

(* The step of a ends: its state becomes r. *)
Becomes(a, r) == au' = [au EXCEPT ![a] = pruneDocuments(r)]

(* A fault, after which all is well from epoch e on.  The first one comes  *)
(* in epoch 3: every later epoch is like it.                               *)
Fault(e) ==
    /\ faults < MaxFaults
    /\ faults = 0 => Epoch = 3
    /\ faults' = faults + 1
    /\ well' = Max({well, e})

(* backgroundFetchConsensus asks one authority, drawn from all of them,    *)
(* for the document of epoch e: the document that others have, or nothing  *)
(* when the one that is drawn does not have it, is down or is a itself.    *)
backgroundFetchConsensus(e) ==
    {d \in UNION {au[b].docs : b \in {c \in Authorities : au[c].up}} : d.epoch = e}

(* bootstrap: the documents arrive before the vote, or not at all (once,   *)
(* after the last fault).                                                  *)
bootstrap(a) ==
    /\ Due(a, "bootstrap")
    /\ LET fetched == backgroundFetchConsensus(Epoch - 1)
                         \cup backgroundFetchConsensus(Epoch)
           step(docs) ==
             LET r == [au[a] EXCEPT !.genesis = 0, !.docs = docs,
                         !.unsaved = @ \cup {d.epoch : d \in docs \ au[a].docs}]
             IN IF elapsed >= MixPublishDeadline
                THEN Becomes(a, [r EXCEPT !.voting = Epoch + 2, !.wake = Start(Epoch + 1)])
                ELSE Becomes(a, [r EXCEPT !.voting = Epoch + 1, !.st = "accept_desc",
                                          !.wake = Start(Epoch) + MixPublishDeadline])
       IN \/ step(au[a].docs \cup fetched) /\ UNCHANGED <<faults, well>>
          \/ /\ ~(fetched \subseteq au[a].docs) /\ step(au[a].docs)
             /\ faults = MaxFaults /\ faults' = faults + 1
             /\ well' = Max({well, Epoch + 2})
    /\ UNCHANGED now

(* The authorities whose vote on epoch e the others have. *)
Voters(e) == {b \in Authorities : au[b].vote # None /\ au[b].vote.epoch = e}

(* tallyVotes: the descriptors that a threshold of the votes contain. *)
tallyVotes(e) ==
    {m \in Mixes : Cardinality({b \in Voters(e) : m \in au[b].vote.mixes}) >= Threshold}

(* accept_desc -> accept_vote: getVote. *)
getVote(a) ==
    /\ Due(a, "accept_desc")
    /\ LET e == au[a].voting
           r == [au[a] EXCEPT !.st = "accept_vote",
                   !.wake = Start(Epoch) + AuthorityVoteDeadline,
                   !.vote = [epoch |-> e, mixes |-> au[a].descs[e] \cup Others]]
       IN IF HasDoc(au[a].docs, e - 1)
          THEN LET d == DocOf(au[a].docs, e - 1)
               IN Becomes(a, [r EXCEPT !.genesis = d.genesis, !.prior = d.prior])
          ELSE Becomes(a, [r EXCEPT !.genesis = e])
    /\ UNCHANGED <<now, faults, well>>

(* accept_vote -> accept_reveal. *)
reveal(a) ==
    /\ Due(a, "accept_vote")
    /\ Becomes(a, [au[a] EXCEPT !.st = "accept_reveal", !.revealed = au[a].voting,
                                !.wake = Start(Epoch) + AuthorityRevealDeadline])
    /\ UNCHANGED <<now, faults, well>>

(* The certificate is well formed: a commit without its reveal spoils it.  *)
CertificateOK(e) ==
    /\ Cardinality(Voters(e)) >= Threshold
    /\ \A b \in Voters(e) : au[b].revealed = e
    /\ Cardinality(tallyVotes(e)) >= Layers

(* accept_reveal -> accept_cert: getCertificate. *)
getCertificate(a) ==
    /\ Due(a, "accept_reveal")
    /\ LET e == au[a].voting
           r == [au[a] EXCEPT !.st = "accept_cert",
                   !.wake = Start(Epoch) + AuthorityCertDeadline]
           tallied == [r EXCEPT !.prior = priorAtCertificate(@, au[a].genesis, e)]
       IN Becomes(a, IF CertificateOK(e) THEN [tallied EXCEPT !.certified = e]
                     ELSE IF Cardinality(Voters(e)) >= Threshold THEN tallied
                     ELSE r)
    /\ UNCHANGED <<now, faults, well>>

Certificates(e) == {b \in Authorities : au[b].certified = e}

(* The topologies that authority a may compute.  The shared random value   *)
(* decides, so authorities whose previous document and value are the same  *)
(* arrive at the same one.                                                 *)
Topologies(a, e, srv, prev) ==
    LET same == {au[b].view.layer : b \in {c \in Authorities :
                   au[c].view # None /\ au[c].view.epoch = e /\ au[c].view.srv = srv}}
    IN IF same # {} THEN same
       ELSE IF prev = None THEN generateRandomTopology(tallyVotes(e))
       ELSE generateTopology(tallyVotes(e), prev.layer)

(* getDocument: what a document says. *)
getDocument(e, layer, srv, genesis, prior) ==
    [epoch |-> e, layer |-> layer, srv |-> srv, genesis |-> genesis, prior |-> prior]

(* accept_cert -> accept_signature: getMyConsensus. *)
getMyConsensus(a) ==
    /\ Due(a, "accept_cert")
    /\ LET e     == au[a].voting
           prev  == IF HasDoc(au[a].docs, e - 1) THEN DocOf(au[a].docs, e - 1) ELSE None
           srv   == computeSharedRandom(e, prev # None)
           prior == priorAtConsensus(au[a].prior, au[a].genesis, e, srv)
           r     == [au[a] EXCEPT !.st = "accept_signature",
                       !.wake = Start(Epoch) + PublishConsensusDeadline]
       IN IF Cardinality(Certificates(e)) >= Threshold
          THEN \E layer \in Topologies(a, e, srv, prev) :
                 Becomes(a, [r EXCEPT !.prior = prior,
                               !.view = getDocument(e, layer, srv, au[a].genesis, prior)])
          ELSE Becomes(a, r)
    /\ UNCHANGED <<now, faults, well>>

(* A threshold of the authorities has signed a's view of the consensus.    *)
Signed(a) ==
    /\ au[a].view # None /\ au[a].view.epoch = au[a].voting
    /\ Cardinality({b \in Authorities : au[b].view = au[a].view}) >= Threshold

(* accept_signature -> the next round, or bootstrap: the document is       *)
(* persisted and published.  The clock is read again at the end, in epoch  *)
(* "then"; a step that overruns the epoch skips the whole next one, and    *)
(* only the bootstrap step sets votingEpoch right again.                   *)
getThresholdConsensus(a, then) ==
    /\ Due(a, "accept_signature")
    /\ LET r == [au[a] EXCEPT !.vote = None, !.revealed = 0, !.certified = 0]
           d == au[a].view
       IN IF Signed(a)
          THEN Becomes(a, [r EXCEPT !.docs = @ \cup {d},
                             !.st = "accept_desc", !.voting = @ + 1,
                             !.wake = Start(then + 1) + MixPublishDeadline])
          ELSE Becomes(a, [r EXCEPT !.st = "bootstrap", !.voting = Epoch + 2,
                             !.wake = Start(then + 1)])
    /\ UNCHANGED now

publishInTime(a) ==
    getThresholdConsensus(a, Epoch) /\ UNCHANGED <<faults, well>>

publishOverrun(a) ==
    getThresholdConsensus(a, Epoch + 1) /\ Fault(Epoch + 4)

-----------------------------------------------------------------------------
(* What an authority does for its clients. *)

(* onDescriptorUpload, at an authority in state r: n's descriptor for      *)
(* epoch e is kept, also on disk, unless the document is there already.    *)
onDescriptorUpload(r, n, e) ==
    IF HasDoc(r.docs, e) THEN r ELSE [r EXCEPT !.descs[e] = @ \cup {n}]

(* onPostDescriptor: n posts its own descriptor, for an epoch around now.  *)
onPostDescriptor(r, n, e) ==
    IF e \in (Epoch - 1)..(Epoch + 1) THEN onDescriptorUpload(r, n, e) ELSE r

(* documentForEpoch: why a has no document for epoch e to give. *)
documentForEpoch(a, e) ==
    CASE HasDoc(au[a].docs, e) -> "document"
      [] ~HasDoc(au[a].docs, e) /\ e <= Epoch -> "errGone"
      [] ~HasDoc(au[a].docs, e) /\ e = Epoch + 1 ->
            IF elapsed >= generationDeadline THEN "errGone" ELSE "errNotYet"

(* onGetConsensus: the answer of authority a. *)
onGetConsensus(a, e) ==
    CASE documentForEpoch(a, e) = "document" -> "Ok"
      [] documentForEpoch(a, e) = "errGone"  -> "Gone"
      [] OTHER -> "NotFound"

-----------------------------------------------------------------------------
(* Faults. *)

(* a crashes: what it has sent is with the others. *)
crash(a) ==
    /\ au[a].up
    /\ au' = [au EXCEPT ![a].up = FALSE, ![a].wake = now]
    /\ Fault(Epoch + 2)
    /\ UNCHANGED now

(* newState and restorePersistence: descriptors and documents of the       *)
(* epochs around now come back; a document that was fetched does not.      *)
restart(a) ==
    /\ ~au[a].up
    /\ LET kept == (Epoch - 1)..(Epoch + 1)
           r == newAuthority({d \in au[a].docs : d.epoch \in kept \ au[a].unsaved},
                             [e \in Epochs |-> IF e \in kept THEN au[a].descs[e] ELSE {}],
                             now)
       IN au' = [au EXCEPT ![a] =
                   [r EXCEPT !.vote = au[a].vote, !.revealed = au[a].revealed,
                             !.certified = au[a].certified, !.view = au[a].view]]
    /\ well' = Max({well, Epoch + 2})
    /\ UNCHANGED <<now, faults>>

(* The timers that are due have fired before time goes on, and no outage   *)
(* is too long.                                                            *)
DirSettled == \A a \in Authorities :
    IF au[a].up THEN au[a].wake > now ELSE now < au[a].wake + MaxOutage

(* The last epoch of interest is over: the first one in which the network  *)
(* must be well again.                                                     *)
Horizon == Start(Min({Max({well, 4}) + 1, MaxEpoch + 1}))

-----------------------------------------------------------------------------
(* No two authorities ever hold different documents for an epoch, through  *)
(* restarts, missed rounds and documents fetched from others (state.go,    *)
(* getThresholdConsensus, restorePersistence, backgroundFetchConsensus).   *)
DocumentsAgree ==
    \A a, b \in Authorities : \A c \in au[a].docs, d \in au[b].docs :
        c.epoch = d.epoch => c = d
====
