----------------------- MODULE GatePresentationProofs -----------------------
(***************************************************************************)
(* What holds of GatePresentation for any chats, any recorders side by     *)
(* side, any evidence and any number of events and overwritten files: what *)
(* a user decides on at a visual gate was shown in the same chat with the  *)
(* content it has at the decision, and a visualization that is recorded as *)
(* rendered shows the files as they are at that moment.                    *)
(***************************************************************************)
EXTENDS GatePresentation, FiniteSetTheorems, SequenceTheorems, TLAPS

-----------------------------------------------------------------------------
(* Shapes.  A digest that was ever made names a gate and gives a version of *)
(* each file that it lists.                                                 *)
Digests == [gate : Gates, bundle : Nat, files : UNION {[I -> Nat] : I \in SUBSET Nat}]
Reports == UNION {[I -> Outcomes] : I \in SUBSET Nat}
Stored == [digest : Digests, outcome : Reports]
Records == [gate : Gates, session : Sessions, digest : Digests, outcome : Reports]
HostStates == [gate : Gates \cup {"none"}, digest : Digests \cup {None},
               todo : SUBSET Nat, shown : SUBSET Nat]

FilesShape ==
    /\ events \in Nat
    /\ evidence \in Seq(Evidence) /\ bytes \in [Ids -> Nat]
    /\ seen \in [Sessions -> SUBSET (Nat \X Nat)]
TablesShape ==
    /\ acks \in [Gates -> [Sessions -> Stored \cup {NoAcks}]]
    /\ pending \in [Writers -> Records \cup {None}]
    /\ host \in [Sessions -> HostStates]
Shape == FilesShape /\ TablesShape

LEMMA IdsAreNumbers == ASSUME FilesShape PROVE Ids \subseteq Nat /\ Ids = 1 .. Len(evidence)
BY DEF FilesShape, Ids

LEMMA DigestShape ==
    ASSUME FilesShape, NEW g \in Gates
    PROVE  /\ presentationDigest(g) \in Digests
           /\ presentationDigest(g).gate = g
           /\ DOMAIN presentationDigest(g).files = evidenceForStage(g)
           /\ \A i \in evidenceForStage(g) : presentationDigest(g).files[i] = bytes[i]
           /\ Required(g) = {i \in evidenceForStage(g) : evidence[i].kind \in Images}
           /\ evidenceForStage(g) \subseteq Ids
<1>1. evidenceForStage(g) \subseteq Ids
  BY DEF evidenceForStage
<1>2. evidenceForStage(g) \in SUBSET Nat
  BY <1>1, IdsAreNumbers
<1>3. [i \in evidenceForStage(g) |-> bytes[i]] \in [evidenceForStage(g) -> Nat]
  BY <1>1 DEF FilesShape
<1>4. events \in Nat
  BY DEF FilesShape
<1> QED
  BY <1>1, <1>2, <1>3, <1>4 DEF presentationDigest, Digests, Required

(* What the stored acknowledgements of a session amount to for a gate.      *)
LEMMA AcknowledgedShape ==
    ASSUME Shape, NEW g \in Gates, NEW s \in Sessions
    PROVE  \/ /\ acks[g][s] \in Stored /\ acks[g][s].digest = presentationDigest(g)
              /\ Acknowledged(g, s) = acks[g][s].outcome
           \/ Acknowledged(g, s) = [i \in Required(g) |-> "pending"]
<1>1. presentationDigest(g).gate = g
  BY DigestShape DEF Shape
<1>2. NoAcks.digest # presentationDigest(g)
  BY <1>1 DEF NoAcks, None, Gates
<1>3. acks[g][s] \in Stored \cup {NoAcks}
  BY DEF Shape, TablesShape
<1> QED
  BY <1>2, <1>3 DEF Acknowledged

-----------------------------------------------------------------------------
(* The invariant.  An acknowledgement answers for the images of the digest  *)
(* it was made for, and "presented" says that the session saw that content. *)
Presents(d, outcome, s) ==
    /\ DOMAIN d.files \subseteq Ids
    /\ DOMAIN outcome = {i \in DOMAIN d.files : evidence[i].kind \in Images}
    /\ \A i \in DOMAIN outcome : outcome[i] = "presented" => <<i, d.files[i]>> \in seen[s]

AcksFit ==
    \A g \in Gates, s \in Sessions :
        acks[g][s] # NoAcks => Presents(acks[g][s].digest, acks[g][s].outcome, s)
PendingFits ==
    \A w \in Writers :
        pending[w] # None => Presents(pending[w].digest, pending[w].outcome, pending[w].session)

(* What a host has shown since it fetched it showed with the content of the *)
(* digest it fetched, or with a later one.                                  *)
Since(s, i) ==
    \E v \in Nat : /\ <<i, v>> \in seen[s]
                   /\ host[s].digest.files[i] <= v /\ v <= bytes[i]
HostFit(s) ==
    /\ host[s].digest = None => host[s].todo = {} /\ host[s].shown = {}
    /\ host[s].digest # None =>
          /\ DOMAIN host[s].digest.files \subseteq Ids
          /\ \A i \in DOMAIN host[s].digest.files : host[s].digest.files[i] <= bytes[i]
          /\ host[s].todo \cup host[s].shown \subseteq DOMAIN host[s].digest.files
    /\ \A i \in host[s].shown : Since(s, i)
HostFits == \A s \in Sessions : HostFit(s)

PresentationInv == Shape /\ AcksFit /\ PendingFits /\ HostFits /\ decided.unseen = {}

LEMMA PresentationBegins ==
    ASSUME GatePresentationAssumption, Init
    PROVE  PresentationInv
<1>1. NoHost \in HostStates
  BY DEF NoHost, HostStates
<1>2. FilesShape
  BY DEF GatePresentationAssumption, Init, FilesShape, Ids
<1>3. TablesShape
  BY <1>1 DEF Init, TablesShape
<1> QED
  BY <1>2, <1>3 DEF Init, PresentationInv, Shape, AcksFit, PendingFits, HostFits, HostFit, NoHost

(* The world goes on: evidence is added to, files are overwritten by later  *)
(* versions, and what a session saw it has seen.                            *)
Grows ==
    /\ FilesShape'
    /\ Len(evidence) <= Len(evidence')
    /\ \A i \in Ids : i \in Ids' /\ evidence'[i] = evidence[i] /\ bytes[i] <= bytes'[i]
    /\ \A s \in Sessions : seen[s] \subseteq seen'[s]

LEMMA PresentsStands ==
    ASSUME Grows, NEW d, NEW outcome, NEW s \in Sessions, Presents(d, outcome, s)
    PROVE  Presents(d, outcome, s)'
BY DEF Grows, Presents

LEMMA SinceStands ==
    ASSUME FilesShape, Grows, NEW s \in Sessions, NEW i \in Ids, Since(s, i),
           host'[s].digest = host[s].digest
    PROVE  Since(s, i)'
<1>1. PICK v \in Nat : <<i, v>> \in seen[s] /\ host[s].digest.files[i] <= v /\ v <= bytes[i]
  BY DEF Since
<1>2. <<i, v>> \in seen'[s] /\ host'[s].digest.files[i] <= v
  BY <1>1 DEF Grows
<1>3. bytes[i] \in Nat /\ bytes'[i] \in Nat /\ bytes[i] <= bytes'[i]
  BY DEF FilesShape, Grows
<1>4. v <= bytes'[i]
  BY <1>1, <1>3
<1> QED
  BY <1>2, <1>4 DEF Since

LEMMA HostStands ==
    ASSUME FilesShape, TablesShape, Grows, NEW s \in Sessions, HostFit(s), host'[s] = host[s]
    PROVE  HostFit(s)'
<1> DEFINE files0 == host[s].digest.files
<1>1. \A i \in host[s].shown : i \in Ids
  BY DEF HostFit
<1>2. \A i \in host[s].shown : Since(s, i)'
  BY <1>1, SinceStands DEF HostFit
<1>3. ASSUME host[s].digest # None, NEW i \in DOMAIN files0 PROVE files0[i] <= bytes'[i]
  <2>1. i \in Ids /\ files0[i] <= bytes[i] /\ bytes[i] <= bytes'[i] /\ i \in Ids'
    BY <1>3 DEF HostFit, Grows
  <2>2. bytes[i] \in Nat /\ bytes'[i] \in Nat
    BY <2>1 DEF FilesShape, Grows
  <2>3. files0[i] \in Nat
    <3>1. host[s] \in HostStates
      BY DEF TablesShape
    <3>2. host[s].digest \in Digests
      BY <1>3, <3>1 DEF HostStates
    <3>3. PICK I \in SUBSET Nat : files0 \in [I -> Nat]
      BY <3>2 DEF Digests
    <3> HIDE DEF files0
    <3> QED
      BY <1>3, <3>3
  <2> HIDE DEF files0
  <2> QED
    BY <2>1, <2>2, <2>3
<1> QED
  BY <1>2, <1>3 DEF HostFit, Grows

(* A step that touches neither table nor host keeps the invariant.          *)
LEMMA TablesStand ==
    ASSUME PresentationInv, Grows, acks' = acks, pending' = pending, host' = host,
           decided'.unseen = {}
    PROVE  PresentationInv'
<1>1. Shape'
  BY DEF PresentationInv, Shape, TablesShape, Grows
<1>2. AcksFit'
  BY PresentsStands DEF PresentationInv, AcksFit
<1>3. PendingFits'
  <2>1. \A w \in Writers : pending[w] # None => pending[w].session \in Sessions
    BY DEF PresentationInv, Shape, TablesShape, Records
  <2> QED
    BY <2>1, PresentsStands DEF PresentationInv, PendingFits
<1>4. HostFits'
  BY HostStands DEF PresentationInv, Shape, HostFits
<1> QED
  BY <1>1, <1>2, <1>3, <1>4 DEF PresentationInv

-----------------------------------------------------------------------------
(* The steps. *)

(* Nothing of the files or of what was seen changes.                        *)
LEMMA FilesStand ==
    ASSUME FilesShape, UNCHANGED <<files, seen>>
    PROVE  Grows /\ \A g \in Gates : presentationDigest(g)' = presentationDigest(g)
<1>1. events' = events /\ evidence' = evidence /\ bytes' = bytes /\ seen' = seen
  BY DEF files
<1>2. Ids' = Ids /\ FilesShape'
  BY <1>1 DEF Ids, FilesShape
<1>3. Grows
  <2>1. \A i \in Ids : bytes[i] \in Nat
    BY DEF FilesShape
  <2>2. Len(evidence) \in Nat
    BY DEF FilesShape
  <2> QED
    BY <1>1, <1>2, <2>1, <2>2 DEF Grows
<1> QED
  BY <1>1, <1>2, <1>3 DEF presentationDigest, evidenceForStage

(* The world, and a decision: what was presented stays so.                  *)
LEMMA MoreIsTold ==
    ASSUME FilesShape, events' = events + 1, UNCHANGED <<evidence, bytes, seen>>
    PROVE  Grows
<1>1. Ids' = Ids /\ FilesShape'
  BY DEF Ids, FilesShape
<1>2. (\A i \in Ids : bytes[i] \in Nat) /\ Len(evidence) \in Nat
  BY DEF FilesShape
<1> QED
  BY <1>1, <1>2 DEF Grows

LEMMA RegisterGrows ==
    ASSUME GatePresentationAssumption, FilesShape, NEW item \in Registrable, Register(item)
    PROVE  Grows
<1>1. /\ evidence' = Append(evidence, item) /\ bytes' = Append(bytes, 0) /\ seen' = seen
      /\ events' = events + 1 /\ item \in Evidence
  BY DEF Register, Told, GatePresentationAssumption
<1>2. /\ evidence \in Seq(Evidence) /\ Len(evidence) \in Nat /\ Ids = 1 .. Len(evidence)
      /\ bytes \in [1 .. Len(evidence) -> Nat]
  BY IdsAreNumbers DEF FilesShape
<1>3. bytes \in Seq(Nat) /\ Len(bytes) = Len(evidence)
  <2>1. bytes \in Seq(Nat)
    BY <1>2
  <2> QED
    BY <1>2, <2>1, LenProperties
<1>4. /\ evidence' \in Seq(Evidence) /\ Len(evidence') = Len(evidence) + 1
      /\ \A i \in Ids : evidence'[i] = evidence[i]
  BY <1>1, <1>2
<1>5. Ids' = 1 .. Len(evidence) + 1
  BY <1>4, LenProperties DEF Ids
<1>6. /\ bytes' \in [1 .. Len(evidence) + 1 -> Nat]
      /\ \A i \in Ids : bytes'[i] = bytes[i]
  <2>1. bytes' \in Seq(Nat) /\ Len(bytes') = Len(evidence) + 1
    BY <1>1, <1>3
  <2>2. \A i \in Ids : bytes'[i] = bytes[i]
    BY <1>1, <1>2, <1>3
  <2> QED
    BY <2>1, <2>2, LenProperties, ElementOfSeq
<1>7. FilesShape'
  BY <1>1, <1>4, <1>5, <1>6 DEF FilesShape
<1>8. \A i \in Ids : i \in Ids' /\ bytes[i] <= bytes'[i]
  <2>1. \A i \in Ids : bytes[i] \in Nat
    BY <1>2
  <2> QED
    BY <1>2, <1>5, <1>6, <2>1
<1> QED
  BY <1>1, <1>2, <1>4, <1>7, <1>8 DEF Grows

LEMMA OverwriteGrows ==
    ASSUME FilesShape, NEW i \in Ids, Overwrite(i)
    PROVE  Grows
<1>1. bytes' = [bytes EXCEPT ![i] = bytes[i] + 1] /\ evidence' = evidence /\ seen' = seen
      /\ events' = events
  BY DEF Overwrite
<1>2. Ids' = Ids /\ Len(evidence) \in Nat /\ bytes \in [Ids -> Nat]
  BY <1>1 DEF Ids, FilesShape
<1>3. bytes' \in [Ids -> Nat] /\ \A j \in Ids : bytes[j] <= bytes'[j]
  BY <1>1, <1>2
<1> QED
  BY <1>1, <1>2, <1>3 DEF Grows, FilesShape

LEMMA ShowGrows ==
    ASSUME FilesShape, NEW s \in Sessions, NEW i \in Ids, Show(s, i)
    PROVE  Grows /\ <<i, bytes[i]>> \in seen'[s]
<1>1. /\ seen' = [seen EXCEPT ![s] = seen[s] \cup {<<i, bytes[i]>>}]
      /\ events' = events /\ evidence' = evidence /\ bytes' = bytes
  BY DEF Show, files
<1>2. Ids' = Ids /\ Len(evidence) \in Nat /\ bytes \in [Ids -> Nat] /\ i \in Nat
  BY <1>1, IdsAreNumbers DEF Ids, FilesShape
<1>3. seen' \in [Sessions -> SUBSET (Nat \X Nat)]
  BY <1>1, <1>2 DEF FilesShape
<1> QED
  BY <1>1, <1>2, <1>3 DEF Grows, FilesShape

(* Fetching asks for the images that are not acknowledged, of the digest    *)
(* that the gate has.                                                       *)
LEMMA FetchKeeps ==
    ASSUME PresentationInv, NEW s \in Sessions, NEW g \in Gates, Fetch(s, g)
    PROVE  PresentationInv'
<1> DEFINE d == presentationDigest(g)
           h == [gate |-> g, digest |-> d, todo |-> presentationHostActions(g, s), shown |-> {}]
<1>1. /\ host' = [host EXCEPT ![s] = h] /\ UNCHANGED <<files, seen>>
      /\ acks' = acks /\ pending' = pending /\ decided' = decided
  BY DEF Fetch
<1>2. FilesShape /\ TablesShape
  BY DEF PresentationInv, Shape
<1>3. Grows /\ FilesShape'
  BY <1>1, <1>2, FilesStand DEF Grows
<1>4. /\ d \in Digests /\ DOMAIN d.files \subseteq Ids /\ d # None
      /\ presentationHostActions(g, s) \subseteq DOMAIN d.files
      /\ presentationHostActions(g, s) \subseteq Nat
      /\ \A i \in DOMAIN d.files : d.files[i] = bytes[i]
  <2>1. presentationHostActions(g, s) \subseteq Required(g)
    BY DEF presentationHostActions
  <2>2. d.gate # "none"
    BY <1>2, DigestShape DEF Gates
  <2> QED
    BY <1>2, <2>1, <2>2, DigestShape, IdsAreNumbers DEF None
<1> HIDE DEF d
<1>5. h \in HostStates
  BY <1>4 DEF HostStates
<1>6. TablesShape'
  <2> HIDE DEF h
  <2> QED
    BY <1>1, <1>2, <1>5 DEF TablesShape
<1>7. AcksFit' /\ PendingFits'
  <2>1. \A w \in Writers : pending[w] # None => pending[w].session \in Sessions
    BY <1>2 DEF TablesShape, Records
  <2> QED
    BY <1>1, <1>3, <2>1, PresentsStands DEF PresentationInv, AcksFit, PendingFits
<1>8. HostFits'
  <2> SUFFICES ASSUME NEW u \in Sessions PROVE HostFit(u)'
    BY DEF HostFits
  <2>1. CASE u = s
    <3>1. host'[u] = h
      <4> HIDE DEF h
      <4> QED
        BY <1>1, <1>2, <2>1 DEF TablesShape
    <3>2. /\ host'[u].digest = d /\ host'[u].shown = {}
          /\ host'[u].todo = presentationHostActions(g, s)
      BY <3>1
    <3>3. \A i \in Ids : i \in Ids' /\ bytes[i] <= bytes'[i]
      BY <1>3 DEF Grows
    <3> QED
      BY <1>4, <3>2, <3>3 DEF HostFit
  <2>2. CASE u # s
    <3>1. host'[u] = host[u]
      <4> HIDE DEF h
      <4> QED
        BY <1>1, <1>2, <2>2 DEF TablesShape
    <3> QED
      BY <1>2, <1>3, <3>1, HostStands DEF PresentationInv, HostFits
  <2> QED
    BY <2>1, <2>2
<1> QED
  BY <1>1, <1>3, <1>6, <1>7, <1>8 DEF PresentationInv, Shape

LEMMA ShowKeeps ==
    ASSUME PresentationInv, NEW s \in Sessions, NEW i \in Ids, Show(s, i)
    PROVE  PresentationInv'
<1>1. /\ i \in host[s].todo /\ host' = [host EXCEPT ![s].shown = host[s].shown \cup {i}]
      /\ acks' = acks /\ pending' = pending /\ decided' = decided
  BY DEF Show
<1>2. FilesShape /\ TablesShape /\ host[s] \in HostStates
  BY DEF PresentationInv, Shape, TablesShape
<1>3. Grows /\ FilesShape' /\ <<i, bytes[i]>> \in seen'[s] /\ bytes' = bytes
  BY <1>2, ShowGrows DEF Grows, Show, files
<1>4. /\ host'[s] \in HostStates /\ host'[s].digest = host[s].digest
      /\ host'[s].todo = host[s].todo /\ host'[s].shown = host[s].shown \cup {i}
      /\ \A u \in Sessions \ {s} : host'[u] = host[u]
  <2>1. i \in Nat
    BY <1>2, IdsAreNumbers
  <2> QED
    BY <1>1, <1>2, <2>1 DEF TablesShape, HostStates
<1>5. TablesShape'
  BY <1>1, <1>2, <1>4 DEF TablesShape
<1>6. AcksFit' /\ PendingFits'
  <2>1. \A w \in Writers : pending[w] # None => pending[w].session \in Sessions
    BY <1>2 DEF TablesShape, Records
  <2> QED
    BY <1>1, <1>3, <2>1, PresentsStands DEF PresentationInv, AcksFit, PendingFits
<1>7. HostFits'
  <2> SUFFICES ASSUME NEW u \in Sessions PROVE HostFit(u)'
    BY DEF HostFits
  <2>1. CASE u # s
    BY <1>2, <1>3, <1>4, <2>1, HostStands DEF PresentationInv, HostFits
  <2>2. CASE u = s
    <3>1. /\ host[s].digest # None /\ i \in DOMAIN host[s].digest.files
          /\ DOMAIN host[s].digest.files \subseteq Ids
          /\ \A j \in DOMAIN host[s].digest.files : host[s].digest.files[j] <= bytes[j]
          /\ host[s].todo \cup host[s].shown \subseteq DOMAIN host[s].digest.files
          /\ \A j \in host[s].shown : Since(s, j)
      BY <1>1 DEF PresentationInv, HostFits, HostFit
    <3>2. \A j \in Ids : j \in Ids' /\ bytes[j] = bytes'[j]
      BY <1>3 DEF Grows
    <3>3. \A j \in host[s].shown : Since(s, j)'
      BY <1>2, <1>3, <1>4, <3>1, SinceStands
    <3>4. Since(s, i)'
      <4>1. bytes[i] \in Nat
        BY <1>2 DEF FilesShape
      <4>2. host[s].digest.files[i] <= bytes[i] /\ bytes[i] <= bytes'[i]
        BY <1>3, <3>1, <4>1
      <4> QED
        BY <1>3, <1>4, <4>1, <4>2 DEF Since
    <3> QED
      BY <1>4, <2>2, <3>1, <3>2, <3>3, <3>4 DEF HostFit
  <2> QED
    BY <2>1, <2>2
<1> QED
  BY <1>1, <1>3, <1>5, <1>6, <1>7 DEF PresentationInv, Shape

(* What counts as acknowledged was presented: stored for this digest, or    *)
(* nothing was.                                                             *)
LEMMA AcknowledgedPresents ==
    ASSUME PresentationInv, NEW g \in Gates, NEW s \in Sessions
    PROVE  /\ Acknowledged(g, s) \in Reports
           /\ Presents(presentationDigest(g), Acknowledged(g, s), s)
<1>1. Shape /\ FilesShape /\ AcksFit
  BY DEF PresentationInv, Shape
<1>2. /\ DOMAIN presentationDigest(g).files \subseteq Ids
      /\ Required(g) = {i \in DOMAIN presentationDigest(g).files : evidence[i].kind \in Images}
      /\ presentationDigest(g).gate = g
  BY <1>1, DigestShape
<1>3. CASE /\ acks[g][s] \in Stored /\ acks[g][s].digest = presentationDigest(g)
           /\ Acknowledged(g, s) = acks[g][s].outcome
  <2>1. acks[g][s] # NoAcks
    BY <1>2, <1>3 DEF NoAcks, None, Gates
  <2>2. Presents(acks[g][s].digest, acks[g][s].outcome, s)
    BY <1>1, <2>1 DEF AcksFit
  <2> QED
    BY <1>3, <2>2 DEF Stored
<1>4. CASE Acknowledged(g, s) = [i \in Required(g) |-> "pending"]
  <2>1. Required(g) \in SUBSET Nat
    BY <1>1, <1>2, IdsAreNumbers
  <2>2. [i \in Required(g) |-> "pending"] \in [Required(g) -> Outcomes]
    BY DEF Outcomes
  <2> QED
    BY <1>2, <1>4, <2>1, <2>2 DEF Presents, Reports
<1> QED
  BY <1>1, <1>3, <1>4, AcknowledgedShape

(* What a decision needs: nothing of the gate is unseen.                    *)
LEMMA ReadyIsSeen ==
    ASSUME PresentationInv, NEW g \in Gates, NEW s \in Sessions,
           assertGatePresentationReady(g, s)
    PROVE  Unseen(g, s) = {}
<1>1. /\ Required(g) \subseteq evidenceForStage(g)
      /\ DOMAIN presentationDigest(g).files = evidenceForStage(g)
      /\ \A i \in evidenceForStage(g) : presentationDigest(g).files[i] = bytes[i]
      /\ Required(g) = {i \in evidenceForStage(g) : evidence[i].kind \in Images}
  BY DigestShape DEF PresentationInv, Shape
<1>2. Presents(presentationDigest(g), Acknowledged(g, s), s)
  BY AcknowledgedPresents
<1>3. \A i \in Required(g) : Acknowledged(g, s)[i] = "presented"
  BY DEF assertGatePresentationReady, approvalReady
<1>4. ASSUME NEW i \in Required(g) PROVE <<i, bytes[i]>> \in seen[s]
  BY <1>1, <1>2, <1>3, <1>4 DEF Presents
<1> QED
  BY <1>4 DEF Unseen

LEMMA RecordReadKeeps ==
    ASSUME PresentationInv, NEW w \in Writers, NEW s \in Sessions, NEW i \in Ids,
           NEW o \in Outcomes \ {"pending"}, RecordRead(w, s, i, o)
    PROVE  PresentationInv'
<1>0. PICK g : g = host[s].gate
  OBVIOUS
<1>1. PICK d : d = presentationDigest(g)
  OBVIOUS
<1>2. PICK out : out = [Acknowledged(g, s) EXCEPT ![i] = o]
  OBVIOUS
<1>3. /\ i \in host[s].todo /\ host[s].digest = d
      /\ o = "presented" => i \in host[s].shown
      /\ pending' = [pending EXCEPT ![w] =
                        [gate |-> g, session |-> s, digest |-> d, outcome |-> out]]
      /\ host' = [host EXCEPT ![s].todo = host[s].todo \ {i}]
      /\ UNCHANGED <<files, seen, acks, decided>>
  BY <1>0, <1>1, <1>2 DEF RecordRead
<1>4. /\ FilesShape /\ TablesShape /\ host[s] \in HostStates /\ AcksFit /\ PendingFits
      /\ HostFit(s) /\ HostFits
  BY DEF PresentationInv, Shape, TablesShape, HostFits
<1>5. d \in Digests /\ g \in Gates
  <2>1. host[s].digest # None
    BY <1>3, <1>4 DEF HostFit
  <2>2. d \in Digests
    BY <1>3, <1>4, <2>1 DEF HostStates
  <2>3. d.gate = g
    BY <1>1 DEF presentationDigest
  <2> QED
    BY <2>2, <2>3 DEF Digests
<1>6. Grows /\ FilesShape'
  BY <1>3, <1>4, FilesStand DEF Grows
<1>7. out \in Reports /\ Presents(d, out, s)
  <2>1. Acknowledged(g, s) \in Reports /\ Presents(d, Acknowledged(g, s), s)
    BY <1>1, <1>5, AcknowledgedPresents
  <2>2. o = "presented" => <<i, d.files[i]>> \in seen[s]
    <3> SUFFICES ASSUME o = "presented" PROVE <<i, d.files[i]>> \in seen[s]
      OBVIOUS
    <3>1. i \in DOMAIN d.files /\ Since(s, i)
      BY <1>3, <1>4 DEF HostFit
    <3>2. d.files[i] = bytes[i]
      BY <1>1, <1>4, <1>5, <3>1, DigestShape
    <3>3. PICK v \in Nat : <<i, v>> \in seen[s] /\ d.files[i] <= v /\ v <= bytes[i]
      BY <1>3, <3>1 DEF Since
    <3>4. bytes[i] \in Nat
      BY <1>4 DEF FilesShape
    <3>5. v = d.files[i]
      BY <3>2, <3>3, <3>4
    <3> QED
      BY <3>3, <3>5
  <2>3. PICK I \in SUBSET Nat : Acknowledged(g, s) \in [I -> Outcomes]
    BY <2>1 DEF Reports
  <2>4. out \in [I -> Outcomes]
    BY <1>2, <2>3
  <2>5. out \in Reports
    BY <2>4 DEF Reports
  <2>6. DOMAIN out = DOMAIN Acknowledged(g, s)
    BY <2>3, <2>4
  <2>7. ASSUME NEW j \in DOMAIN out, out[j] = "presented" PROVE <<j, d.files[j]>> \in seen[s]
    <3>1. CASE j = i
      <4>1. out[j] = o
        BY <1>2, <2>3, <2>4, <2>7, <3>1
      <4> QED
        BY <2>2, <2>7, <3>1, <4>1
    <3>2. CASE j # i
      <4>1. out[j] = Acknowledged(g, s)[j]
        BY <1>2, <2>3, <2>4, <2>7, <3>2
      <4> QED
        BY <2>1, <2>6, <2>7, <4>1 DEF Presents
    <3> QED
      BY <3>1, <3>2
  <2> QED
    BY <2>1, <2>5, <2>6, <2>7 DEF Presents
<1>8. PICK r : r = [gate |-> g, session |-> s, digest |-> d, outcome |-> out]
  OBVIOUS
<1>9. r \in Records /\ r.session = s /\ r.digest = d /\ r.outcome = out
  BY <1>5, <1>7, <1>8 DEF Records
<1>10. pending' = [pending EXCEPT ![w] = r]
  BY <1>3, <1>8
<1>11. /\ host'[s] \in HostStates /\ host'[s].digest = host[s].digest
       /\ host'[s].todo \subseteq host[s].todo /\ host'[s].shown = host[s].shown
       /\ \A u \in Sessions \ {s} : host'[u] = host[u]
  BY <1>3, <1>4 DEF TablesShape, HostStates
<1>12. TablesShape'
  <2>1. host' \in [Sessions -> HostStates]
    BY <1>3, <1>4, <1>11 DEF TablesShape
  <2>2. pending' \in [Writers -> Records \cup {None}]
    BY <1>4, <1>9, <1>10 DEF TablesShape
  <2> QED
    BY <1>3, <1>4, <2>1, <2>2 DEF TablesShape
<1>13. AcksFit'
  BY <1>3, <1>4, <1>6, PresentsStands DEF AcksFit
<1>14. PendingFits'
  <2> SUFFICES ASSUME NEW x \in Writers, pending'[x] # None
               PROVE Presents(pending[x].digest, pending[x].outcome, pending[x].session)'
    BY DEF PendingFits
  <2>1. CASE x = w
    <3>1. pending'[x] = r
      BY <1>4, <1>10, <2>1 DEF TablesShape
    <3>2. Presents(d, out, s)'
      BY <1>6, <1>7, PresentsStands
    <3> QED
      BY <1>9, <3>1, <3>2
  <2>2. CASE x # w
    <3>1. pending'[x] = pending[x]
      BY <1>4, <1>10, <2>2 DEF TablesShape
    <3>2. PICK q : q = pending[x]
      OBVIOUS
    <3>3. q \in Records
      BY <1>4, <3>1, <3>2 DEF TablesShape
    <3>4. q.session \in Sessions
      BY <3>3 DEF Records
    <3>5. Presents(q.digest, q.outcome, q.session)
      BY <1>4, <3>1, <3>2 DEF PendingFits
    <3>6. Presents(q.digest, q.outcome, q.session)'
      BY <1>6, <3>4, <3>5, PresentsStands
    <3> QED
      BY <3>1, <3>2, <3>6
  <2> QED
    BY <2>1, <2>2
<1>15. HostFits'
  <2> SUFFICES ASSUME NEW u \in Sessions PROVE HostFit(u)'
    BY DEF HostFits
  <2>1. CASE u # s
    BY <1>4, <1>6, <1>11, <2>1, HostStands DEF HostFits
  <2>2. CASE u = s
    <3>1. /\ host[s].digest # None
          /\ DOMAIN host[s].digest.files \subseteq Ids
          /\ \A j \in DOMAIN host[s].digest.files : host[s].digest.files[j] <= bytes[j]
          /\ host[s].todo \cup host[s].shown \subseteq DOMAIN host[s].digest.files
          /\ \A j \in host[s].shown : Since(s, j)
      BY <1>3, <1>4 DEF HostFit
    <3>2. \A j \in Ids : j \in Ids' /\ bytes[j] = bytes'[j]
      BY <1>3, <1>6 DEF Grows, files
    <3>3. \A j \in host[s].shown : Since(s, j)'
      BY <1>4, <1>6, <1>11, <3>1, SinceStands
    <3> QED
      BY <1>11, <2>2, <3>1, <3>2, <3>3 DEF HostFit
  <2> QED
    BY <2>1, <2>2
<1> QED
  BY <1>3, <1>6, <1>12, <1>13, <1>14, <1>15 DEF PresentationInv, Shape

LEMMA RecordWriteKeeps ==
    ASSUME PresentationInv, NEW w \in Writers, RecordWrite(w)
    PROVE  PresentationInv'
<1>1. PICK r : r = pending[w]
  OBVIOUS
<1>2. PICK stored : stored = [digest |-> r.digest, outcome |-> r.outcome]
  OBVIOUS
<1>3. /\ r # None /\ acks' = [acks EXCEPT ![r.gate][r.session] = stored]
      /\ pending' = [pending EXCEPT ![w] = None]
      /\ UNCHANGED <<files, seen, host, decided>>
  BY <1>1, <1>2 DEF RecordWrite
<1>4. FilesShape /\ TablesShape /\ AcksFit /\ PendingFits /\ HostFits
  BY DEF PresentationInv, Shape
<1>5. r \in Records
  BY <1>1, <1>3, <1>4 DEF TablesShape
<1>6. Presents(r.digest, r.outcome, r.session)
  BY <1>1, <1>3, <1>4 DEF PendingFits
<1>7. r.gate \in Gates /\ r.session \in Sessions /\ stored \in Stored
      /\ stored.digest = r.digest /\ stored.outcome = r.outcome
  BY <1>2, <1>5 DEF Records, Stored
<1>8. Grows /\ FilesShape'
  BY <1>3, <1>4, FilesStand DEF Grows
<1>9. /\ acks' \in [Gates -> [Sessions -> Stored \cup {NoAcks}]]
      /\ acks'[r.gate][r.session] = stored
      /\ \A g \in Gates, s \in Sessions :
            g # r.gate \/ s # r.session => acks'[g][s] = acks[g][s]
  BY <1>3, <1>4, <1>7 DEF TablesShape
<1>10. TablesShape'
  BY <1>3, <1>4, <1>9 DEF TablesShape
<1>11. AcksFit'
  <2> SUFFICES ASSUME NEW g \in Gates, NEW s \in Sessions, acks'[g][s] # NoAcks
               PROVE Presents(acks[g][s].digest, acks[g][s].outcome, s)'
    BY DEF AcksFit
  <2>1. CASE g = r.gate /\ s = r.session
    <3>1. Presents(r.digest, r.outcome, r.session)'
      BY <1>6, <1>7, <1>8, PresentsStands
    <3> QED
      BY <1>7, <1>9, <2>1, <3>1
  <2>2. CASE g # r.gate \/ s # r.session
    <3>1. acks'[g][s] = acks[g][s]
      BY <1>9, <2>2
    <3>2. PICK a : a = acks[g][s]
      OBVIOUS
    <3>3. Presents(a.digest, a.outcome, s)
      BY <1>4, <3>1, <3>2 DEF AcksFit
    <3>4. Presents(a.digest, a.outcome, s)'
      BY <1>8, <3>3, PresentsStands
    <3> QED
      BY <3>1, <3>2, <3>4
  <2> QED
    BY <2>1, <2>2
<1>12. PendingFits'
  <2>1. \A x \in Writers : pending'[x] # None => pending'[x] = pending[x]
    BY <1>3, <1>4 DEF TablesShape
  <2>2. \A x \in Writers : pending[x] # None => pending[x].session \in Sessions
    BY <1>4 DEF TablesShape, Records
  <2> QED
    BY <1>4, <1>8, <2>1, <2>2, PresentsStands DEF PendingFits
<1>13. HostFits'
  BY <1>3, <1>4, <1>8, HostStands DEF HostFits
<1> QED
  BY <1>3, <1>8, <1>10, <1>11, <1>12, <1>13 DEF PresentationInv, Shape

(* Every decision builds the presentation it needs, and is taken in a       *)
(* conversation that has seen it.                                           *)
LEMMA DecisionKeeps ==
    ASSUME PresentationInv, NEW s \in Sessions, NEW g \in Gates, NEW to,
           assertGatePresentationReady(g, s), Decision(s, g, to)
    PROVE  PresentationInv'
<1>1. Unseen(g, s) = {}
  BY ReadyIsSeen
<1>2. /\ decided'.unseen = {} /\ events' = events + 1
      /\ UNCHANGED <<evidence, bytes, seen, acks, pending, host>>
  BY <1>1 DEF Decision, Told
<1>3. Grows
  BY <1>2, MoreIsTold DEF PresentationInv, Shape
<1> QED
  BY <1>2, <1>3, TablesStand

LEMMA UserDecidesKeeps ==
    ASSUME PresentationInv, NEW s \in Sessions, UserDecides(s)
    PROVE  PresentationInv'
<1>1. "spec-approval" \in Gates /\ "final-approval" \in Gates
  BY DEF Gates
<1>2. CASE approveSpecification(s) \/ requestSpecChanges(s)
  BY <1>1, <1>2, DecisionKeeps DEF approveSpecification, requestSpecChanges
<1>3. CASE AmendmentDecision(s)
  BY <1>1, <1>3, DecisionKeeps DEF AmendmentDecision
<1>4. CASE approveFinal(s) \/ startIncrementalRevision(s) \/ rejectFinal(s)
  BY <1>1, <1>4, DecisionKeeps DEF approveFinal, startIncrementalRevision, rejectFinal
<1>5. CASE rejectTask(s)
  <2>1. CASE /\ phase = "spec-approval" /\ assertGatePresentationReady("spec-approval", s)
             /\ Decision(s, "spec-approval", "rejected") /\ UNCHANGED amended
    BY <1>1, <2>1, DecisionKeeps
  <2>2. CASE UNCHANGED <<files, seen, acks, pending, host, decided>>
    BY <2>2, FilesStand, TablesStand DEF PresentationInv, Shape
  <2> QED
    BY <1>5, <2>1, <2>2 DEF rejectTask
<1> QED
  BY <1>2, <1>3, <1>4, <1>5 DEF UserDecides

(* The steps that touch neither table nor host.                             *)
LEMMA OthersKeep ==
    ASSUME GatePresentationAssumption, PresentationInv,
           \/ \E s \in Sessions, g \in Gates : Refused(s, g)
           \/ \E item \in Registrable : Register(item)
           \/ \E i \in Ids : Overwrite(i)
           \/ Event
           \/ approveFinalUnseen
           \/ \E s \in Sessions, a \in BOOLEAN : recordVisualizationCapability(s, a)
           \/ \E s \in Sessions, g \in Gates, o \in {"rendered", "fallback"} :
                 recordVisualizationRun(s, g, o)
    PROVE  PresentationInv'
<1>1. FilesShape /\ decided.unseen = {}
  BY DEF PresentationInv, Shape
<1>2. ASSUME NEW item \in Registrable, Register(item) PROVE PresentationInv'
  <2>1. Grows
    BY <1>1, <1>2, RegisterGrows
  <2> QED
    BY <1>1, <1>2, <2>1, TablesStand DEF Register
<1>3. ASSUME NEW i \in Ids, Overwrite(i) PROVE PresentationInv'
  <2>1. Grows
    BY <1>1, <1>3, OverwriteGrows
  <2> QED
    BY <1>1, <1>3, <2>1, TablesStand DEF Overwrite
<1>4. CASE Event \/ approveFinalUnseen
  <2>1. /\ events' = events + 1 /\ UNCHANGED <<evidence, bytes, seen>>
        /\ UNCHANGED <<acks, pending, host, decided>>
    BY <1>4 DEF Event, approveFinalUnseen, Told
  <2> QED
    BY <1>1, <2>1, MoreIsTold, TablesStand
<1>5. ASSUME UNCHANGED <<files, seen, acks, pending, host, decided>> PROVE PresentationInv'
  BY <1>1, <1>5, FilesStand, TablesStand
<1>6. ASSUME NEW s \in Sessions, NEW g \in Gates, Refused(s, g) PROVE PresentationInv'
  BY <1>5, <1>6 DEF Refused
<1>7. ASSUME NEW s \in Sessions, NEW a \in BOOLEAN, recordVisualizationCapability(s, a)
      PROVE PresentationInv'
  BY <1>5, <1>7 DEF recordVisualizationCapability
<1>8. ASSUME NEW s \in Sessions, NEW g \in Gates, NEW o \in {"rendered", "fallback"},
             recordVisualizationRun(s, g, o)
      PROVE PresentationInv'
  BY <1>5, <1>8 DEF recordVisualizationRun
<1> QED
  BY <1>2, <1>3, <1>4, <1>6, <1>7, <1>8

LEMMA PresentationKept ==
    ASSUME GatePresentationAssumption, PresentationInv, [Next]_vars
    PROVE  PresentationInv'
<1>1. ASSUME NEW s \in Sessions, NEW g \in Gates, Fetch(s, g) PROVE PresentationInv'
  BY <1>1, FetchKeeps
<1>2. ASSUME NEW s \in Sessions, NEW i \in Ids, Show(s, i) PROVE PresentationInv'
  BY <1>2, ShowKeeps
<1>3. CASE recordPresentationAction
  BY <1>3, RecordReadKeeps, RecordWriteKeeps DEF recordPresentationAction
<1>4. ASSUME NEW s \in Sessions, UserDecides(s) PROVE PresentationInv'
  BY <1>4, UserDecidesKeeps
<1>5. CASE UNCHANGED vars
  BY <1>5, FilesStand, TablesStand DEF PresentationInv, Shape, vars
<1> QED
  BY <1>1, <1>2, <1>3, <1>4, <1>5, OthersKeep DEF Next

(* A decision of the user at a visual gate is only taken when every image   *)
(* the gate requires was shown in that chat with the content it has then,   *)
(* whatever is recorded side by side, registered or overwritten in between  *)
(* (presentation-state.ts:77-105, workflow.ts:43-49).                       *)
THEOREM DecisionSafety ==
    ASSUME GatePresentationAssumption
    PROVE  Spec => []ApprovedIsSeen
<1>1. Init => PresentationInv
  BY PresentationBegins
<1>2. PresentationInv /\ [Next]_vars => PresentationInv'
  BY PresentationKept
<1>3. PresentationInv => ApprovedIsSeen
  BY DEF PresentationInv, ApprovedIsSeen
<1> QED
  BY <1>1, <1>2, <1>3, PTL DEF Spec

-----------------------------------------------------------------------------
(* Visualization: a plan gives the content of every image it requires.      *)
PlanFits ==
    /\ DOMAIN plan = Gates /\ DOMAIN run = Gates
    /\ \A g \in Gates :
          /\ DOMAIN plan[g] = Sessions /\ DOMAIN run[g] = Sessions
          /\ \A s \in Sessions : plan[g][s].required \subseteq DOMAIN plan[g][s].sources

LEMMA PlansBegin == ASSUME Init PROVE PlanFits
BY DEF Init, PlanFits, NoPlan

LEMMA NewPlanFits ==
    ASSUME NEW g \in Gates, NEW fetched
    PROVE  newPlan(g, fetched).required \subseteq DOMAIN newPlan(g, fetched).sources
BY DEF newPlan, visualization, presentationDigest, Required

LEMMA BuildKeepsPlans ==
    ASSUME PlanFits, NEW g \in Gates, NEW s \in Sessions, NEW fetched, build(g, s, fetched),
           run' = run
    PROVE  PlanFits'
<1>1. PICK p : p = newPlan(g, fetched)
  OBVIOUS
<1>2. p.required \subseteq DOMAIN p.sources
  BY <1>1, NewPlanFits
<1>3. plan' = [plan EXCEPT ![g][s] = p] \/ plan' = plan
  BY <1>1 DEF build
<1> QED
  BY <1>2, <1>3 DEF PlanFits

(* A run is recorded of a plan that stands, and embeds what it gives.       *)
LEMMA RunShowsPlan ==
    ASSUME PlanFits, NEW s \in Sessions, NEW g \in Gates, NEW o,
           recordVisualizationRun(s, g, o)
    PROVE  PlanFits' /\ RendersCurrent
<1>1. PICK r : r = [gate |-> g, outcome |-> o,
                    displayed |-> IF o = "rendered" THEN Embedded(plan[g][s]) ELSE {}]
  OBVIOUS
<1>2. /\ run' = [run EXCEPT ![g][s] = r] /\ plan' = plan
      /\ SourcesStand(g, plan[g][s])
  BY <1>1 DEF recordVisualizationRun
<1>3. PlanFits'
  BY <1>2 DEF PlanFits
<1>4. /\ run'[g][s] = r
      /\ \A h \in Gates, u \in Sessions : h # g \/ u # s => run'[h][u] = run[h][u]
  BY <1>2 DEF PlanFits
<1>5. ASSUME r.outcome = "rendered", NEW i \in plan[g][s].required
      PROVE <<i, bytes[i]>> \in r.displayed
  <2>1. i \in DOMAIN plan[g][s].sources
    BY <1>5 DEF PlanFits
  <2>2. bytes[i] = plan[g][s].sources[i]
    BY <1>2, <2>1 DEF SourcesStand
  <2>3. r.displayed = Embedded(plan[g][s])
    BY <1>1, <1>5
  <2> QED
    BY <1>5, <2>2, <2>3 DEF Embedded
<1> QED
  BY <1>3, <1>4, <1>5 DEF RendersCurrent

LEMMA PlansKept ==
    ASSUME PlanFits, [Next]_vars
    PROVE  PlanFits' /\ RendersCurrent
<1>1. ASSUME PlanFits', run' = run PROVE PlanFits' /\ RendersCurrent
  BY <1>1 DEF RendersCurrent
<1>2. ASSUME plan' = plan, run' = run PROVE PlanFits' /\ RendersCurrent
  BY <1>1, <1>2 DEF PlanFits
<1>3. ASSUME NEW s \in Sessions, NEW g \in Gates, Fetch(s, g) \/ Refused(s, g)
      PROVE PlanFits' /\ RendersCurrent
  BY <1>1, <1>3, BuildKeepsPlans DEF Fetch, Refused
<1>4. ASSUME NEW w \in Writers, NEW s \in Sessions, NEW i \in Ids, NEW o, RecordRead(w, s, i, o)
      PROVE PlanFits' /\ RendersCurrent
  <2>1. build(host[s].gate, s, FALSE) /\ run' = run
    BY <1>4 DEF RecordRead
  <2>2. CASE host[s].gate \in Gates
    BY <1>1, <2>1, <2>2, BuildKeepsPlans
  <2>3. CASE host[s].gate \notin Gates
    <3>1. plan' = plan \/ plan' = [plan EXCEPT ![host[s].gate][s] = newPlan(host[s].gate, FALSE)]
      BY <2>1 DEF build
    <3>2. DOMAIN plan = Gates
      BY DEF PlanFits
    <3>3. \A h \in Gates : DOMAIN plan' = Gates /\ plan'[h] = plan[h]
      BY <2>3, <3>1, <3>2
    <3>4. PlanFits'
      BY <2>1, <3>2, <3>3 DEF PlanFits, Gates
    <3> QED
      BY <1>1, <2>1, <3>4
  <2> QED
    BY <2>2, <2>3
<1>5. ASSUME NEW s \in Sessions, NEW g \in Gates, NEW to, Decision(s, g, to)
      PROVE PlanFits' /\ RendersCurrent
  BY <1>1, <1>5, BuildKeepsPlans DEF Decision
<1>6. ASSUME NEW s \in Sessions, UserDecides(s) PROVE PlanFits' /\ RendersCurrent
  <2>1. "spec-approval" \in Gates /\ "final-approval" \in Gates
    BY DEF Gates
  <2>2. CASE \E g \in Gates, to \in Phases \cup {phase} : Decision(s, g, to)
    BY <1>5, <2>2
  <2>3. CASE plan' = plan /\ run' = run
    BY <1>2, <2>3
  <2> QED
    BY <1>6, <2>1, <2>2, <2>3
    DEF UserDecides, approveSpecification, requestSpecChanges, rejectTask, AmendmentDecision,
        approveFinal, startIncrementalRevision, rejectFinal, Phases
<1>7. ASSUME NEW s \in Sessions, NEW g \in Gates, NEW o, recordVisualizationRun(s, g, o)
      PROVE PlanFits' /\ RendersCurrent
  BY <1>7, RunShowsPlan
<1>8. ASSUME \/ \E s \in Sessions, i \in Ids : Show(s, i)
             \/ \E w \in Writers : RecordWrite(w)
             \/ \E item \in Registrable : Register(item)
             \/ \E i \in Ids : Overwrite(i)
             \/ Event \/ approveFinalUnseen
             \/ \E s \in Sessions, a \in BOOLEAN : recordVisualizationCapability(s, a)
             \/ UNCHANGED vars
      PROVE plan' = plan /\ run' = run
  BY <1>8 DEF Show, RecordWrite, Register, Overwrite, Event, approveFinalUnseen,
              recordVisualizationCapability, vars
<1> QED
  BY <1>2, <1>3, <1>4, <1>6, <1>7, <1>8 DEF Next, recordPresentationAction

(* A visualization that is recorded as rendered shows each image its plan   *)
(* requires with the content of the file at that moment                     *)
(* (capabilities.ts:276-365).                                               *)
THEOREM RenderSafety == Spec => RenderedIsCurrent
<1>1. Init => PlanFits
  BY PlansBegin
<1>2. PlanFits /\ [Next]_vars => PlanFits' /\ [RendersCurrent]_vars
  BY PlansKept
<1> QED
  BY <1>1, <1>2, PTL DEF Spec, RenderedIsCurrent

=============================================================================
