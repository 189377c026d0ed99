------------------------ MODULE ModelLifecycleProofs -------------------------
(***************************************************************************)
(* Theorems about ModelLifecycle: whatever the owner uploads, interrupts   *)
(* and repeats, the model in memory is complete, is the one that its       *)
(* manifest describes, and is the active one.                              *)
(***************************************************************************)
EXTENDS ModelLifecycle, TLAPS

\* What was received is in stable memory.
ReceivedIsStored ==
    upload # None => 0..(upload.received - 1) \subseteq DOMAIN blob

\* The first upload ends the synthetic fixture for good.
UploadEndsFixture == upload # None => ~fixture

\* A model in memory, or on the way there, was uploaded.
InMemoryIsUploaded == builder # None \/ model # None => upload # None

\* The tensors that the builder holds are those that its manifest lists first.
BuilderIsIntact ==
    builder # None =>
      LET p == builder.pack IN
      /\ Len(builder.tensors) < Tensors(p) /\ tokenizer = CellOf(p, Tensors(p))
      /\ \A i \in 0..(Len(builder.tensors) - 1) : builder.tensors[i + 1] = CellOf(p, i)

UploadInv == ReceivedIsStored /\ UploadEndsFixture

MemoryInv ==
    /\ InMemoryIsUploaded /\ BuilderIsIntact
    /\ HotModelIsActive /\ ModelIsIntact /\ OneModelInMemory

LifecycleInv == LifecycleTypeOK /\ UploadInv /\ MemoryInv
-----------------------------------------------------------------------------
\* The cells of a pack, its tokenizer and its tensors are where Total says.
LEMMA PackShape ==
    ASSUME NEW p \in Pack
    PROVE  /\ Total(p) \in Nat /\ Total(p) >= 2 /\ Tensors(p) \in Nat /\ Tensors(p) >= 1
           /\ \A i \in 0..Tensors(p) : CellOf(p, i) \in Cell
  <1>1. Content[p] \in Seq(Cell) /\ Len(Content[p]) >= 2
    BY PackAssumption
  <1>2. Len(Content[p]) \in Nat /\ \A i \in 1..Len(Content[p]) : Content[p][i] \in Cell
    BY <1>1
  <1> QED  BY <1>1, <1>2 DEF Total, Tensors, CellOf

\* A canister without an upload has no model and no builder.
LEMMA LifecycleInitHolds == LifecycleInit => LifecycleInv
  <1> SUFFICES ASSUME LifecycleInit PROVE LifecycleInv
    OBVIOUS
  <1>1. LifecycleTypeOK
    <2>1. DOMAIN blob = {}  BY DEF LifecycleInit
    <2> QED  BY <2>1 DEF LifecycleInit, LifecycleTypeOK
  <1>2. UploadInv  BY DEF LifecycleInit, UploadInv, ReceivedIsStored, UploadEndsFixture
  <1>3. MemoryInv
    BY DEF LifecycleInit, MemoryInv, InMemoryIsUploaded, BuilderIsIntact,
           HotModelIsActive, ModelIsIntact, OneModelInMemory
  <1> QED  BY <1>1, <1>2, <1>3 DEF LifecycleInv
-----------------------------------------------------------------------------
\* An empty heap satisfies everything that is said about the heap.
LEMMA EmptyHeap ==
    ASSUME builder' = None, model' = None
    PROVE  MemoryInv'
  BY DEF MemoryInv, InMemoryIsUploaded, BuilderIsIntact, HotModelIsActive,
         ModelIsIntact, OneModelInMemory

\* Enabling the fixture is possible only while nothing was ever uploaded.
LEMMA FixtureKeeps ==
    ASSUME LifecycleInv, EnableSyntheticFixture
    PROVE  LifecycleInv'
  <1> USE DEF EnableSyntheticFixture, heap
  <1>1. LifecycleTypeOK'  BY DEF LifecycleInv, LifecycleTypeOK
  <1>2. UploadInv'  BY DEF UploadInv, ReceivedIsStored, UploadEndsFixture
  <1>3. builder' = None /\ model' = None
    BY DEF LifecycleInv, MemoryInv, InMemoryIsUploaded
  <1> QED  BY <1>1, <1>2, <1>3, EmptyHeap DEF LifecycleInv

\* A new upload begins with an empty heap.
LEMMA BeginKeeps ==
    ASSUME LifecycleInv, NEW p \in Pack, BeginUpload(p)
    PROVE  LifecycleInv'
  <1> USE DEF BeginUpload, Cleared
  <1>1. LifecycleTypeOK'
    <2>1. upload' \in [pack : Pack, received : Nat] /\ upload'.received <= Total(upload'.pack)
      BY PackShape
    <2> QED  BY <2>1 DEF LifecycleInv, LifecycleTypeOK
  <1>2. UploadInv'
    <2>1. upload'.received = 0 /\ fixture' = FALSE  OBVIOUS
    <2> QED  BY <2>1 DEF UploadInv, ReceivedIsStored, UploadEndsFixture
  <1> QED  BY <1>1, <1>2, EmptyHeap DEF LifecycleInv

\* A chunk extends what was received, and leaves what is in the heap.
LEMMA ChunkKeeps ==
    ASSUME LifecycleInv, NEW offset \in Nat, NEW chunk \in Seq(Cell), UploadChunk(offset, chunk)
    PROVE  /\ LifecycleInv'
           /\ upload'.pack = upload.pack /\ upload'.received >= upload.received
           /\ \A i \in 0..(upload.received - 1) : blob'[i] = blob[i]
  <1> DEFINE end == offset + Len(chunk)
  <1>1. /\ offset \in Nat /\ Len(chunk) \in Nat /\ end \in Nat
        /\ \A i \in 1..Len(chunk) : chunk[i] \in Cell
    OBVIOUS
  <1>2. /\ upload # None /\ upload \in [pack : Pack, received : Nat]
        /\ offset = upload.received /\ end <= Total(upload.pack)
    BY DEF UploadChunk, Appends, Fits, LifecycleInv, LifecycleTypeOK
  <1>3. upload' = [pack |-> upload.pack, received |-> end]
    BY <1>2 DEF UploadChunk
  <1>4. blob' = [i \in DOMAIN blob \cup offset..(end - 1) |->
                   IF i \in offset..(end - 1) THEN chunk[i - offset + 1] ELSE blob[i]]
    BY DEF UploadChunk
  <1>5. LifecycleTypeOK'
    <2>1. upload' \in [pack : Pack, received : Nat] /\ upload'.received <= Total(upload'.pack)
      BY <1>1, <1>2, <1>3
    <2>2. DOMAIN blob' \subseteq Nat
      BY <1>1, <1>4 DEF LifecycleInv, LifecycleTypeOK
    <2>3. ASSUME NEW i \in DOMAIN blob'
          PROVE  blob'[i] \in Cell
      <3>1. CASE i \in offset..(end - 1)
        <4>1. i - offset + 1 \in 1..Len(chunk)  BY <3>1, <1>1
        <4> QED  BY <3>1, <4>1, <1>1, <1>4
      <3>2. CASE i \notin offset..(end - 1)
        BY <3>2, <1>4 DEF LifecycleInv, LifecycleTypeOK
      <3> QED  BY <3>1, <3>2
    <2> QED  BY <2>1, <2>2, <2>3 DEF UploadChunk, heap, LifecycleInv, LifecycleTypeOK
  <1>6. UploadInv'
    <2>1. 0..(upload.received - 1) \subseteq DOMAIN blob /\ ~fixture
      BY <1>2 DEF LifecycleInv, UploadInv, ReceivedIsStored, UploadEndsFixture
    <2>2. 0..(end - 1) \subseteq DOMAIN blob \cup offset..(end - 1)
      BY <2>1, <1>1, <1>2
    <2>3. fixture' = FALSE  BY <2>1 DEF UploadChunk
    <2> QED  BY <2>2, <2>3, <1>3, <1>4 DEF UploadInv, ReceivedIsStored, UploadEndsFixture
  <1>7. MemoryInv'
    <2>1. UNCHANGED <<fixture, activeModel, tokenizer, builder, model>>
      BY DEF UploadChunk, heap
    <2>2. upload'.pack = upload.pack /\ upload' # None
      BY <1>1, <1>2, <1>3, PackAssumption
    <2>3. InMemoryIsUploaded' /\ HotModelIsActive' /\ OneModelInMemory'
      BY <2>1, <2>2 DEF LifecycleInv, MemoryInv, InMemoryIsUploaded, HotModelIsActive, OneModelInMemory
    <2>4. BuilderIsIntact' /\ ModelIsIntact'
      BY <2>1 DEF LifecycleInv, MemoryInv, BuilderIsIntact, ModelIsIntact
    <2> QED  BY <2>3, <2>4 DEF MemoryInv
  <1>8. ASSUME NEW i \in 0..(upload.received - 1)
        PROVE  blob'[i] = blob[i]
    <2>1. i \in DOMAIN blob  BY <1>2 DEF LifecycleInv, UploadInv, ReceivedIsStored
    <2>2. i \notin offset..(end - 1)  BY <1>1, <1>2
    <2> QED  BY <2>1, <2>2, <1>4
  <1>9. upload'.pack = upload.pack /\ upload'.received >= upload.received
    BY <1>1, <1>2, <1>3
  <1> QED  BY <1>5, <1>6, <1>7, <1>8, <1>9 DEF LifecycleInv

\* Warming up begins with the tokenizer of the pack and no tensor.
LEMMA StartKeeps ==
    ASSUME LifecycleInv, StartWarmup
    PROVE  LifecycleInv'
  <1> DEFINE p == upload.pack
  <1>1. upload # None /\ p \in Pack
    BY DEF StartWarmup, Uploaded, LifecycleInv, LifecycleTypeOK
  <1>2. /\ builder' = [pack |-> p, tensors |-> <<>>] /\ model' = None
        /\ tokenizer' = CellOf(p, Tensors(p))
    BY DEF StartWarmup
  <1>3. UNCHANGED <<fixture, upload, blob, activeModel>>  BY DEF StartWarmup, stable
  <1>4. Tensors(p) \in Nat /\ Tensors(p) >= 1 /\ CellOf(p, Tensors(p)) \in Cell
    BY <1>1, PackShape
  <1>5. LifecycleTypeOK'
    BY <1>1, <1>2, <1>3, <1>4 DEF LifecycleInv, LifecycleTypeOK
  <1>6. UploadInv'  BY <1>3 DEF LifecycleInv, UploadInv, ReceivedIsStored, UploadEndsFixture
  <1>7. MemoryInv'
    <2> QED  BY <1>1, <1>2, <1>3, <1>4 DEF MemoryInv, InMemoryIsUploaded,
       BuilderIsIntact, HotModelIsActive, ModelIsIntact, OneModelInMemory
  <1> QED  BY <1>5, <1>6, <1>7 DEF LifecycleInv

\* One more tensor; with the last one the builder becomes the model and its pack active.
LEMMA WarmupKeeps ==
    ASSUME LifecycleInv, WarmupNext
    PROVE  LifecycleInv'
  <1> DEFINE p == builder.pack
             next == Len(builder.tensors)
             tensors == Append(builder.tensors, blob[next])
  <1>1. /\ builder # None /\ builder \in [pack : Pack, tensors : Seq(Cell)]
        /\ model = None /\ upload # None /\ upload.pack = p /\ ~fixture
        /\ next < Tensors(p) /\ tokenizer = CellOf(p, Tensors(p))
        /\ \A i \in 0..(next - 1) : builder.tensors[i + 1] = CellOf(p, i)
    BY DEF WarmupNext, LifecycleInv, LifecycleTypeOK, UploadInv, UploadEndsFixture, MemoryInv,
       InMemoryIsUploaded, BuilderIsIntact, OneModelInMemory
  <1>2. blob[next] = CellOf(p, next) /\ UNCHANGED <<fixture, upload, blob, tokenizer>>
    BY DEF WarmupNext, Intact
  <1>3. p \in Pack /\ next \in Nat /\ Tensors(p) \in Nat /\ CellOf(p, next) \in Cell
    <2>1. p \in Pack /\ next \in Nat  BY <1>1
    <2> QED  BY <1>1, <2>1, PackShape
  <1>4. /\ tensors \in Seq(Cell) /\ Len(tensors) = next + 1
        /\ \A i \in 0..next : tensors[i + 1] = CellOf(p, i)
    <2>1. builder.tensors \in Seq(Cell)  BY <1>1
    <2>2. tensors \in Seq(Cell) /\ Len(tensors) = next + 1  BY <2>1, <1>2, <1>3
    <2>3. ASSUME NEW i \in 0..next
          PROVE  tensors[i + 1] = CellOf(p, i)
      <3>1. CASE i = next  BY <3>1, <2>1, <1>2, <1>3
      <3>2. CASE i < next  BY <3>2, <2>1, <1>1, <1>3
      <3> QED  BY <3>1, <3>2, <1>3
    <2> QED  BY <2>2, <2>3
  <1>5. UploadInv'
    BY <1>2 DEF LifecycleInv, UploadInv, ReceivedIsStored, UploadEndsFixture
  <1>6. CASE /\ next + 1 < Tensors(p)
             /\ builder' = [builder EXCEPT !.tensors = tensors]
             /\ UNCHANGED <<model, activeModel>>
    <2>1. builder' = [pack |-> p, tensors |-> tensors]
      BY <1>1, <1>6
    <2>2. LifecycleTypeOK'
      BY <1>2, <1>3, <1>4, <1>6, <2>1 DEF LifecycleInv, LifecycleTypeOK
    <2>3. BuilderIsIntact'
      BY <1>1, <1>2, <1>3, <1>4, <1>6, <2>1 DEF BuilderIsIntact
    <2>4. InMemoryIsUploaded' /\ HotModelIsActive' /\ ModelIsIntact' /\ OneModelInMemory'
      BY <1>1, <1>2, <1>6, <2>1
      DEF InMemoryIsUploaded, HotModelIsActive, ModelIsIntact, OneModelInMemory
    <2> QED  BY <1>5, <2>2, <2>3, <2>4 DEF LifecycleInv, MemoryInv
  <1>7. CASE /\ next + 1 = Tensors(p)
             /\ builder' = None /\ model' = [bundle |-> p, tensors |-> tensors]
             /\ activeModel' = p
    <2>1. LifecycleTypeOK'
      BY <1>2, <1>3, <1>4, <1>7 DEF LifecycleInv, LifecycleTypeOK
    <2>2. ModelIsIntact'
      BY <1>1, <1>2, <1>3, <1>4, <1>7 DEF ModelIsIntact
    <2>3. InMemoryIsUploaded' /\ HotModelIsActive' /\ BuilderIsIntact' /\ OneModelInMemory'
      BY <1>1, <1>2, <1>7
      DEF InMemoryIsUploaded, HotModelIsActive, BuilderIsIntact, OneModelInMemory
    <2> QED  BY <1>5, <2>1, <2>2, <2>3 DEF LifecycleInv, MemoryInv
  <1> QED  BY <1>6, <1>7 DEF WarmupNext

\* An upgrade empties the heap and keeps the rest.
LEMMA UpgradeKeeps ==
    ASSUME LifecycleInv, Upgrade
    PROVE  LifecycleInv'
  <1>1. LifecycleTypeOK'
    BY DEF Upgrade, stable, LifecycleInv, LifecycleTypeOK
  <1>2. UploadInv'
    BY DEF Upgrade, stable, LifecycleInv, UploadInv, ReceivedIsStored, UploadEndsFixture
  <1>3. MemoryInv'  BY EmptyHeap DEF Upgrade
  <1> QED  BY <1>1, <1>2, <1>3 DEF LifecycleInv

\* A step that changes nothing keeps everything.
LEMMA StutterKeeps ==
    ASSUME LifecycleInv, UNCHANGED lifecycle
    PROVE  LifecycleInv'
  BY DEF lifecycle, stable, heap, LifecycleInv, LifecycleTypeOK, UploadInv, ReceivedIsStored,
     UploadEndsFixture, MemoryInv, InMemoryIsUploaded, BuilderIsIntact, HotModelIsActive,
     ModelIsIntact, OneModelInMemory

\* Every endpoint and every upgrade keeps the invariant.
LEMMA LifecycleStepHolds == LifecycleInv /\ [LifecycleNext]_lifecycle => LifecycleInv'
  <1> SUFFICES ASSUME LifecycleInv, [LifecycleNext]_lifecycle PROVE LifecycleInv'
    OBVIOUS
  <1>1. CASE EnableSyntheticFixture  BY <1>1, FixtureKeeps
  <1>2. ASSUME NEW p \in Pack, BeginUpload(p) PROVE LifecycleInv'  BY <1>2, BeginKeeps
  <1>3. ASSUME NEW offset \in Offsets, NEW chunk \in Chunks, UploadChunk(offset, chunk)
        PROVE  LifecycleInv'
    BY <1>3, ChunkKeeps, PackAssumption
  <1>4. CASE StartWarmup  BY <1>4, StartKeeps
  <1>5. CASE WarmupNext  BY <1>5, WarmupKeeps
  <1>6. CASE Upgrade  BY <1>6, UpgradeKeeps
  <1>7. CASE UNCHANGED lifecycle  BY <1>7, StutterKeeps
  <1> QED  BY <1>1, <1>2, <1>3, <1>4, <1>5, <1>6, <1>7 DEF LifecycleNext

\* The inductive invariant holds throughout: what is in memory is the prefix or the whole of the
\* upload that begin_upload admitted last (lib.rs:166-230).
THEOREM LifecycleInvariant == LifecycleSpec => []LifecycleInv
  <1> QED  BY LifecycleInitHolds, LifecycleStepHolds, PTL DEF LifecycleSpec
-----------------------------------------------------------------------------
\* A model in memory is, tensor by tensor and with its tokenizer, what its manifest lists:
\* push() and start_warmup check every cell that they load (pack.rs:54, lib.rs:206).
THEOREM ModelIntact == LifecycleSpec => []ModelIsIntact
  <1>1. LifecycleInv => ModelIsIntact  BY DEF LifecycleInv, MemoryInv
  <1> QED  BY <1>1, LifecycleInvariant, PTL

\* The model in memory is the active one and the one uploaded last: begin_upload empties the
\* heap before it replaces the manifest (lib.rs:175).
THEOREM HotModelActive == LifecycleSpec => []HotModelIsActive
  <1>1. LifecycleInv => HotModelIsActive  BY DEF LifecycleInv, MemoryInv
  <1> QED  BY <1>1, LifecycleInvariant, PTL

\* "No second active model is retained during replacement" (lib.rs:174).
THEOREM OneModel == LifecycleSpec => []OneModelInMemory
  <1>1. LifecycleInv => OneModelInMemory  BY DEF LifecycleInv, MemoryInv
  <1> QED  BY <1>1, LifecycleInvariant, PTL

\* Received bytes are never overwritten before a new upload begins: upload_chunk accepts only
\* what starts where the last chunk ended (lib.rs:192).
THEOREM ReceivedStaysHolds == LifecycleSpec => ReceivedStays
  <1> DEFINE Kept ==
        upload # None =>
          \/ \E p \in Pack : upload' = [pack |-> p, received |-> 0]
          \/ /\ upload'.pack = upload.pack /\ upload'.received >= upload.received
             /\ \A i \in 0..(upload.received - 1) : blob'[i] = blob[i]
  <1>1. ASSUME LifecycleInv, [LifecycleNext]_lifecycle PROVE [Kept]_lifecycle
    <2>1. ASSUME NEW p \in Pack, BeginUpload(p) PROVE Kept  BY <2>1 DEF BeginUpload
    <2>2. ASSUME NEW offset \in Offsets, NEW chunk \in Chunks, UploadChunk(offset, chunk)
          PROVE  Kept
      BY <1>1, <2>2, ChunkKeeps, PackAssumption
    <2>3. ASSUME EnableSyntheticFixture \/ StartWarmup \/ WarmupNext \/ Upgrade PROVE Kept
      <3>1. UNCHANGED <<upload, blob>>
        BY <2>3 DEF EnableSyntheticFixture, StartWarmup, WarmupNext, Upgrade, stable
      <3>2. upload # None => upload.received \in Nat
        BY <1>1 DEF LifecycleInv, LifecycleTypeOK
      <3> QED  BY <3>1, <3>2
    <2> QED  BY <1>1, <2>1, <2>2, <2>3 DEF LifecycleNext
  <1> QED  BY <1>1, LifecycleInvariant, PTL DEF LifecycleSpec, ReceivedStays
=============================================================================
