---------------------------- MODULE ModelLifecycle ----------------------------
(***************************************************************************)
(* How a model gets into the decision engine: the upload of a pack into    *)
(* stable memory, the warm-up that rebuilds the model in the heap one      *)
(* tensor per message, and upgrades, which empty the heap                  *)
(* (canisters/decision-engine/src/lib.rs, laya-candle/src/pack.rs).        *)
(*                                                                         *)
(* A pack is named by its manifest, whose digest is the bundle.  A cell    *)
(* stands for the bytes of one tensor, or of the tokenizer, which comes    *)
(* last; digests of cells are the cells.                                   *)
(***************************************************************************)
EXTENDS Integers, Sequences

CONSTANTS
    Pack,       \* manifests that pass Manifest::parse
    Cell,       \* contents of a tensor or a tokenizer
    Content,    \* Content[p]: the cells whose digests the manifest of p lists
    Synthetic,  \* bundle of the synthetic fixture
    NoBundle,   \* active_model before anything is active, [0;32] in the code
    None,       \* absent Option, and stable memory never written
    Offsets,    \* bound of the model: offsets that the owner names
    Chunks      \* bound of the model: chunks that the owner sends

ASSUME PackAssumption ==
    /\ Content \in [Pack -> Seq(Cell)] /\ \A p \in Pack : Len(Content[p]) >= 2
    /\ Offsets \subseteq Nat /\ Chunks \subseteq Seq(Cell)
    /\ None \notin [pack : Pack, received : Nat]

VARIABLES
    fixture,        \* fixture_mode
    upload,         \* manifest and how much was received
    blob,           \* stable memory from BLOB_BASE on
    activeModel,    \* EngineState.active_model
    tokenizer,      \* TOKENIZER
    builder,        \* BUILDER
    model           \* MODEL

stable == <<fixture, upload, blob, activeModel>>
heap == <<tokenizer, builder, model>>
lifecycle == <<stable, heap>>

\* Positions are 0-based, as in the code.
Total(p) == Len(Content[p])
CellOf(p, i) == Content[p][i + 1]
Tensors(p) == Total(p) - 1

LifecycleTypeOK ==
    /\ fixture \in BOOLEAN
    /\ upload = None \/
         (upload \in [pack : Pack, received : Nat] /\ upload.received <= Total(upload.pack))
    /\ DOMAIN blob \subseteq Nat /\ \A i \in DOMAIN blob : blob[i] \in Cell
    /\ activeModel \in Pack \cup {Synthetic, NoBundle}
    /\ tokenizer \in Cell \cup {None}
    /\ builder = None \/ builder \in [pack : Pack, tensors : Seq(Cell)]
    /\ model = None \/ model \in [bundle : Pack, tensors : Seq(Cell)]

LifecycleInit ==
    /\ fixture = FALSE /\ upload = None /\ blob = <<>> /\ activeModel = NoBundle
    /\ tokenizer = None /\ builder = None /\ model = None
-----------------------------------------------------------------------------
EnableSyntheticFixture ==
    /\ upload = None
    /\ fixture' = TRUE /\ activeModel' = Synthetic
    /\ UNCHANGED <<upload, blob, heap>>

\* No second model is kept while one is replaced.
Cleared == tokenizer' = None /\ builder' = None /\ model' = None

BeginUpload(p) ==
    /\ fixture' = FALSE /\ upload' = [pack |-> p, received |-> 0]
    /\ Cleared
    /\ UNCHANGED <<blob, activeModel>>

\* A chunk is new if it starts where the last one ended.
Appends(offset) == offset = upload.received

Fits(end) == end <= Total(upload.pack)

\* Chunks sent again are compared with what is stored and change nothing.
UploadChunk(offset, chunk) ==
    LET end == offset + Len(chunk) IN
    /\ upload # None /\ chunk # <<>>
    /\ Appends(offset) /\ Fits(end)
    /\ blob' = [i \in DOMAIN blob \cup offset..(end - 1) |->
                    IF i \in offset..(end - 1) THEN chunk[i - offset + 1] ELSE blob[i]]
    /\ upload' = [upload EXCEPT !.received = end]
    /\ UNCHANGED <<fixture, activeModel, heap>>

Uploaded == upload # None /\ upload.received = Total(upload.pack)

StartWarmup ==
    LET p == upload.pack IN
    /\ Uploaded
    /\ Tensors(p) \in DOMAIN blob /\ blob[Tensors(p)] = CellOf(p, Tensors(p))
    /\ tokenizer' = blob[Tensors(p)]
    /\ builder' = [pack |-> p, tensors |-> <<>>]
    /\ model' = None
    /\ UNCHANGED stable

\* push() compares the bytes with the digest in the manifest.
Intact(p, i) == i \in DOMAIN blob /\ blob[i] = CellOf(p, i)

\* Loads one tensor; the message that loads the last one activates the model.
WarmupNext ==
    LET p == builder.pack
        next == Len(builder.tensors)
        tensors == Append(builder.tensors, blob[next]) IN
    /\ builder # None /\ Intact(p, next)
    /\ \/ /\ next + 1 < Tensors(p)
          /\ builder' = [builder EXCEPT !.tensors = tensors]
          /\ UNCHANGED <<model, activeModel>>
       \/ /\ next + 1 = Tensors(p)
          /\ builder' = None /\ model' = [bundle |-> p, tensors |-> tensors]
          /\ activeModel' = p
    /\ UNCHANGED <<fixture, upload, blob, tokenizer>>

\* Stable memory survives an upgrade, the heap does not.
Upgrade ==
    /\ tokenizer' = None /\ builder' = None /\ model' = None
    /\ UNCHANGED stable

LifecycleNext ==
    \/ EnableSyntheticFixture
    \/ \E p \in Pack : BeginUpload(p)
    \/ \E offset \in Offsets, chunk \in Chunks : UploadChunk(offset, chunk)
    \/ StartWarmup
    \/ WarmupNext
    \/ Upgrade

LifecycleSpec == LifecycleInit /\ [][LifecycleNext]_lifecycle
-----------------------------------------------------------------------------
\* A model in memory is the active one, it is the pack that was uploaded last,
\* and the engine has left the synthetic fixture for good: no answer is computed
\* by one model and stamped with another, whatever the owner interrupts or repeats.
HotModelIsActive ==
    model # None =>
      model.bundle = activeModel /\ upload.pack = model.bundle /\ ~fixture

\* What runs is, tensor by tensor, what the manifest lists, with its tokenizer,
\* however the upload was cut into chunks, repeated, replaced or corrupted.
ModelIsIntact ==
    model # None =>
      LET p == model.bundle IN
      /\ Len(model.tensors) = Tensors(p) /\ tokenizer = CellOf(p, Tensors(p))
      /\ \A i \in 0..(Tensors(p) - 1) : model.tensors[i + 1] = CellOf(p, i)

\* "No second active model is retained during replacement": a model and a builder
\* are never in memory together, and a builder belongs to the pack uploaded last.
OneModelInMemory ==
    builder # None => model = None /\ upload.pack = builder.pack
-----------------------------------------------------------------------------
\* Bytes that the owner was told are received stay as they are until a new upload begins.
ReceivedStays ==
    [][upload # None =>
         \/ \E p \in Pack : upload' = [pack |-> p, received |-> 0]
         \/ /\ upload'.pack = upload.pack /\ upload'.received >= upload.received
            /\ \A i \in 0..(upload.received - 1) : blob'[i] = blob[i]]_lifecycle
=============================================================================
