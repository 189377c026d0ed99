------------------------------ MODULE PackFiles ------------------------------
(***************************************************************************)
(* The tools that make model packs: laya_port_bridge.py (drafts the map    *)
(* from canonical to upstream tensors, and exports), pack_checkpoint.py,   *)
(* quantize_pack.py, and the sized fixtures of generate_fixtures.py.       *)
(*                                                                         *)
(* Each builds a pack tensor by tensor in a directory of its own and       *)
(* renames it.  Several may run at once, and each may be killed.           *)
(***************************************************************************)
EXTENDS Integers, Sequences, SequencesExt

CONSTANTS
    Process,
    Directory,
    Works,          \* assignments of works to processes, see Work
    Configs,        \* configurations of the model, see Config
    Defects,        \* sets of upstream tensors that are missing, misshapen or not finite
    MaxTotal,       \* MAX_TOTAL, in bytes of the F32 pack
    Nothing

\* What a process was started for: the directory that it fills, and the pack that it converts.
Work == [kind : {"bridge", "quantize", "tier"}, out : Directory, source : Directory \cup {Nothing}]

Config == [hidden : Nat \ {0}, layers : Nat \ {0}, decisionLayers : Nat \ {0}, firstNorm : BOOLEAN]

ASSUME FilesAssumption ==
    /\ Works \subseteq [Process -> Work] /\ Configs \subseteq Config
    /\ MaxTotal \in Nat

VARIABLES
    config,         \* of the checkpoint
    defect,
    tokenizer,      \* the file that the bridge downloads: Nothing, "cut" or "whole"
    disk,           \* the pack in each directory, or Nothing
    work,
    maker           \* where each process is, and its temporary directory

filesVars == <<config, defect, tokenizer, disk, work, maker>>
-----------------------------------------------------------------------------
\* Names are <<group, layer, tensor>>; a shape is <<rows>> or <<rows, columns>>.
Named(group, i, fields) == [k \in DOMAIN fields |-> <<group, i, fields[k]>>]

encoderFields(norm) ==
    (IF norm THEN <<"attn_norm.weight">> ELSE <<>>) \o
    <<"qkv.weight", "out.weight", "mlp_norm.weight", "wi.weight", "wo.weight">>
decisionFields ==
    <<"qkv.weight", "qkv.bias", "out.weight", "out.bias", "norm1.weight", "norm1.bias", "norm2.weight",
      "norm2.bias", "linear1.weight", "linear1.bias", "linear2.weight", "linear2.bias">>

Matrices == {"weight", "qkv.weight", "out.weight", "wi.weight", "wo.weight", "linear1.weight",
             "linear2.weight", "dense.weight"}

\* The tensors of the loader, in a fixed order.
ordered(c) ==
    Named("embeddings", 0, <<"weight", "norm.weight">>) \o Named("final_norm", 0, <<"vector">>) \o
    FlattenSeq([i \in 1..c.layers |-> Named("encoder", i - 1, encoderFields(i > 1 \/ c.firstNorm))]) \o
    Named("qtype", 0, <<"weight">>) \o
    FlattenSeq([i \in 1..c.decisionLayers |-> Named("decision", i - 1, decisionFields)]) \o
    Named("scorer", 0, <<"norm.weight", "norm.bias", "dense.weight", "dense.bias", "out.weight", "out.bias">>)

expected(c) == ToSet(ordered(c))

\* What is relevant of a shape: whether it has rows with a scale of their own.
shapes(c) == [n \in expected(c) |-> IF n[3] \in Matrices THEN <<c.hidden, c.hidden>> ELSE <<c.hidden>>]

Numbers(shape) == IF Len(shape) = 2 THEN shape[1] * shape[2] ELSE shape[1]

\* Bytes of a tensor: four each, or one and a scale for each row of a matrix.
Stored(shape, format) ==
    IF format = "int8" /\ Len(shape) = 2 THEN Numbers(shape) + 4 * shape[1] ELSE 4 * Numbers(shape)

\* Upstream keeps the layers of the encoder and of the head under names of its own.
Upstream(n) ==
    CASE n[1] = "encoder" -> <<"encoder.layers", n[2], n[3]>>
      [] n[1] = "decision" -> <<"head.layers", n[2], n[3]>>
      [] OTHER -> <<"top", n[1], n[3]>>

\* The draft: layer 0 has no attention norm.
build_mapping(c) == [n \in expected([c EXCEPT !.firstNorm = FALSE]) |-> Upstream(n)]

\* translate_config: this checkpoint has no such norm.
Translated(c) == [c EXCEPT !.firstNorm = FALSE]

\* What a tensor of a pack can hold: an upstream tensor, or synthetic values of its own.
Contents(c) == {Upstream(n) : n \in expected(c)} \cup {<<"random", n>> : n \in expected(c)}

\* The manifest of a pack and what is beside it: the tokenizer, and the inputs of the fixtures.
Packs(c) ==
    [format : {"f32", "int8"},
     tensors : Seq([name : expected(c), offset : Nat, length : Nat, holds : Contents(c)]),
     total : Nat, tokenizer : {"cut", "whole"}, inputs : Nat]

ASSUME NothingAssumption ==
    /\ Nothing \notin {"cut", "whole"}
    /\ \A c \in Configs : Nothing \notin Packs(Translated(c))
-----------------------------------------------------------------------------
Idle == [at |-> "begin", left |-> <<>>, tensors |-> <<>>, total |-> 0, seen |-> 0, why |-> Nothing]

FilesTypeOK ==
    /\ tokenizer \in {Nothing, "cut", "whole"}
    /\ \A d \in Directory : disk[d] # Nothing => disk[d].format \in {"f32", "int8"} /\ disk[d].inputs \in 0..3
    /\ \A t \in Process :
         /\ maker[t].at \in {"begin", "fetched", "copying", "inputs", "ended"}
         /\ maker[t].why \in {Nothing, "exists", "mapping", "tokenizer", "tensor", "killed"}
         /\ maker[t].seen \in 0..MaxTotal

FilesInit ==
    /\ config \in Configs /\ defect \in Defects /\ work \in Works
    /\ tokenizer = Nothing
    /\ disk = [d \in Directory |-> Nothing]
    /\ maker = [t \in Process |-> Idle]

Ends(t, why) == maker' = [maker EXCEPT ![t].at = "ended", ![t].why = why]

Out(t) == work[t].out
Format(t) == IF work[t].kind = "bridge" THEN "f32" ELSE "int8"
model == Translated(config)

\* The pack that is converted: the operator's, or one of synthetic weights in a directory
\* of the process.
Tensors(c, content) ==
    [i \in DOMAIN ordered(c) |->
       LET n == ordered(c)[i] IN [name |-> n, length |-> 4 * Numbers(shapes(c)[n]), holds |-> content[n]]]
-----------------------------------------------------------------------------
\* The bridge downloads the tokenizer once; what is there is taken as it is.
DownloadsTokenizer(t) ==
    /\ work[t].kind = "bridge" /\ maker[t].at = "begin"
    /\ \/ /\ tokenizer' = (IF tokenizer = Nothing THEN "whole" ELSE tokenizer)
          /\ maker' = [maker EXCEPT ![t].at = "fetched"]
       \/ /\ tokenizer = Nothing /\ tokenizer' = "cut"
          /\ Ends(t, "killed")
    /\ UNCHANGED <<config, defect, disk, work>>

Mapped(c) == DOMAIN build_mapping(c) = expected(c)

\* The file must parse.
Parses == tokenizer = "whole"

\* pack_checkpoint.export: nothing is overwritten, and the mapping covers each tensor.
BeginsExport(t) ==
    /\ maker[t].at = "fetched"
    /\ IF disk[Out(t)] # Nothing THEN Ends(t, "exists")
       ELSE IF ~Mapped(model) THEN Ends(t, "mapping")
       ELSE IF ~Parses THEN Ends(t, "tokenizer")
       ELSE maker' = [maker EXCEPT ![t].at = "copying",
                        ![t].left = Tensors(model, build_mapping(model))]
    /\ UNCHANGED <<config, defect, tokenizer, disk, work>>

\* quantize: from a pack on disk, or (tier) from random weights written just now.
BeginsQuantize(t) ==
    LET source == work[t].source IN
    /\ work[t].kind \in {"quantize", "tier"} /\ maker[t].at = "begin"
    /\ source # Nothing => disk[source] # Nothing
    /\ IF disk[Out(t)] # Nothing \/ (source # Nothing /\ disk[source].format # "f32") THEN Ends(t, "exists")
       ELSE maker' = [maker EXCEPT ![t].at = "copying",
                        ![t].left = IF source # Nothing THEN disk[source].tensors
                                    ELSE Tensors(model, [n \in expected(model) |-> <<"random", n>>])]
    /\ UNCHANGED <<config, defect, tokenizer, disk, work>>

\* A tensor of the checkpoint has its shape and finite numbers.
Sound(t, tensor) ==
    IF work[t].kind = "bridge" THEN tensor.holds \notin defect
    ELSE work[t].kind = "quantize" => tensor.offset = maker[t].seen

Fits(t, tensor) == maker[t].seen + tensor.length <= MaxTotal

\* Where a tensor goes: behind the last.  (Seeded fault: where it was in the source.)
Place_AsRead(t) == maker[t].seen
Place(t) == maker[t].total

CopiesTensor(t) ==
    LET tensor == Head(maker[t].left)
        length == Stored(shapes(model)[tensor.name], Format(t)) IN
    /\ maker[t].at = "copying" /\ maker[t].left # <<>>
    /\ IF ~Sound(t, tensor) \/ ~Fits(t, tensor) THEN Ends(t, "tensor")
       ELSE maker' = [maker EXCEPT
              ![t].left = Tail(@),
              ![t].tensors = Append(@, [name |-> tensor.name, offset |-> Place(t), length |-> length,
                                        holds |-> tensor.holds]),
              ![t].total = @ + length,
              ![t].seen = @ + tensor.length]
    /\ UNCHANGED <<config, defect, tokenizer, disk, work>>

\* A directory is not renamed onto one with files.
Free(d) == disk[d] = Nothing

RenamesPack(t) ==
    /\ maker[t].at = "copying" /\ maker[t].left = <<>>
    /\ IF ~Free(Out(t)) THEN Ends(t, "exists") /\ UNCHANGED disk
       ELSE /\ disk' = [disk EXCEPT ![Out(t)] =
                 [format |-> Format(t), tensors |-> maker[t].tensors, total |-> maker[t].total,
                  tokenizer |-> IF work[t].kind = "bridge" THEN tokenizer ELSE "whole", inputs |-> 0]]
            /\ IF work[t].kind = "tier" THEN maker' = [maker EXCEPT ![t].at = "inputs"]
               ELSE Ends(t, Nothing)
    /\ UNCHANGED <<config, defect, tokenizer, work>>

\* generate_tier: the inputs of the three primitives, into the pack that is in place.
WritesInput(t) ==
    /\ maker[t].at = "inputs"
    /\ disk' = [disk EXCEPT ![Out(t)].inputs = @ + 1]
    /\ IF disk[Out(t)].inputs = 2 THEN Ends(t, Nothing) ELSE UNCHANGED maker
    /\ UNCHANGED <<config, defect, tokenizer, work>>

\* A process is killed; what it built so far stays in its temporary directory.
Killed(t) ==
    /\ maker[t].at \in {"copying", "inputs"} /\ Ends(t, "killed")
    /\ UNCHANGED <<config, defect, tokenizer, disk, work>>

MakerNext(t) ==
    \/ DownloadsTokenizer(t) \/ BeginsExport(t) \/ BeginsQuantize(t) \/ CopiesTensor(t)
    \/ RenamesPack(t) \/ WritesInput(t) \/ Killed(t)

FilesNext == \E t \in Process : MakerNext(t)

FilesSpec == FilesInit /\ [][FilesNext]_filesVars
-----------------------------------------------------------------------------
\* A pack that can be seen is whole: each tensor of the loader once, each at the end of the
\* last, in the length of its format, and a tokenizer that parses, whoever made it and
\* whoever was killed meanwhile.
PacksAreWhole ==
    \A d \in Directory : disk[d] # Nothing =>
      LET entry == disk[d].tensors IN
      /\ Len(entry) = Len(ordered(model)) /\ {entry[i].name : i \in DOMAIN entry} = expected(model)
      /\ \A i \in DOMAIN entry :
           /\ entry[i].offset = (IF i = 1 THEN 0 ELSE entry[i - 1].offset + entry[i - 1].length)
           /\ entry[i].length = Stored(shapes(model)[entry[i].name], disk[d].format)
      /\ disk[d].total = entry[Len(entry)].offset + entry[Len(entry)].length
      /\ disk[d].tokenizer = "whole"

\* Each tensor of a pack holds the sound upstream tensor of its own, also through a conversion,
\* and no upstream tensor is used twice; or all are synthetic.
WeightsAreInPlace ==
    \A d \in Directory : disk[d] # Nothing =>
      LET entry == disk[d].tensors IN
      /\ \/ \A i \in DOMAIN entry : entry[i].holds = Upstream(entry[i].name) /\ entry[i].holds \notin defect
         \/ \A i \in DOMAIN entry : entry[i].holds = <<"random", entry[i].name>>
      /\ \A i, j \in DOMAIN entry : entry[i].holds = entry[j].holds => i = j

\* What a loader finds is a whole pack with its weights in place.
PacksAreSound == PacksAreWhole /\ WeightsAreInPlace
=============================================================================
