----------------------------- MODULE IndexFile ------------------------------
(***************************************************************************)
(* The index files of internal/ivf and internal/specialist: a build        *)
(* truncates the file and writes a header and one section after the other, *)
(* and may die between two writes; a later program takes the sections      *)
(* apart again from the counts in the header.  A cell stands for one       *)
(* element of a section, cell 0 of section 0 for the header.  No program   *)
(* here writes the second kind yet: it is taken to be written as the first *)
(* is.                                                                     *)
(***************************************************************************)
EXTENDS Integers, Sequences, SequencesExt, FiniteSetsExt

CONSTANTS
  IvfBuilds,    \* records [format, version, scale, k, blocks]
  KdBuilds,     \* records [format, version, scale, parts, nodes, blocks]
  Programs,     \* readers: [how, format, version, scale], how "read", "mmap" or "kd"
  PerCluster,   \* cells of a cluster in a section
  PerBlock      \* cells of a block in a section

ASSUME IndexFileAssumption ==
  /\ PerCluster \in Nat /\ PerBlock \in Nat
  /\ \A b \in IvfBuilds : b.k \in Nat /\ b.blocks \in Nat
  /\ \A b \in KdBuilds : b.parts \in Nat /\ b.nodes \in Nat /\ b.blocks \in Nat
  /\ \A b \in IvfBuilds \cup KdBuilds : b.format # "none"
  /\ \A p \in Programs : p.how \in {"read", "mmap", "kd"}

Builds == IvfBuilds \cup KdBuilds
NoBuild == [format |-> "none"]

\* The lengths of the sections, in the order of Serialize.
Lengths(b) ==
  IF b \in IvfBuilds
  THEN <<PerCluster * b.k, b.k + 1, PerCluster * b.k, PerCluster * b.k,
         PerBlock * b.blocks, PerBlock * b.blocks>>
  ELSE <<b.parts, b.nodes, PerBlock * b.blocks, PerBlock * b.blocks>>

Cell(b, s, i) == [build |-> b, section |-> s, at |-> i]
Section(b, s) == [i \in 1 .. Lengths(b)[s] |-> Cell(b, s, i)]

\* Serialize
Content(b) == <<Cell(b, 0, 0)>> \o FoldLeft(\o, <<>>, [s \in DOMAIN Lengths(b) |-> Section(b, s)])

VARIABLES
  disk,      \* the cells of the file
  building,  \* the build that writes it, NoBuild for none
  pos,       \* what it has written
  loaded     \* what the last reader made of the file

fileVars == <<disk, building, pos, loaded>>

Outcome(out, sections) == [out |-> out, sections |-> sections]
Refused == Outcome("refused", <<>>)
Panics == Outcome("panic", <<>>)
Loaded(p, o) == [by |-> p, out |-> o.out, sections |-> o.sections]
NotLoaded == Loaded("nobody", Outcome("none", <<>>))

\* Mutant: the file is opened without O_TRUNC.
CreateOver(b) ==
  /\ building = NoBuild
  /\ building' = b /\ pos' = 0 /\ disk' = disk /\ loaded' = NotLoaded

\* SerializeToFile: os.Create.
CreateFile(b) ==
  /\ building = NoBuild
  /\ building' = b /\ pos' = 0 /\ disk' = <<>> /\ loaded' = NotLoaded

\* The next cell reaches the file.
WriteCell ==
  /\ building # NoBuild
  /\ LET cell == Content(building)[pos + 1]
     IN  disk' = IF pos < Len(disk) THEN [disk EXCEPT ![pos + 1] = cell] ELSE Append(disk, cell)
  /\ pos' = pos + 1
  /\ building' = IF pos + 1 = Len(Content(building)) THEN NoBuild ELSE building
  /\ UNCHANGED loaded

\* The build dies, or a write fails; the file stays as it is.
BuildDies ==
  /\ building # NoBuild
  /\ building' = NoBuild
  /\ UNCHANGED <<disk, pos, loaded>>

\* Mutant: the section before the last is skipped over twice.
OffsetTwice(b, s) ==
  1 + MapThenSumSet(LAMBDA r : Lengths(b)[r], 1 .. s - 1)
    + (IF s = Len(Lengths(b)) THEN Lengths(b)[s - 1] ELSE 0)

\* off: the cells before section s of a file with b's header.
Offset(b, s) == 1 + MapThenSumSet(LAMBDA r : Lengths(b)[r], 1 .. s - 1)

Parsed(b) ==
  Outcome("ok", [s \in DOMAIN Lengths(b) |->
                   SubSeq(disk, Offset(b, s) + 1, Offset(b, s) + Lengths(b)[s])])

\* Load, LoadMmap and specialist.Load: the first two never compare the scale,
\* nor the number of clusters with their own.  A mapping that is too short is
\* sliced past its end; the buffer ReadAll returns may have room to spare, and
\* then the entries read from there are noticed only by the check of the blocks.
Parse(p) ==
  IF disk = <<>> THEN {Refused}
  ELSE LET b == disk[1].build
           sections == Len(Lengths(b))
           end == Offset(b, sections) + Lengths(b)[sections]
           ok == {Parsed(b)}
       IN  IF b.format # p.format \/ b.version # p.version THEN {Refused}
           ELSE CASE p.how = "read" -> IF Len(disk) < end THEN {Refused} ELSE ok
                  [] p.how = "mmap" -> IF Len(disk) < end THEN {Panics}
                                       ELSE IF Len(disk) > end THEN {Refused} ELSE ok
                  [] p.how = "kd" -> IF b.scale # p.scale THEN {Refused}
                                     ELSE IF Len(disk) < Offset(b, 3) THEN {Panics, Refused}
                                     ELSE IF Len(disk) < end THEN {Refused} ELSE ok

\* A program starts when no build is under way.
LoadFile(p) ==
  /\ building = NoBuild /\ loaded = NotLoaded
  /\ \E o \in Parse(p) : loaded' = Loaded(p, o)
  /\ UNCHANGED <<disk, building, pos>>

FileInit == disk = <<>> /\ building = NoBuild /\ pos = 0 /\ loaded = NotLoaded

FileNext ==
  \/ \E b \in Builds : CreateFile(b)
  \/ WriteCell \/ BuildDies
  \/ \E p \in Programs : LoadFile(p)

FileSpec == FileInit /\ [][FileNext]_fileVars

\* A reader accepts one whole build of its own format, version and scale, and
\* takes it apart as it was written; it accepts nothing else, neither the rest
\* of a build that died nor a mixture of two.
Whole(b, p) ==
  /\ disk = Content(b) /\ p.format = b.format /\ p.version = b.version
  /\ p.how = "kd" => p.scale = b.scale

LoadsWholeBuilds ==
  loaded.out # "none" =>
    IF \E b \in Builds : Whole(b, loaded.by)
    THEN \A b \in Builds : Whole(b, loaded.by) =>
           loaded.out = "ok" /\ loaded.sections = [s \in DOMAIN Lengths(b) |-> Section(b, s)]
    ELSE loaded.out # "ok"

=============================================================================
