----------------------------- MODULE ZimStream -----------------------------
(***************************************************************************)
(* zim::streambuf (zimlib/src/fstream.cpp): a zim file that may come in    *)
(* parts (fileaa, fileab, ...), of which only a few are open at a time.    *)
(*                                                                         *)
(* Descriptors are counted objects: one stays open while it is in the      *)
(* cache or is the current one.  Each has an offset of its own, which      *)
(* outlives a seek to another part.  The caller is zim::FileImpl: it reads *)
(* only after a seek that worked, or after the file has been opened.       *)
(***************************************************************************)
EXTENDS Integers, FiniteSets, Sequences, SequencesExt

CONSTANTS
  Disk,       \* what may be on the disk: the sizes of the parts
  MaxOpen,    \* the limit of openFilesCache
  BufSize

ASSUME StreamAssumption ==
  /\ MaxOpen \in Nat /\ BufSize \in Nat \ {0}
  /\ \A d \in Disk : d \in Seq(Nat) /\ Len(d) > 0

VARIABLES
  disk,          \* the sizes of the parts there are
  files,         \* the sizes of the parts found, as many as were opened
  openFiles,     \* openFilesCache: entries with a part and its descriptor
  current,       \* currentFile: [part, fd]
  offset,        \* where each open descriptor stands
  area,          \* the get area: the places of its first byte and behind its last
  pc, status,
  last           \* history: what was done last, as the reader sees it

vars == <<disk, files, openFiles, current, offset, area, pc, status, last>>

OpenFilesCache == INSTANCE Cache
  WITH Key <- Nat, Value <- Nat, Limit <- {MaxOpen}, data <- openFiles,
       maxElements <- MaxOpen, call <- <<>>, answer <- <<>>, hot <- <<>>

None == <<0, 0>>

(* Where each part begins, and where the last one ends. *)
Starts ==
  LET start[p \in 1 .. Len(files) + 1] ==
        IF p = 1 THEN 0 ELSE start[p - 1] + files[p - 1]
  IN start

Start(p) == Starts[p]
Size == Start(Len(files) + 1)

Init ==
  /\ disk \in Disk
  /\ files = <<>> /\ openFiles = <<>>
  /\ current = [part |-> 0, fd |-> 0] /\ offset = [f \in {} |-> f]
  /\ area = None
  /\ pc = "opening" /\ status = "good" /\ last = [op |-> "none"]

-----------------------------------------------------------------------------
(* open() takes the lowest number that is free. *)
NewFd ==
  CHOOSE f \in 1 .. Cardinality(DOMAIN offset) + 1 :
    f \notin DOMAIN offset /\ \A g \in 1 .. f - 1 : g \in DOMAIN offset

(* currentFile becomes f, at off; descriptors nobody refers to are closed. *)
Use(p, f, off) ==
  /\ current' = [part |-> p, fd |-> f]
  /\ offset' = [g \in {f} \cup {openFiles'[i].value : i \in DOMAIN openFiles'} |->
                  IF g = f THEN off ELSE offset[g]]

(* A part opened, and put into the cache. *)
PutFile(p, f) ==
  openFiles' = OpenFilesCache!Limited(
                 InsertAt(openFiles, OpenFilesCache!Place, [key |-> p, value |-> f]))

BugSeekUnlessZero(cached, old, off) == IF off # 0 THEN off ELSE old

(* lseek is left out for a descriptor that is new, and so at 0. *)
SeekTo(cached, old, off) == IF cached \/ off # 0 THEN off ELSE old

SetCurrentFile(p, off) ==
  \/ \E i \in OpenFilesCache!Positions(p) :
       /\ openFiles' = OpenFilesCache!ToFront(i, openFiles[i])
       /\ Use(p, openFiles[i].value,
              SeekTo(TRUE, offset[openFiles[i].value], off))
  \/ /\ OpenFilesCache!Positions(p) = {}
     /\ PutFile(p, NewFd)
     /\ Use(p, NewFd, SeekTo(FALSE, 0, off))

(* setCurrentFile throws before it has changed anything. *)
CannotOpen(p) ==
  /\ OpenFilesCache!Positions(p) = {}
  /\ UNCHANGED <<openFiles, current, offset>>

-----------------------------------------------------------------------------
(* The constructor opens each part, which leaves it at its end, ...        *)
OpenPart ==
  /\ pc = "opening"
  /\ Len(files) < Len(disk)
  /\ LET p == Len(files) + 1
     IN /\ files' = Append(files, disk[p])
        /\ PutFile(p, NewFd)
        /\ Use(p, NewFd, disk[p])
  /\ UNCHANGED <<disk, area, pc, status, last>>

(* ... up to the first that cannot be opened, and goes back to the first.  *)
(* A constructor that throws leaves nothing behind and is left out.        *)
Opened ==
  /\ pc = "opening"
  /\ files # <<>>
  /\ SetCurrentFile(1, 0)
  /\ pc' = "ready"
  /\ UNCHANGED <<disk, files, area, status, last>>

-----------------------------------------------------------------------------
(* A byte from the get area; underflow when there is none. *)

Take ==
  /\ pc = "ready" /\ status = "good"
  /\ area[1] < area[2]
  /\ last' = [op |-> "read", at |-> area[1]]
  /\ area' = <<area[1] + 1, area[2]>>
  /\ UNCHANGED <<disk, files, openFiles, current, offset, pc, status>>

Underflow ==
  /\ pc = "ready" /\ status = "good"
  /\ area[1] = area[2]
  /\ pc' = "underflow"
  /\ UNCHANGED <<disk, files, openFiles, current, offset, area, status, last>>

Rest == files[current.part] - offset[current.fd]

(* read returns some of what is left in the part. *)
Fill ==
  /\ pc = "underflow"
  /\ \E n \in 1 .. BufSize :
       /\ n =< Rest
       /\ LET at == Start(current.part) + offset[current.fd] IN area' = <<at, at + n>>
       /\ offset' = [offset EXCEPT ![current.fd] = @ + n]
  /\ pc' = "ready"
  /\ UNCHANGED <<disk, files, openFiles, current, status, last>>

BugSamePart(p) == p

Following(p) == p + 1

(* read returns 0: on with the next part, which may be empty as well. *)
NextPart ==
  /\ pc = "underflow"
  /\ Rest = 0 /\ current.part < Len(files)
  /\ SetCurrentFile(Following(current.part), 0)
  /\ UNCHANGED <<disk, files, area, pc, status, last>>

Eof ==
  /\ pc = "underflow"
  /\ Rest = 0 /\ current.part = Len(files)
  /\ pc' = "ready" /\ status' = "failed"
  /\ UNCHANGED <<disk, files, openFiles, current, offset, area, last>>

(* read fails, or the next part cannot be opened any more. *)
ReadFails ==
  /\ pc = "underflow"
  /\ pc' = "ready" /\ status' = "failed"
  /\ UNCHANGED <<disk, files, openFiles, current, offset, area, last>>

-----------------------------------------------------------------------------
(* The parts that reach as far as off: a place between two parts is the    *)
(* end of the first of them.                                               *)
Reaching(off) == {p \in 1 .. Len(files) : off =< Start(p + 1)}

PartOf(off) == CHOOSE p \in Reaching(off) : \A q \in Reaching(off) : p =< q

(* The same place, counted from the start of its part. *)
InPart(off) == off - Start(PartOf(off))

Seek(off) ==
  /\ pc = "ready"
  /\ Reaching(off) # {}
  /\ area' = None
  /\ SetCurrentFile(PartOf(off), InPart(off))
  /\ status' = IF status = "failed" THEN "failed" ELSE "good"
  /\ last' = [op |-> "seek", to |-> off]
  /\ UNCHANGED <<disk, files, pc>>

(* "error seeking", or the part cannot be opened. *)
SeekFails(off) ==
  /\ pc = "ready"
  /\ \/ Reaching(off) = {} /\ UNCHANGED <<openFiles, current, offset>>
     \/ Reaching(off) # {} /\ CannotOpen(PartOf(off))
  /\ area' = None
  /\ status' = IF status = "failed" THEN "failed" ELSE "lost"
  /\ last' = [op |-> "seek"]
  /\ UNCHANGED <<disk, files, pc>>

Next ==
  \/ OpenPart \/ Opened
  \/ Take \/ Underflow \/ Fill \/ NextPart \/ Eof \/ ReadFails
  \/ \E off \in 0 .. Size + 1 : Seek(off) \/ SeekFails(off)

(* underflow runs on; disks need not fail. *)
Spec == Init /\ [][Next]_vars /\ WF_vars(Fill \/ NextPart \/ Eof)

-----------------------------------------------------------------------------
TypeOK ==
  /\ files \in Seq(Nat) /\ Len(files) =< Len(disk)
  /\ Len(openFiles) =< MaxOpen
  /\ DOMAIN offset = {openFiles[i].value : i \in DOMAIN openFiles} \cup
                     (IF current.part = 0 THEN {} ELSE {current.fd})
  /\ \A i \in DOMAIN openFiles :
       offset[openFiles[i].value] \in 0 .. files[openFiles[i].key]
  /\ current.part > 0 => offset[current.fd] \in 0 .. files[current.part]
  /\ pc = "ready" => status = "lost" \/ area[1] =< area[2]

(* No more descriptors are open than the cache holds, and the current one: *)
(* reading a file in hundreds of parts does not run out of them.           *)
DescriptorsBounded == Cardinality(DOMAIN offset) =< MaxOpen + 1

(* Whatever is in the cache or current is open, and nothing else, so that  *)
(* few are; and none stands behind the end of its part, however often      *)
(* parts were closed and opened again.                                     *)
DescriptorsSound == TypeOK /\ DescriptorsBounded

(* Every read returns, over any number of empty parts. *)
ReadsReturn == pc = "underflow" ~> pc = "ready"

(* Where the reader stands: at the first byte that is buffered, or where   *)
(* the descriptor stands if none is.                                       *)
Pos ==
  IF pc = "opening" THEN 0
  ELSE IF area[1] < area[2] THEN area[1]
  ELSE Start(current.part) + offset[current.fd]

Flat == INSTANCE FlatStream
  WITH size <- IF pc = "opening" THEN 0 ELSE Size, pos <- Pos,
       status <- IF pc = "opening" THEN "opening" ELSE status

(* The parts read like one flat file: each byte comes from the place the   *)
(* last seek and the bytes read since lead to, in whatever part, from      *)
(* whatever descriptor, cached or opened again.                            *)
ImplementsFlat == Flat!Spec
=============================================================================
