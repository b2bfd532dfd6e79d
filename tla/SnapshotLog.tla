----------------------------- MODULE SnapshotLog -----------------------------
(***************************************************************************)
(* TradingDesk.DB.SnapshotLog: the write-ahead log.  One file per entry    *)
(* type and day; entries carry a global sequence number and the hash of    *)
(* the previous entry of their type; a manifest with the sequence number   *)
(* and the last hashes is saved every ManifestEvery entries and when a     *)
(* callback raises, and is read back at start.                             *)
(*                                                                         *)
(* Data abstraction.  An entry's bytes, and so its MD5, are identified by  *)
(* its uid, the number of appends started so far; 0 is the zero hash.  The *)
(* file an append writes is the file of today's date: the handle cached    *)
(* for another date is always replaced first, so `handles` is left out.    *)
(***************************************************************************)
EXTENDS Integers, SequencesExt

CONSTANTS
  Type,          (* entry types: contract, audit, scenario                 *)
  ManifestEvery, (* entries between two saves of the manifest: 50          *)
  MaxDay,        (* bound: days                                            *)
  MaxEntry,      (* bound: appends started                                 *)
  MaxFault       (* bound: faults                                          *)

Fault == {"crash",       (* the process dies between two system calls      *)
          "torn",        (* ... in the middle of writing a frame           *)
          "manifest",    (* ... in the middle of writing the manifest      *)
          "short_write"} (* the disk is full: a partial frame, {:error, _} *)

ASSUME LogAssumption ==
  /\ ManifestEvery \in Nat \ {0}
  /\ MaxDay \in Nat \ {0} /\ MaxEntry \in Nat /\ MaxFault \in Nat

VARIABLES
  file,      (* type -> day -> frames on disk, in order                    *)
  manifest,  (* manifest.etf                                               *)
  up,        (* the GenServer runs                                         *)
  seq,       (* its state: last sequence number,                           *)
  prevHash,  (* last hash per type,                                        *)
  written,   (* entries_written, modulo ManifestEvery                      *)
  day,       (* today                                                      *)
  appended,  (* appends started                                            *)
  started,   (* appends started before the process did                     *)
  acked,     (* uids whose append was answered :ok                         *)
  faults     (* the faults so far                                          *)

memory == <<seq, prevHash, written, started>>
disk == <<file, manifest>>
logVars == <<disk, up, memory, day, appended, acked, faults>>

Torn == [uid |-> 0, seq |-> 0, prev |-> 0]
Zero == [t \in Type |-> 0]
Manifest == [kind : {"absent", "damaged", "saved"}, seq : Nat, prev : [Type -> Nat]]
NoManifest == [kind |-> "absent", seq |-> 0, prev |-> Zero]

Frame == [uid : Nat, seq : Nat, prev : Nat]

(* The state space.                                                        *)
LogTypeOK ==
  /\ file \in [Type -> [1..MaxDay -> Seq(Frame)]]
  /\ manifest \in Manifest
  /\ up \in BOOLEAN
  /\ seq \in Nat /\ prevHash \in [Type -> Nat] /\ written \in 0..(ManifestEvery - 1)
  /\ started \in 0..appended
  /\ day \in 1..MaxDay /\ appended \in 0..MaxEntry
  /\ acked \subseteq 1..appended /\ faults \in Seq(Fault) /\ Len(faults) <= MaxFault

-----------------------------------------------------------------------------
(* READING                                                                 *)

(* decode_entries/2 stops at a partial frame: the positions it reaches.    *)
Readable(f) == {n \in DOMAIN f : \A m \in 1..n : f[m] # Torn}
Decoded(f) == {f[n] : n \in Readable(f)}

(* Bytes after a partial frame are taken for its rest; when there are      *)
(* enough of them, binary_to_term raises.                                  *)
MayRaise(f) == \E n \in DOMAIN f : f[n] = Torn /\ n < Len(f)

AllFiles == {file[t][d] : t \in Type, d \in 1..MaxDay}
DecodedAll == UNION {Decoded(f) : f \in AllFiles}

(* What the scan for the highest sequence number starts from and finds.    *)
ReadNumbers == {0} \cup {e.seq : e \in DecodedAll}

(* The whole frames ever written of a type, those behind a partial one,    *)
(* which decode_entries/2 does not reach, included.                        *)
Entries(t) == (UNION {ToSet(file[t][d]) : d \in 1..MaxDay}) \ {Torn}

(* The uid of the newest of some frames, the zero hash when there is none. *)
IsNewest(u, frames) ==
  IF frames = {} THEN u = 0
  ELSE u \in {e.uid : e \in frames} /\ \A e \in frames : e.uid <= u

-----------------------------------------------------------------------------
LogInit ==
  /\ file = [t \in Type |-> [d \in 1..MaxDay |-> <<>>]]
  /\ manifest = NoManifest
  /\ up = FALSE
  /\ seq = 0 /\ prevHash = Zero /\ written = 0 /\ started = 0
  /\ day = 1 /\ appended = 0 /\ acked = {} /\ faults = <<>>

Saved(s, p) == [kind |-> "saved", seq |-> s, prev |-> p]

(* MUTANT of Put: the file is opened with :write instead of :append.       *)
PutTruncating(t, frame) ==
  file' = [file EXCEPT ![t][day] =
             IF \E e \in Entries(t) : e.uid > started THEN Append(@, frame)
             ELSE <<frame>>]

Put(t, frame) == file' = [file EXCEPT ![t][day] = Append(@, frame)]

(* MUTANT of NextEntry: one chain for all types.                           *)
NextEntryOneChain(t) ==
  [uid |-> appended + 1, seq |-> seq + 1,
   prev |-> Max({prevHash[u] : u \in Type})]

NextEntry(t) == [uid |-> appended + 1, seq |-> seq + 1, prev |-> prevHash[t]]

(* init/1 and load_manifest/1: the manifest's state, or nothing when it    *)
(* cannot be decoded, or the highest number in the files when there is     *)
(* none (the scan itself may raise, and is rescued).                       *)
Start ==
  /\ ~up
  /\ up' = TRUE
  /\ \/ /\ manifest.kind = "saved"
        /\ seq' = manifest.seq /\ prevHash' = manifest.prev
     \/ /\ manifest.kind = "damaged"
        /\ seq' = 0 /\ prevHash' = Zero
     \/ /\ manifest.kind = "absent"
        /\ seq' \in {n \in ReadNumbers : \A m \in ReadNumbers : m <= n}
                      \cup {0 : f \in {g \in AllFiles : MayRaise(g)}}
        /\ prevHash' = Zero
  /\ written' = 0 /\ started' = appended
  /\ UNCHANGED <<disk, day, appended, acked, faults>>

(* MUTANT of AppendEntry: the hash of the entry is not remembered.         *)
AppendKeepsHash(t) ==
  LET e == NextEntry(t)
      w == (written + 1) % ManifestEvery
  IN /\ up /\ appended < MaxEntry
     /\ Put(t, e)
     /\ seq' = e.seq /\ written' = w
     /\ manifest' = IF w = 0 THEN Saved(e.seq, prevHash) ELSE manifest
     /\ appended' = e.uid
     /\ acked' = acked \cup {e.uid}
     /\ UNCHANGED <<up, started, prevHash, day, faults>>

(* {:append, type, data}, written, synced and answered.                    *)
AppendEntry(t) ==
  LET e == NextEntry(t)
      p == [prevHash EXCEPT ![t] = e.uid]
      w == (written + 1) % ManifestEvery
  IN /\ up /\ appended < MaxEntry
     /\ Put(t, e)
     /\ seq' = e.seq /\ prevHash' = p /\ written' = w
     /\ manifest' = IF w = 0 THEN Saved(e.seq, p) ELSE manifest
     /\ appended' = e.uid
     /\ acked' = acked \cup {e.uid}
     /\ UNCHANGED <<up, started, day, faults>>

Fails(kind) == Len(faults) < MaxFault /\ faults' = Append(faults, kind)

(* The same when the file system takes part of the frame and fails: the    *)
(* state is kept and the caller told.                                      *)
ShortWrite(t) ==
  /\ up
  /\ Fails("short_write")
  /\ Put(t, Torn)
  /\ UNCHANGED <<manifest, up, memory, day, appended, acked>>

Dies ==
  /\ up' = FALSE
  /\ seq' = 0 /\ prevHash' = Zero /\ written' = 0 /\ started' = 0
  /\ UNCHANGED <<day, acked>>

(* The process or the node dies: while idle, or in an append after part of *)
(* the frame, after all of it, or while the manifest is written.  No       *)
(* terminate/2 runs.                                                       *)
Crash ==
  /\ up
  /\ Dies
  /\ \/ /\ Fails("crash")
        /\ UNCHANGED <<disk, appended>>
     \/ /\ Fails("torn")
        /\ \E t \in Type : Put(t, Torn)
        /\ UNCHANGED <<manifest, appended>>
     \/ /\ Fails("crash") /\ appended < MaxEntry
        /\ \E t \in Type : Put(t, NextEntry(t))
        /\ appended' = appended + 1
        /\ UNCHANGED manifest
     \/ /\ Fails("manifest") /\ appended < MaxEntry
        /\ written = ManifestEvery - 1
        /\ \E t \in Type : Put(t, NextEntry(t))
        /\ appended' = appended + 1
        /\ manifest' = [NoManifest EXCEPT !.kind = "damaged"]

(* MUTANT of ReadRaises: no terminate/2.                                   *)
ReadRaisesUnsaved ==
  /\ up
  /\ \E f \in AllFiles : MayRaise(f)
  /\ Dies
  /\ UNCHANGED <<disk, appended, faults>>

(* {:read_range, ...} meets bytes it cannot decode: the callback raises    *)
(* and terminate/2 saves the manifest.                                     *)
ReadRaises ==
  /\ up
  /\ \E f \in AllFiles : MayRaise(f)
  /\ manifest' = Saved(seq, prevHash)
  /\ Dies
  /\ UNCHANGED <<file, appended, faults>>

NewDay ==
  /\ day < MaxDay
  /\ day' = day + 1
  /\ UNCHANGED <<disk, up, memory, appended, acked, faults>>

LogNext ==
  \/ Start \/ Crash \/ ReadRaises \/ NewDay
  \/ \E t \in Type : AppendEntry(t) \/ ShortWrite(t)

LogSpec == LogInit /\ [][LogNext]_logVars

-----------------------------------------------------------------------------
(* SAFETY                                                                  *)

OnlyFaults(kinds) == ToSet(faults) \subseteq kinds

(* Frames lie in their files, and files follow each other, in the order of *)
(* writing.                                                                *)
InOrder(t) ==
  \A c, d \in 1..MaxDay : \A m \in DOMAIN file[t][c], n \in DOMAIN file[t][d] :
    (c < d \/ (c = d /\ m < n)) /\ file[t][c][m] # Torn /\ file[t][d][n] # Torn =>
      file[t][c][m].uid < file[t][d][n].uid

(* Unless the process was killed, the whole entries of a type are one hash *)
(* chain over all its files, through rotation, failed writes and the       *)
(* restarts after a callback that raised.                                  *)
ChainLinked ==
  OnlyFaults({"short_write"}) =>
    \A t \in Type :
      /\ InOrder(t)
      /\ \A e \in Entries(t) : IsNewest(e.prev, {f \in Entries(t) : f.uid < e.uid})

(* ... and their numbers grow with the order of writing, over all types.   *)
SeqIsOrder ==
  OnlyFaults({"short_write"}) =>
    \A t, u \in Type : \A e \in Entries(t), f \in Entries(u) :
      e.uid < f.uid => e.seq < f.seq

(* An answered append is readable from the files of its type as long as no *)
(* frame was written in part.                                              *)
AckedReadable ==
  OnlyFaults({"crash", "manifest"}) => acked \subseteq {e.uid : e \in DecodedAll}

(* The hash chain of a type breaks only at the first entry after a start.  *)
LinksToNewest ==
  \A t \in Type :
    up /\ (\E f \in Entries(t) : f.uid > started) =>
      \A e \in Entries(t)' \ Entries(t) : IsNewest(e.prev, Entries(t))

BreaksOnlyAtStart == [][LinksToNewest]_logVars
=============================================================================
