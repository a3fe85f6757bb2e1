------------------------------ MODULE AuditLog ------------------------------
(***************************************************************************)
(* The audit log: handlers hand events to a bounded channel (AuditLogger), *)
(* and one task writes them to a file that is rotated by size and whose    *)
(* backups are removed by age (FileAuditWriter).  Rotation is a sequence   *)
(* of file operations, each of which may fail, and the relay may crash     *)
(* between any two of them.                                                *)
(*                                                                         *)
(* files[0] is the active file, files[i] the backup with extension log.i,  *)
(* each the sequence of the bytes in it; bytes are numbered as they are    *)
(* written, and an event is a line of one or more of them.  A renamed file *)
(* keeps its open handle: "at" is where the file that the writer holds is  *)
(* now.                                                                    *)
(***************************************************************************)
EXTENDS Naturals, Sequences, Functions

CONSTANTS
  EventTypes, enabled_events,   \* all types, and the configured ones
  ChannelCapacity,
  max_size, max_backups,
  MaxLine,                             \* the bytes of the longest line
  MaxBytes, MaxDropped, MaxCrashes,    \* bounds
  None

ASSUME AuditAssumption ==
  /\ {ChannelCapacity, max_size, max_backups, MaxLine} \subseteq Nat \ {0}
  /\ {MaxBytes, MaxDropped, MaxCrashes} \subseteq Nat
  /\ enabled_events \subseteq EventTypes
  /\ None \notin Nat /\ None \notin Seq(Nat)

VARIABLES
  queue, dropped_events,    \* AuditLogger: events in the channel; the counter
  pc, i,                    \* the writer task, and its place in a loop
  files, at, bytes_written, \* the directory; FileAuditWriter
  written, expired,         \* bytes written so far; those removed by age
  overwritten,              \* has a failed rename let a backup be overwritten?
  failed, crashes           \* has any file operation failed?; crashes so far

loggerVars == <<queue, dropped_events>>
fileVars == <<files, at, bytes_written>>
historyVars == <<written, expired, overwritten, failed, crashes>>
vars == <<loggerVars, pc, i, fileVars, historyVars>>

Backups == 1..max_backups
Names == {0} \cup Backups
Elements(n) == IF files[n] = None THEN {} ELSE Range(files[n])
Retained == UNION {Elements(n) : n \in Names}

(* Every variable has its type; the channel keeps to its capacity. *)
TypeOK ==
  /\ queue \in 0..ChannelCapacity
  /\ dropped_events \in 0..MaxDropped
  /\ pc \in {"down", "cleanup", "idle", "written", "shift", "rename", "open"}
  /\ i \in 0..(max_backups + 1)
  /\ \A n \in Names : files[n] = None \/ files[n] \in Seq(1..MaxBytes)
  /\ at \in Names \cup {None}
  /\ bytes_written \in 0..MaxBytes
  /\ written \in 0..MaxBytes
  /\ expired \subseteq 1..written
  /\ overwritten \in BOOLEAN /\ failed \in BOOLEAN
  /\ crashes \in 0..MaxCrashes

Init ==
  /\ queue = 0 /\ dropped_events = 0
  /\ pc = "down" /\ i = 0
  /\ files = [n \in Names |-> None]
  /\ at = None /\ bytes_written = 0
  /\ written = 0 /\ expired = {} /\ overwritten = FALSE /\ failed = FALSE
  /\ crashes = 0

-----------------------------------------------------------------------------
(* Mutant: the size of an existing file is not looked up. *)
StartFromZero ==
  /\ pc = "down"
  /\ files' = [files EXCEPT ![0] = IF @ = None THEN <<>> ELSE @]
  /\ at' = 0
  /\ bytes_written' = 0
  /\ pc' = "cleanup" /\ i' = 1
  /\ UNCHANGED <<loggerVars, historyVars>>

(* Mutant: the active file is created anew. *)
StartTruncates ==
  /\ pc = "down"
  /\ files' = [files EXCEPT ![0] = <<>>]
  /\ at' = 0
  /\ bytes_written' = 0
  /\ pc' = "cleanup" /\ i' = 1
  /\ UNCHANGED <<loggerVars, historyVars>>

(* AuditLogger::new.  When the file cannot be opened, events go to         *)
(* standard output instead (at = None) until the next start.               *)
Start ==
  /\ pc = "down"
  /\ \/ /\ files' = [files EXCEPT ![0] = IF @ = None THEN <<>> ELSE @]
        /\ at' = 0
        /\ bytes_written' = Len(files'[0])
        /\ pc' = "cleanup" /\ i' = 1
     \/ /\ at' = None
        /\ pc' = "idle"
        /\ UNCHANGED <<files, bytes_written, i>>
  /\ UNCHANGED <<loggerVars, historyVars>>

Crash ==
  /\ pc # "down"
  /\ crashes < MaxCrashes
  /\ crashes' = crashes + 1
  /\ pc' = "down" /\ i' = 0
  /\ at' = None /\ bytes_written' = 0
  /\ queue' = 0 /\ dropped_events' = 0
  /\ UNCHANGED <<files, written, expired, overwritten, failed>>

should_log(type) == enabled_events = {} \/ type \in enabled_events

(* An event of a type that is logged: try_send, or count it as dropped. *)
Send(type) ==
  /\ pc # "down"
  /\ should_log(type)
  /\ \/ queue < ChannelCapacity /\ queue' = queue + 1 /\ UNCHANGED dropped_events
     \/ /\ queue >= ChannelCapacity
        /\ dropped_events < MaxDropped
        /\ dropped_events' = dropped_events + 1
        /\ UNCHANGED queue
  /\ UNCHANGED <<pc, i, fileVars, historyVars>>

-----------------------------------------------------------------------------
(* A line of len bytes, the next ones after the first w. *)
Line(w, len) == [b \in 1..len |-> w + b]

(* write_event, on the next event of the channel: a line, with its newline *)
(* of len bytes.                                                           *)
Write(len) ==
  /\ pc = "idle"
  /\ queue > 0
  /\ at # None
  /\ written + len <= MaxBytes
  /\ queue' = queue - 1
  /\ written' = written + len
  /\ files' = [files EXCEPT ![at] = @ \o Line(written, len)]
  /\ bytes_written' = bytes_written + len
  /\ pc' = "written"
  /\ UNCHANGED <<dropped_events, i, at, expired, overwritten, failed, crashes>>

(* The event goes to standard output, or the write fails and it is lost. *)
WriteElsewhere ==
  /\ pc = "idle"
  /\ queue > 0
  /\ queue' = queue - 1
  /\ failed' = (failed \/ at # None)
  /\ UNCHANGED <<dropped_events, pc, i, fileVars, written, expired, overwritten,
                 crashes>>

(* The line that reaches max_size, or passes it, makes the log rotate. *)
AfterWrite ==
  /\ pc = "written"
  /\ \/ bytes_written < max_size /\ pc' = "idle" /\ UNCHANGED i
     \/ bytes_written >= max_size /\ pc' = "shift" /\ i' = max_backups - 1
  /\ UNCHANGED <<loggerVars, fileVars, historyVars>>

(* rename, on what the file system holds: the target, if any, is gone. *)
Renamed(from, to) ==
  /\ files' = [files EXCEPT ![from] = None, ![to] = files[from]]
  /\ at' = IF at = from THEN to ELSE at

(* Mutant: the first backup is not moved out of the way. *)
ShiftButFirst ==
  /\ pc = "shift"
  /\ \/ /\ i > 1
        /\ i' = i - 1
        /\ IF files[i] = None THEN UNCHANGED <<files, at>> ELSE Renamed(i, i + 1)
        /\ UNCHANGED <<pc, overwritten, failed>>
     \/ i <= 1 /\ pc' = "rename" /\ UNCHANGED <<i, files, at, overwritten, failed>>
  /\ UNCHANGED <<loggerVars, bytes_written, written, expired, crashes>>

(* rotate: log.i becomes log.i+1, from the last down; a failure is noted   *)
(* and passed over, ...                                                    *)
Shift ==
  /\ pc = "shift"
  /\ \/ /\ i >= 1
        /\ i' = i - 1
        /\ \/ /\ files[i] = None
              /\ UNCHANGED <<files, at, overwritten, failed>>
           \/ /\ files[i] # None
              /\ Renamed(i, i + 1)
              /\ UNCHANGED <<overwritten, failed>>
           \/ /\ files[i] # None
              /\ overwritten' = TRUE /\ failed' = TRUE
              /\ UNCHANGED <<files, at>>
        /\ UNCHANGED pc
     \/ i = 0 /\ pc' = "rename" /\ UNCHANGED <<i, files, at, overwritten, failed>>
  /\ UNCHANGED <<loggerVars, bytes_written, written, expired, crashes>>

(* ... the active file becomes log.1, or the rotation is given up, ...     *)
RenameActive ==
  /\ pc = "rename"
  /\ \/ files[0] # None /\ Renamed(0, 1) /\ pc' = "open" /\ UNCHANGED failed
     \/ pc' = "idle" /\ failed' = TRUE /\ UNCHANGED <<files, at>>
  /\ UNCHANGED <<loggerVars, i, bytes_written, written, expired, overwritten, crashes>>

(* ... and a new one is opened; else the writer keeps the one it has.      *)
OpenActive ==
  /\ pc = "open"
  /\ \/ /\ files' = [files EXCEPT ![0] = <<>>]
        /\ at' = 0
        /\ bytes_written' = 0
        /\ pc' = "cleanup" /\ i' = 1
        /\ UNCHANGED failed
     \/ pc' = "idle" /\ failed' = TRUE /\ UNCHANGED <<fileVars, i>>
  /\ UNCHANGED <<loggerVars, written, expired, overwritten, crashes>>

(* cleanup_old_backups: each backup up to the first one that is missing is *)
(* removed if it is too old, and if the removal succeeds.                  *)
CleanUp ==
  /\ pc = "cleanup"
  /\ \/ /\ i \in Backups
        /\ files[i] # None
        /\ i' = i + 1
        /\ \/ UNCHANGED <<files, expired>>
           \/ files' = [files EXCEPT ![i] = None] /\ expired' = expired \cup Elements(i)
        /\ UNCHANGED pc
     \/ /\ i \in Backups => files[i] = None
        /\ pc' = "idle"
        /\ UNCHANGED <<i, files, expired>>
  /\ UNCHANGED <<loggerVars, at, bytes_written, written, overwritten, failed, crashes>>

-----------------------------------------------------------------------------
Rotation == Shift \/ RenameActive \/ OpenActive \/ CleanUp

Next ==
  \/ Start \/ Crash
  \/ \E type \in EventTypes : Send(type)
  \/ \E len \in 1..MaxLine : Write(len)
  \/ WriteElsewhere \/ AfterWrite \/ Rotation

Spec == Init /\ [][Next]_vars

-----------------------------------------------------------------------------
(* Properties. *)

(* The files, from the last backup to the active one, hold the lines in    *)
(* the order they were written, and lack nothing newer than the oldest     *)
(* retained byte except what was removed by age: crashes and failed        *)
(* renames of the active file or opens of a new one lose nothing in        *)
(* between.  (The rename of a backup that fails lets the next one          *)
(* overwrite it.)                                                          *)
NoGapInLog ==
  /\ \A m, n \in Names : m < n => \A a \in Elements(m), b \in Elements(n) : b < a
  /\ ~overwritten =>
       \A e \in 1..written :
         (\E older \in Retained : older <= e) => e \in Retained \cup expired

(* As long as no file operation fails, the newest max_backups * max_size   *)
(* bytes of the log are retained, but for those removed by age; a crash    *)
(* within a rotation, which is then done once more, costs max_size of them *)
(* at most.                                                                *)
BackupsKept ==
  ~failed =>
    \A b \in 1..written :
      b + max_backups * max_size > written + crashes * max_size
        => b \in Retained \cup expired

(* As long as no file operation fails, every file stays below max_size but *)
(* for the line that makes it rotate, and one more line per crash (the     *)
(* relay may crash after that line, and adds another to the file when it   *)
(* is started again): bytes_written follows the file's size.               *)
FilesBounded ==
  ~failed => \A n \in Names : files[n] # None => Len(files[n]) < max_size + MaxLine * (1 + crashes)
=============================================================================
