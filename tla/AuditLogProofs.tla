--------------------------- MODULE AuditLogProofs ---------------------------
(* Proofs about AuditLog: for any sizes, numbers of backups and crashes.   *)
EXTENDS AuditLog, SequenceTheorems, TLAPS

Dirs == [Names -> Seq(Nat) \cup {None}]
Bytes(f) == IF f = None THEN {} ELSE Range(f)
Size(f) == IF f = None THEN 0 ELSE Len(f)

TypeInv ==
  /\ files \in Dirs
  /\ at \in Names \cup {None}
  /\ i \in Nat /\ bytes_written \in Nat /\ written \in Nat /\ crashes \in Nat

(* The file that the writer holds is the newest one there is: the names    *)
(* before it are free.  Only a failed rotation leaves it under another     *)
(* name than the active one, and then backups are not removed.             *)
PlaceInv ==
  /\ at # None => files[at] # None /\ \A m \in Names : m < at => files[m] = None
  /\ at = None => pc \in {"down", "idle"}
  /\ pc = "cleanup" => at = 0 /\ i >= 1
  /\ pc \in {"shift", "rename"} => i < max_backups
  /\ pc = "rename" => i = 0
  /\ pc = "open" => at = 1

-----------------------------------------------------------------------------
(* The names of the files. *)
LEMMA NameFacts ==
  /\ max_backups \in Nat /\ max_backups >= 1
  /\ Names \subseteq Nat /\ Backups \subseteq Names /\ 0 \in Names /\ 1 \in Names
  /\ None \notin Nat /\ None \notin Names /\ None \notin Seq(Nat)
  /\ \A n \in Nat : n <= max_backups <=> n \in Names
  /\ \A n \in Nat : n \in Backups <=> n \in Names /\ n # 0
BY AuditAssumption DEF Names, Backups

(* The limits on files. *)
LEMMA SizeFacts == max_size \in Nat /\ max_size > 0 /\ MaxLine \in Nat /\ MaxLine > 0
BY AuditAssumption

(* Besides what it held, a file holds the k bytes after the first w. *)
Holds(f, g, w, k) == Range(g) = Range(f) \cup (w + 1)..(w + k)

(* A file that is there: its size and its bytes, before and after a line   *)
(* is added.                                                               *)
LEMMA FileFacts ==
  ASSUME NEW f \in Dirs, NEW a \in Names, f[a] # None, NEW w \in Nat, NEW k \in Nat
  PROVE  /\ f[a] \in Seq(Nat) /\ f[a] \o Line(w, k) \in Seq(Nat)
         /\ f[a] \o Line(w, k) # None
         /\ Len(f[a]) \in Nat /\ Len(f[a] \o Line(w, k)) = Len(f[a]) + k
         /\ Holds(f[a], f[a] \o Line(w, k), w, k)
<1>1. f[a] \in Seq(Nat)
  BY DEF Dirs
<1> DEFINE l == Line(w, k)
<1>2. l \in Seq(Nat) /\ Len(l) = k /\ DOMAIN l = 1..k /\ \A b \in 1..k : l[b] = w + b
  <2>1. l = [b \in 1..k |-> w + b]
    BY DEF Line
  <2> HIDE DEF l
  <2>2. l \in [1..k -> Nat]
    BY <2>1
  <2> QED
    BY <2>1, <2>2
<1> DEFINE s == f[a]
<1>3. s \in Seq(Nat) /\ Len(s) \in Nat /\ DOMAIN s = 1..Len(s)
  BY <1>1, LenProperties
<1> HIDE DEF s, l
<1>4. /\ s \o l \in Seq(Nat) /\ Len(s \o l) = Len(s) + k
      /\ DOMAIN (s \o l) = 1..(Len(s) + k)
      /\ \A b \in 1..(Len(s) + k) :
           (s \o l)[b] = IF b <= Len(s) THEN s[b] ELSE l[b - Len(s)]
  <2>1. /\ s \o l \in Seq(Nat) /\ Len(s \o l) = Len(s) + Len(l)
        /\ \A b \in 1..(Len(s) + Len(l)) :
             (s \o l)[b] = IF b <= Len(s) THEN s[b] ELSE l[b - Len(s)]
    BY Zenon, <1>2, <1>3, ConcatProperties
  <2>2. DOMAIN (s \o l) = 1..Len(s \o l)
    BY Zenon, <2>1, LenProperties
  <2> QED
    BY Zenon, <1>2, <2>1, <2>2
<1>5. \A b \in 1..Len(s) : b \in DOMAIN (s \o l) /\ (s \o l)[b] = s[b]
  BY <1>2, <1>3, <1>4
<1>6. \A b \in 1..k : Len(s) + b \in DOMAIN (s \o l) /\ (s \o l)[Len(s) + b] = w + b
  BY <1>2, <1>3, <1>4
<1>7. \A b \in DOMAIN (s \o l) : b \in 1..Len(s) \/ b - Len(s) \in 1..k
  BY <1>3, <1>4
<1>8. Range(s \o l) = Range(s) \cup (w + 1)..(w + k)
  <2>1. \A x \in Range(s \o l) : x \in Range(s) \cup (w + 1)..(w + k)
    <3> SUFFICES ASSUME NEW b \in DOMAIN (s \o l)
                 PROVE  (s \o l)[b] \in Range(s) \cup (w + 1)..(w + k)
      BY DEF Range
    <3>1. CASE b \in 1..Len(s)
      BY <1>3, <1>5, <3>1 DEF Range
    <3>2. CASE b - Len(s) \in 1..k
      <4>1. b \in Nat /\ Len(s) + (b - Len(s)) = b
        BY <1>3, <1>4, <3>2
      <4>2. (s \o l)[b] = w + (b - Len(s))
        BY <1>6, <3>2, <4>1
      <4> QED
        BY <1>3, <3>2, <4>1, <4>2
    <3> QED
      BY <1>7, <3>1, <3>2
  <2>2. \A x \in Range(s) : x \in Range(s \o l)
    BY <1>3, <1>5 DEF Range
  <2>3. \A x \in (w + 1)..(w + k) : x \in Range(s \o l)
    <3> SUFFICES ASSUME NEW x \in (w + 1)..(w + k) PROVE x \in Range(s \o l)
      OBVIOUS
    <3>1. x - w \in 1..k /\ w + (x - w) = x
      OBVIOUS
    <3>2. Len(s) + (x - w) \in DOMAIN (s \o l) /\ (s \o l)[Len(s) + (x - w)] = x
      BY Zenon, <1>6, <3>1
    <3> QED
      BY Zenon, <3>2 DEF Range
  <2> QED
    BY Zenon, <2>1, <2>2, <2>3
<1>9. s \o l # None
  BY Zenon, <1>4, NameFacts
<1> QED
  BY Zenon, <1>3, <1>4, <1>8, <1>9 DEF s, l, Holds

(* The empty file. *)
LEMMA EmptyFacts ==
  /\ <<>> \in Seq(Nat) /\ <<>> # None /\ Len(<<>>) = 0
  /\ Size(<<>>) = 0 /\ Bytes(<<>>) = {} /\ Size(None) = 0 /\ Bytes(None) = {}
<1>1. <<>> \in Seq(Nat) /\ Len(<<>>) = 0 /\ DOMAIN <<>> = {}
  BY EmptySeq
<1>2. <<>> # None
  BY Zenon, <1>1, NameFacts
<1> QED
  BY <1>1, <1>2 DEF Size, Bytes, Range


(* Types are kept, and the file that is held stays the newest. *)
LEMMA NextPlaceInv ==
  TypeInv /\ PlaceInv /\ [Next]_vars => (TypeInv /\ PlaceInv)'
<1>s. SUFFICES ASSUME TypeInv, PlaceInv, [Next]_vars PROVE (TypeInv /\ PlaceInv)'
  OBVIOUS
<1> USE DEF loggerVars, fileVars, historyVars, TypeInv, PlaceInv
<1>f. /\ max_backups \in Nat /\ max_backups >= 1 /\ Names \subseteq Nat
      /\ 0 \in Names /\ 1 \in Names /\ Backups \subseteq Names
      /\ None \notin Nat /\ None \notin Names
      /\ \A n \in Nat : n <= max_backups <=> n \in Names
      /\ \A n \in Nat : n \in Backups <=> n \in Names /\ n # 0
  BY NameFacts
<1>1. ASSUME Start PROVE (TypeInv /\ PlaceInv)'
  <2>1. CASE at' = 0
    <3>1. /\ files' \in Dirs /\ files'[0] \in Seq(Nat) /\ files'[0] # None
          /\ Len(files'[0]) \in Nat
      <4>1. CASE files[0] = None
        <5>1. files' = [files EXCEPT ![0] = <<>>]
          BY <1>s, <1>f, <1>1, <2>1, <4>1 DEF Start
        <5> QED
          BY <1>s, <1>f, <5>1, EmptyFacts DEF Dirs
      <4>2. CASE files[0] # None
        BY <1>s, <1>f, <1>1, <2>1, <4>2, LenProperties DEF Start, Dirs
      <4> QED
        BY <4>1, <4>2
    <3> QED
      BY <1>s, <1>f, <1>1, <2>1, <3>1 DEF Start
  <2>2. CASE at' = None /\ UNCHANGED <<files, bytes_written, i>>
    BY <1>s, <1>f, <1>1, <2>2 DEF Start
  <2> QED
    BY <1>1, <2>1, <2>2 DEF Start
<1>2. ASSUME Crash PROVE (TypeInv /\ PlaceInv)'
  BY <1>s, <1>f, <1>2 DEF Crash
<1>3. ASSUME NEW type \in EventTypes, Send(type) PROVE (TypeInv /\ PlaceInv)'
  BY <1>s, <1>f, <1>3 DEF Send
<1>4. ASSUME NEW len \in 1..MaxLine, Write(len) PROVE (TypeInv /\ PlaceInv)'
  <2>1. /\ at \in Names /\ files[at] # None /\ len \in Nat /\ written + len \in Nat
        /\ bytes_written + len \in Nat
    BY <1>s, <1>4, SizeFacts DEF Write
  <2> DEFINE longer == files[at] \o Line(written, len)
  <2>2. longer \in Seq(Nat) /\ longer # None
    BY Zenon, <1>s, <2>1, FileFacts
  <2>3. files' = [files EXCEPT ![at] = longer]
    BY <1>4 DEF Write
  <2> HIDE DEF longer
  <2>4. /\ files' \in Dirs /\ files'[at] # None
        /\ \A n \in Names \ {at} : files'[n] = files[n]
    BY <1>s, <2>1, <2>2, <2>3 DEF Dirs
  <2> QED
    BY <1>s, <1>f, <1>4, <2>1, <2>4 DEF Write
<1>5. ASSUME WriteElsewhere PROVE (TypeInv /\ PlaceInv)'
  BY <1>s, <1>f, <1>5 DEF WriteElsewhere
<1>6. ASSUME AfterWrite PROVE (TypeInv /\ PlaceInv)'
  BY <1>s, <1>f, <1>6 DEF AfterWrite
<1>7. ASSUME Shift PROVE (TypeInv /\ PlaceInv)'
  <2>1. CASE pc' = "rename" /\ i = 0 /\ UNCHANGED <<i, files, at>>
    BY <1>s, <1>f, <1>7, <2>1 DEF Shift
  <2>2. CASE i >= 1 /\ i' = i - 1 /\ UNCHANGED <<pc, files, at>>
    BY <1>s, <1>f, <1>7, <2>2 DEF Shift
  <2>3. CASE i >= 1 /\ i' = i - 1 /\ files[i] # None /\ Renamed(i, i + 1) /\ UNCHANGED pc
    <3>1. pc = "shift" /\ i < max_backups /\ at # None
      BY <1>s, <1>7 DEF Shift
    <3>2. i \in Nat /\ i \in Names /\ i + 1 \in Nat /\ i + 1 \in Names /\ i # i + 1
      BY <1>s, <1>f, <2>3, <3>1
    <3>3. /\ files' \in Dirs /\ files'[i] = None /\ files'[i + 1] = files[i]
          /\ \A n \in Names \ {i, i + 1} : files'[n] = files[n]
      BY <1>s, <2>3, <3>2 DEF Renamed, Dirs
    <3>4. at \in Nat /\ at <= i
      BY <1>s, <1>f, <2>3, <3>1, <3>2
    <3>5. at' = (IF at = i THEN i + 1 ELSE at) /\ i' \in Nat /\ i' < max_backups
      BY <1>s, <1>f, <2>3, <3>1 DEF Renamed
    <3>6. UNCHANGED <<bytes_written, written, crashes, pc>>
      BY <1>7, <2>3 DEF Shift
    <3>7. at' \in Names /\ files'[at'] # None
      BY <1>s, <2>3, <3>1, <3>2, <3>3, <3>4, <3>5
    <3>8. \A m \in Names : m < at' => files'[m] = None
      <4>1. CASE at = i
        BY <1>s, <1>f, <3>2, <3>3, <3>5, <4>1
      <4>2. CASE at # i
        BY <1>s, <1>f, <3>1, <3>2, <3>3, <3>4, <3>5, <4>2
      <4> QED
        BY <4>1, <4>2
    <3> QED
      BY <1>s, <1>f, <3>1, <3>3, <3>5, <3>6, <3>7, <3>8
  <2> QED
    BY <1>s, <1>7, <2>1, <2>2, <2>3 DEF Shift
<1>8. ASSUME RenameActive PROVE (TypeInv /\ PlaceInv)'
  <2>1. CASE files[0] # None /\ Renamed(0, 1) /\ pc' = "open"
    <3>1. at = 0
      BY <1>s, <1>f, <1>8, <2>1 DEF RenameActive
    <3>2. /\ files' \in Dirs /\ files'[0] = None /\ files'[1] = files[0]
      BY <1>s, <1>f, <2>1 DEF Renamed, Dirs
    <3>3. at' = 1
      BY <2>1, <3>1 DEF Renamed
    <3>4. UNCHANGED <<i, bytes_written, written, crashes>>
      BY <1>8 DEF RenameActive
    <3> QED
      BY <1>s, <1>f, <2>1, <3>2, <3>3, <3>4
  <2>2. CASE pc' = "idle" /\ UNCHANGED <<files, at>>
    BY <1>s, <1>f, <1>8, <2>2 DEF RenameActive
  <2> QED
    BY <1>8, <2>1, <2>2 DEF RenameActive
<1>9. ASSUME OpenActive PROVE (TypeInv /\ PlaceInv)'
  <2>1. CASE files' = [files EXCEPT ![0] = <<>>] /\ at' = 0
    <3>1. files' \in Dirs /\ files'[0] # None
      BY <1>s, <1>f, <2>1, EmptyFacts DEF Dirs
    <3> QED
      BY <1>s, <1>f, <1>9, <2>1, <3>1 DEF OpenActive
  <2>2. CASE pc' = "idle" /\ UNCHANGED <<fileVars, i>>
    BY <1>s, <1>f, <1>9, <2>2 DEF OpenActive
  <2> QED
    BY <1>9, <2>1, <2>2 DEF OpenActive
<1>10. ASSUME CleanUp PROVE (TypeInv /\ PlaceInv)'
  <2>1. CASE i \in Backups /\ i' = i + 1 /\ files' = [files EXCEPT ![i] = None]
    <3>1. files' \in Dirs /\ files'[0] = files[0]
      BY <1>s, <1>f, <1>10, <2>1 DEF CleanUp, Dirs
    <3> QED
      BY <1>s, <1>f, <1>10, <2>1, <3>1 DEF CleanUp
  <2>2. CASE i' = i + 1 /\ UNCHANGED <<pc, files>>
    BY <1>s, <1>f, <1>10, <2>2 DEF CleanUp
  <2>3. CASE pc' = "idle" /\ UNCHANGED <<i, files>>
    BY <1>s, <1>f, <1>10, <2>3 DEF CleanUp
  <2> QED
    BY <1>10, <2>1, <2>2, <2>3 DEF CleanUp
<1>11. CASE UNCHANGED vars
  BY <1>s, <1>11 DEF vars
<1> QED
  BY Zenon, <1>s, <1>1, <1>2, <1>3, <1>4, <1>5, <1>6, <1>7, <1>8, <1>9,
     <1>10, <1>11 DEF Next, Rotation

-----------------------------------------------------------------------------
(* What each step does to the directory. *)

(* The files of one directory hold the same bytes as those of another,     *)
(* and the active file has the same size.                                  *)
SameFiles(f, g) == /\ \A n \in Names : Bytes(g[n]) = Bytes(f[n])
                   /\ \A n \in Names : Size(g[n]) = Size(f[n])

(* The file under one name is renamed to another. *)
Moved(f, g, a, b) ==
  /\ g[a] = None /\ g[b] = f[a]
  /\ \A n \in Names \ {a, b} : g[n] = f[n]

(* A line is added to one file. *)
Added(f, g, a, w, k) ==
  /\ Bytes(g[a]) = Bytes(f[a]) \cup (w + 1)..(w + k) /\ Size(g[a]) = Size(f[a]) + k
  /\ \A n \in Names \ {a} : g[n] = f[n]

(* Start makes the active file, if it is missing. *)
LEMMA StartEffect ==
  ASSUME TypeInv, Start
  PROVE  /\ SameFiles(files, files')
         /\ \/ at' = 0 /\ pc' = "cleanup" /\ bytes_written' = Size(files'[0])
            \/ at' = None /\ pc' = "idle"
<1>1. CASE at' = None /\ pc' = "idle" /\ UNCHANGED files
  BY <1>1 DEF SameFiles
<1>2. CASE /\ files' = [files EXCEPT ![0] = IF @ = None THEN <<>> ELSE @]
           /\ at' = 0 /\ pc' = "cleanup" /\ bytes_written' = Len(files'[0])
  <2>1. CASE files[0] = None
    <3>1. files' = [files EXCEPT ![0] = <<>>]
      BY <1>2, <2>1, NameFacts DEF TypeInv, Dirs
    <3>2. files'[0] = <<>> /\ \A n \in Names \ {0} : files'[n] = files[n]
      BY <3>1, NameFacts DEF TypeInv, Dirs
    <3>3. SameFiles(files, files')
      BY Zenon, <2>1, <3>2, EmptyFacts DEF SameFiles
    <3>4. bytes_written' = Size(files'[0])
      BY <1>2, <3>2, EmptyFacts
    <3> QED
      BY <1>2, <3>3, <3>4
  <2>2. CASE files[0] # None
    <3>1. files' = files
      BY <1>2, <2>2, NameFacts DEF TypeInv, Dirs
    <3>2. SameFiles(files, files')
      BY <3>1 DEF SameFiles
    <3>3. bytes_written' = Size(files'[0])
      BY <1>2, <2>2, <3>1 DEF Size
    <3> QED
      BY <1>2, <3>2, <3>3
  <2> QED
    BY <2>1, <2>2
<1> QED
  BY <1>1, <1>2 DEF Start

(* Opening a new active file makes an empty one. *)
LEMMA OpenEffect ==
  ASSUME TypeInv, PlaceInv, OpenActive
  PROVE  \/ SameFiles(files, files') /\ at' = 0 /\ pc' = "cleanup"
            /\ bytes_written' = 0 /\ Size(files'[0]) = 0 /\ UNCHANGED failed
         \/ UNCHANGED files /\ pc' = "idle" /\ failed'
<1>1. CASE /\ files' = [files EXCEPT ![0] = <<>>] /\ at' = 0 /\ pc' = "cleanup"
           /\ bytes_written' = 0 /\ UNCHANGED failed
  <2>1. files[0] = None
    BY NameFacts DEF PlaceInv, OpenActive
  <2>2. files'[0] = <<>> /\ \A n \in Names \ {0} : files'[n] = files[n]
    BY <1>1, NameFacts DEF TypeInv, Dirs
  <2>3. SameFiles(files, files') /\ Size(files'[0]) = 0
    BY <2>1, <2>2, EmptyFacts DEF SameFiles
  <2> QED
    BY <1>1, <2>3
<1>2. CASE pc' = "idle" /\ failed' = TRUE /\ UNCHANGED <<fileVars, i>>
  BY <1>2 DEF fileVars
<1> QED
  BY Zenon, <1>1, <1>2 DEF OpenActive

(* A write adds the next line to the newest file. *)
LEMMA WriteEffect ==
  ASSUME TypeInv, PlaceInv, NEW len \in 1..MaxLine, Write(len)
  PROVE  /\ at \in Names /\ Added(files, files', at, written, len)
         /\ \A m \in Names : m < at => files[m] = None
<1>1. at \in Names /\ files[at] # None /\ written \in Nat /\ len \in Nat
  BY SizeFacts DEF Write, TypeInv, PlaceInv
<1>2. /\ files[at] \o Line(written, len) # None
      /\ Len(files[at] \o Line(written, len)) = Len(files[at]) + len
      /\ Holds(files[at], files[at] \o Line(written, len), written, len)
  <2>1. files \in Dirs
    BY DEF TypeInv
  <2> QED
    BY Zenon, <1>1, <2>1, FileFacts
<1> DEFINE longer == files[at] \o Line(written, len)
<1>3. files'[at] = longer /\ \A n \in Names \ {at} : files'[n] = files[n]
  <2>1. files' = [files EXCEPT ![at] = longer]
    BY DEF Write
  <2> HIDE DEF longer
  <2> QED
    BY <1>1, <2>1 DEF TypeInv, Dirs
<1>4. Size(files'[at]) = Size(files[at]) + len
  BY Zenon, <1>1, <1>2, <1>3 DEF Size
<1>5. Bytes(files'[at]) = Bytes(files[at]) \cup (written + 1)..(written + len)
  BY Zenon, <1>1, <1>2, <1>3 DEF Bytes, Holds
<1>6. \A m \in Names : m < at => files[m] = None
  BY DEF Write, PlaceInv
<1> QED
  BY Zenon, <1>1, <1>3, <1>4, <1>5, <1>6 DEF Added

(* Shifting moves the backup to the next name, or leaves all as it is. *)
LEMMA ShiftEffect ==
  ASSUME TypeInv, PlaceInv, Shift
  PROVE  /\ i \in Nat /\ i < max_backups
         /\ \/ pc' = "rename" /\ i = 0 /\ UNCHANGED <<i, files, at, overwritten, failed>>
            \/ /\ i > 0 /\ i' = i - 1 /\ pc' = pc
               /\ \/ files[i] = None /\ UNCHANGED <<files, at, overwritten, failed>>
                  \/ /\ files[i] # None /\ Moved(files, files', i, i + 1)
                     /\ UNCHANGED <<overwritten, failed>>
                     /\ at # 0 \/ at' = at
                  \/ files[i] # None /\ overwritten' /\ failed' /\ UNCHANGED <<files, at>>
<1>1. i \in Nat /\ i < max_backups
  BY DEF TypeInv, PlaceInv, Shift
<1>2. CASE i >= 1 /\ i' = i - 1 /\ files[i] # None /\ Renamed(i, i + 1) /\ UNCHANGED pc
           /\ UNCHANGED <<overwritten, failed>>
  <2>1. i \in Names /\ i + 1 \in Names /\ i # i + 1
    BY <1>1, <1>2, NameFacts
  <2>2. Moved(files, files', i, i + 1)
    BY <1>2, <2>1 DEF Renamed, TypeInv, Dirs, Moved
  <2>3. at # 0 \/ at' = at
    BY <1>1, <1>2 DEF Renamed
  <2> QED
    BY <1>1, <1>2, <2>2, <2>3
<1>3. CASE i = 0 /\ pc' = "rename" /\ UNCHANGED <<i, files, at, overwritten, failed>>
  BY <1>1, <1>3
<1>4. CASE /\ i >= 1 /\ i' = i - 1 /\ UNCHANGED pc
           /\ \/ /\ files[i] = None
                 /\ UNCHANGED <<files, at, overwritten, failed>>
              \/ /\ files[i] # None
                 /\ overwritten' = TRUE /\ failed' = TRUE
                 /\ UNCHANGED <<files, at>>
  BY <1>1, <1>4
<1> QED
  BY Zenon, <1>2, <1>3, <1>4 DEF Shift

(* The active file becomes the first backup, or the rotation is given up. *)
LEMMA RenameEffect ==
  ASSUME TypeInv, PlaceInv, RenameActive
  PROVE  /\ i = 0
         /\ \/ Moved(files, files', 0, 1) /\ pc' = "open" /\ at' = 1 /\ UNCHANGED failed
            \/ UNCHANGED <<files, at>> /\ pc' = "idle" /\ failed'
<1>1. CASE files[0] # None /\ Renamed(0, 1) /\ pc' = "open" /\ UNCHANGED failed
  <2>1. at = 0
    BY <1>1, NameFacts DEF RenameActive, TypeInv, PlaceInv
  <2>2. Moved(files, files', 0, 1)
    BY <1>1, NameFacts DEF Renamed, TypeInv, Dirs, Moved
  <2> QED
    BY <1>1, <2>1, <2>2 DEF Renamed, RenameActive, PlaceInv
<1>2. CASE pc' = "idle" /\ failed' = TRUE /\ UNCHANGED <<files, at>>
  BY <1>2 DEF RenameActive, PlaceInv
<1> QED
  BY Zenon, <1>1, <1>2 DEF RenameActive

(* A backup that is too old is removed, and its bytes are noted. *)
LEMMA CleanUpEffect ==
  ASSUME TypeInv, PlaceInv, CleanUp
  PROVE  \/ UNCHANGED <<files, expired>>
         \/ /\ i \in Backups /\ files'[i] = None
            /\ \A n \in Names \ {i} : files'[n] = files[n]
            /\ expired' = expired \cup Bytes(files[i])
<1>1. CASE /\ i \in Backups /\ files' = [files EXCEPT ![i] = None]
           /\ expired' = expired \cup Elements(i)
  BY <1>1, NameFacts DEF TypeInv, Dirs, Elements, Bytes
<1> QED
  BY <1>1 DEF CleanUp

-----------------------------------------------------------------------------
(* The order of the bytes. *)
Ordered(f, w) ==
  /\ \A n \in Names : Bytes(f[n]) \subseteq 1..w
  /\ \A m, n \in Names : m < n => \A a \in Bytes(f[m]), b \in Bytes(f[n]) : b < a

OrderInv == Ordered(files, written)

(* Order does not suffer from removals. *)
LEMMA OrderedLess ==
  ASSUME NEW f, NEW g, NEW w \in Nat, Ordered(f, w),
         \A n \in Names : Bytes(g[n]) \subseteq Bytes(f[n])
  PROVE  Ordered(g, w)
BY DEF Ordered

(* A line added to the newest file is the newest. *)
LEMMA OrderedAdd ==
  ASSUME NEW f, NEW g, NEW w \in Nat, NEW k \in Nat, NEW c \in Names, Ordered(f, w),
         Added(f, g, c, w, k), \A m \in Names : m < c => f[m] = None
  PROVE  Ordered(g, w + k)
<1> USE NameFacts
<1>1. \A n \in Names : Bytes(g[n]) \subseteq 1..(w + k)
  BY DEF Ordered, Added
<1>2. ASSUME NEW m \in Names, NEW n \in Names, m < n,
             NEW a \in Bytes(g[m]), NEW b \in Bytes(g[n])
      PROVE  b < a
  <2>1. m >= c
    <3>1. CASE m < c
      BY <1>2, <3>1, EmptyFacts DEF Added
    <3> QED
      BY <3>1
  <2>2. n # c /\ b \in Bytes(f[n]) /\ b \in 1..w
    BY <1>2, <2>1 DEF Added, Ordered
  <2>3. CASE a \in (w + 1)..(w + k)
    BY <2>2, <2>3
  <2>4. CASE a \in Bytes(f[m])
    BY <1>2, <2>2, <2>4 DEF Ordered
  <2> QED
    BY <1>2, <2>3, <2>4 DEF Added
<1> QED
  BY <1>1, <1>2 DEF Ordered

(* A file that gets the next name stays where it was in the order. *)
LEMMA OrderedMove ==
  ASSUME NEW f, NEW g, NEW w \in Nat, NEW c \in Names, c + 1 \in Names,
         Ordered(f, w), Moved(f, g, c, c + 1)
  PROVE  Ordered(g, w)
<1> USE NameFacts
<1>1. Bytes(g[c]) = {} /\ Bytes(g[c + 1]) = Bytes(f[c]) /\ c # c + 1
  BY EmptyFacts DEF Moved
<1>2. \A n \in Names : Bytes(g[n]) \subseteq 1..w
  BY <1>1 DEF Ordered, Moved
<1>3. ASSUME NEW m \in Names, NEW n \in Names, m < n,
             NEW a \in Bytes(g[m]), NEW b \in Bytes(g[n])
      PROVE  b < a
  <2>1. m # c /\ n # c
    BY <1>1, <1>3
  <2>2. CASE m = c + 1
    BY <1>1, <1>3, <2>2 DEF Ordered, Moved
  <2>3. CASE n = c + 1
    BY <1>1, <1>3, <2>1, <2>3 DEF Ordered, Moved
  <2>4. CASE m # c + 1 /\ n # c + 1
    BY <1>3, <2>1, <2>4 DEF Ordered, Moved
  <2> QED
    BY <2>2, <2>3, <2>4
<1> QED
  BY <1>2, <1>3 DEF Ordered


(* No step puts a byte before one that is older. *)
LEMMA NextOrderInv ==
  TypeInv /\ PlaceInv /\ OrderInv /\ [Next]_vars => OrderInv'
<1>s. SUFFICES ASSUME TypeInv, PlaceInv, OrderInv, [Next]_vars PROVE OrderInv'
  OBVIOUS
<1> USE DEF loggerVars, fileVars, historyVars
<1>t. written \in Nat /\ Ordered(files, written)
  BY <1>s DEF TypeInv, OrderInv
<1>p. Ordered(files', written') => OrderInv'
  BY DEF OrderInv, Ordered, Bytes, Range
<1>1. ASSUME Start PROVE OrderInv'
  <2>1. written' = written
    BY <1>1 DEF Start
  <2>2. \A n \in Names : Bytes(files'[n]) \subseteq Bytes(files[n])
    BY <1>s, <1>1, StartEffect DEF SameFiles
  <2> QED
    BY <1>t, <1>p, <2>1, <2>2, OrderedLess
<1>2. ASSUME Crash PROVE OrderInv'
  BY <1>t, <1>p, <1>2 DEF Crash
<1>3. ASSUME NEW type \in EventTypes, Send(type) PROVE OrderInv'
  BY <1>t, <1>p, <1>3 DEF Send
<1>4. ASSUME NEW len \in 1..MaxLine, Write(len) PROVE OrderInv'
  <2>1. written' = written + len /\ len \in Nat
    BY <1>4, SizeFacts DEF Write
  <2> QED
    BY <1>s, <1>t, <1>p, <1>4, <2>1, WriteEffect, OrderedAdd
<1>5. ASSUME WriteElsewhere PROVE OrderInv'
  BY <1>t, <1>p, <1>5 DEF WriteElsewhere
<1>6. ASSUME AfterWrite PROVE OrderInv'
  BY <1>t, <1>p, <1>6 DEF AfterWrite
<1>7. ASSUME Shift PROVE OrderInv'
  <2>1. written' = written
    BY <1>7 DEF Shift
  <2>2. CASE i > 0 /\ Moved(files, files', i, i + 1)
    <3>1. i \in Names /\ i + 1 \in Names
      BY <1>s, <1>7, ShiftEffect, NameFacts
    <3> QED
      BY <1>t, <1>p, <2>1, <2>2, <3>1, OrderedMove
  <2>3. CASE UNCHANGED files
    BY <1>t, <1>p, <2>1, <2>3
  <2> QED
    BY <1>s, <1>7, <2>2, <2>3, ShiftEffect
<1>8. ASSUME RenameActive PROVE OrderInv'
  <2>1. written' = written
    BY <1>8 DEF RenameActive
  <2>2. CASE Moved(files, files', 0, 1)
    <3>1. 0 \in Names /\ 0 + 1 \in Names /\ Moved(files, files', 0, 0 + 1)
      BY <2>2, NameFacts
    <3> QED
      BY <1>t, <1>p, <2>1, <3>1, OrderedMove
  <2>3. CASE UNCHANGED files
    BY <1>t, <1>p, <2>1, <2>3
  <2> QED
    BY <1>s, <1>8, <2>2, <2>3, RenameEffect
<1>9. ASSUME OpenActive PROVE OrderInv'
  <2>1. written' = written
    BY <1>9 DEF OpenActive
  <2>2. \A n \in Names : Bytes(files'[n]) \subseteq Bytes(files[n])
    BY <1>s, <1>9, OpenEffect DEF SameFiles
  <2> QED
    BY <1>t, <1>p, <2>1, <2>2, OrderedLess
<1>10. ASSUME CleanUp PROVE OrderInv'
  <2>1. written' = written
    BY <1>10 DEF CleanUp
  <2>2. \A n \in Names : Bytes(files'[n]) \subseteq Bytes(files[n])
    BY <1>s, <1>10, CleanUpEffect, EmptyFacts
  <2> QED
    BY <1>t, <1>p, <2>1, <2>2, OrderedLess
<1>11. CASE UNCHANGED vars
  BY <1>t, <1>p, <1>11 DEF vars
<1> QED
  BY Zenon, <1>s, <1>1, <1>2, <1>3, <1>4, <1>5, <1>6, <1>7, <1>8, <1>9,
     <1>10, <1>11 DEF Next, Rotation

-----------------------------------------------------------------------------
(* No gaps. *)
Kept(f, x, e) == e \in x \/ \E n \in Names : e \in Bytes(f[n])

NoGap(f, w, x) ==
  \A e \in 1..w, n \in Names : \A old \in Bytes(f[n]) : old <= e => Kept(f, x, e)

(* While a rotation goes on and no rename of a backup has failed, the name *)
(* that the next one gets is free, but for the last.                       *)
GapInv ==
  /\ pc \in {"shift", "rename"} /\ ~overwritten /\ i + 1 < max_backups
       => files[i + 1] = None
  /\ ~overwritten => NoGap(files, written, expired)

(* A line that is written is kept. *)
LEMMA NoGapAdd ==
  ASSUME NEW f, NEW g, NEW w \in Nat, NEW k \in Nat, NEW c \in Names, NEW x,
         Ordered(f, w), Added(f, g, c, w, k), NoGap(f, w, x)
  PROVE  NoGap(g, w + k, x)
<1> SUFFICES ASSUME NEW e \in 1..(w + k), NEW n \in Names, NEW old \in Bytes(g[n]), old <= e
             PROVE  Kept(g, x, e)
  BY DEF NoGap
<1>1. CASE e \in (w + 1)..(w + k)
  BY <1>1 DEF Kept, Added
<1>2. CASE e \notin (w + 1)..(w + k)
  <2>1. e \in 1..w /\ old \notin (w + 1)..(w + k)
    BY <1>2
  <2>2. old \in Bytes(f[n])
    BY <2>1 DEF Added
  <2>3. Kept(f, x, e)
    BY <2>1, <2>2 DEF NoGap
  <2>4. \A m \in Names : Bytes(f[m]) \subseteq Bytes(g[m])
    BY DEF Added
  <2> QED
    BY <2>3, <2>4 DEF Kept
<1> QED
  BY <1>1, <1>2

(* A file that gets the next name replaces none, or the oldest. *)
LEMMA NoGapMove ==
  ASSUME NEW f, NEW g, NEW w \in Nat, NEW c \in Names, NEW x, c + 1 \in Names,
         Ordered(f, w), Moved(f, g, c, c + 1), NoGap(f, w, x),
         c + 1 < max_backups => f[c + 1] = None
  PROVE  NoGap(g, w, x)
<1> SUFFICES ASSUME NEW e \in 1..w, NEW n \in Names, NEW old \in Bytes(g[n]), old <= e
             PROVE  Kept(g, x, e)
  BY DEF NoGap
<1>1. Bytes(g[c]) = {} /\ Bytes(g[c + 1]) = Bytes(f[c]) /\ c # c + 1
  BY NameFacts, EmptyFacts DEF Moved
<1>2. PICK m \in Names : m # c + 1 /\ old \in Bytes(f[m])
  BY <1>1 DEF Moved
<1>3. Kept(f, x, e)
  BY <1>2 DEF NoGap
<1>4. CASE e \in x
  BY <1>4 DEF Kept
<1>5. ASSUME NEW k \in Names, e \in Bytes(f[k]), k # c + 1
      PROVE  Kept(g, x, e)
  BY <1>1, <1>5 DEF Kept, Moved
<1>6. CASE e \in Bytes(f[c + 1])
  <2>1. c + 1 = max_backups
    BY <1>6, NameFacts, EmptyFacts
  <2>2. m < c + 1
    BY <1>2, <2>1, NameFacts
  <2>3. e < old /\ e \in Nat /\ old \in Nat
    BY <1>2, <1>6, <2>2 DEF Ordered
  <2> QED
    BY <2>3
<1> QED
  BY <1>3, <1>4, <1>5, <1>6 DEF Kept

(* What is removed by age is noted. *)
LEMMA NoGapRemove ==
  ASSUME NEW f, NEW g, NEW w \in Nat, NEW c \in Names, NEW x, NoGap(f, w, x),
         g[c] = None, \A n \in Names \ {c} : g[n] = f[n]
  PROVE  NoGap(g, w, x \cup Bytes(f[c]))
BY EmptyFacts DEF NoGap, Kept

(* Only the bytes count. *)
LEMMA NoGapSame ==
  ASSUME NEW f, NEW g, NEW w \in Nat, NEW x, NoGap(f, w, x), SameFiles(f, g)
  PROVE  NoGap(g, w, x)
BY DEF NoGap, Kept, SameFiles


(* A rotation loses the oldest file only. *)
LEMMA NextGapInv ==
  TypeInv /\ PlaceInv /\ OrderInv /\ GapInv /\ [Next]_vars => GapInv'
<1>s. SUFFICES ASSUME TypeInv, PlaceInv, OrderInv, GapInv, [Next]_vars PROVE GapInv'
  OBVIOUS
<1> USE DEF loggerVars, fileVars, historyVars
<1>t. written \in Nat /\ i \in Nat /\ Ordered(files, written)
  BY <1>s DEF TypeInv, OrderInv
<1>g. ~overwritten => NoGap(files, written, expired)
  BY <1>s DEF GapInv
<1>p. /\ (pc' \in {"shift", "rename"} /\ ~overwritten' /\ i' + 1 < max_backups
           => files'[i' + 1] = None)
      /\ (~overwritten' => NoGap(files', written', expired'))
      => GapInv'
  BY DEF GapInv, NoGap, Kept, Bytes, Range
<1>1. ASSUME Start PROVE GapInv'
  <2>1. pc' \notin {"shift", "rename"} /\ SameFiles(files, files')
    BY <1>s, <1>1, StartEffect
  <2>2. ~overwritten => NoGap(files', written, expired)
    BY <1>t, <1>g, <2>1, NoGapSame
  <2> QED
    BY <1>p, <1>1, <2>1, <2>2 DEF Start
<1>2. ASSUME Crash PROVE GapInv'
  BY <1>g, <1>p, <1>2 DEF Crash
<1>3. ASSUME NEW type \in EventTypes, Send(type) PROVE GapInv'
  BY <1>s, <1>g, <1>p, <1>3 DEF Send, GapInv
<1>4. ASSUME NEW len \in 1..MaxLine, Write(len) PROVE GapInv'
  <2>0. len \in Nat
    BY SizeFacts
  <2>1. ~overwritten => NoGap(files', written + len, expired)
    BY <1>s, <1>t, <1>g, <1>4, <2>0, WriteEffect, NoGapAdd
  <2> QED
    BY <1>p, <1>4, <2>1 DEF Write
<1>5. ASSUME WriteElsewhere PROVE GapInv'
  BY <1>g, <1>p, <1>5 DEF WriteElsewhere
<1>6. ASSUME AfterWrite PROVE GapInv'
  BY <1>t, <1>g, <1>p, <1>6, NameFacts DEF AfterWrite
<1>7. ASSUME Shift PROVE GapInv'
  <2>1. pc = "shift" /\ UNCHANGED <<written, expired>>
    BY <1>7 DEF Shift
  <2>2. CASE pc' = "rename" /\ UNCHANGED <<i, files, overwritten>>
    BY <1>s, <1>p, <1>g, <2>1, <2>2 DEF GapInv
  <2>3. CASE overwritten'
    BY <1>p, <2>3
  <2>4. CASE /\ i > 0 /\ i' = i - 1 /\ files[i] = None
             /\ UNCHANGED <<files, overwritten>>
    <3>1. i' + 1 = i
      BY <1>t, <2>4
    <3> QED
      BY <1>p, <1>g, <2>1, <2>4, <3>1
  <2>5. CASE /\ i > 0 /\ i' = i - 1 /\ Moved(files, files', i, i + 1)
             /\ UNCHANGED overwritten
    <3>1. /\ i' + 1 = i /\ i \in Names /\ i + 1 \in Names
      BY <1>s, <1>t, <1>7, <2>5, ShiftEffect, NameFacts
    <3>2. ~overwritten /\ i + 1 < max_backups => files[i + 1] = None
      BY <1>s, <2>1 DEF GapInv
    <3>3. ~overwritten => NoGap(files', written, expired)
      BY <1>t, <1>g, <2>5, <3>1, <3>2, NoGapMove
    <3> QED
      BY <1>p, <2>1, <2>5, <3>1, <3>3 DEF Moved
  <2> QED
    BY <1>s, <1>7, <2>2, <2>3, <2>4, <2>5, ShiftEffect
<1>8. ASSUME RenameActive PROVE GapInv'
  <2>1. UNCHANGED <<written, expired, overwritten>> /\ pc = "rename" /\ i = 0
    BY Zenon, <1>s, <1>8, RenameEffect DEF RenameActive
  <2>2. pc' \notin {"shift", "rename"}
    BY <1>8 DEF RenameActive
  <2>3. CASE Moved(files, files', 0, 1)
    <3>1. 0 \in Names /\ 0 + 1 \in Names /\ Moved(files, files', 0, 0 + 1)
      BY <2>3, NameFacts
    <3>2. ~overwritten /\ 0 + 1 < max_backups => files[0 + 1] = None
      BY <1>s, <2>1 DEF GapInv
    <3>3. ~overwritten => NoGap(files', written, expired)
      BY <1>t, <1>g, <3>1, <3>2, NoGapMove
    <3> QED
      BY <1>p, <2>1, <2>2, <3>3
  <2>4. CASE UNCHANGED files
    BY <1>p, <1>g, <2>1, <2>2, <2>4
  <2> QED
    BY <1>s, <1>8, <2>3, <2>4, RenameEffect
<1>9. ASSUME OpenActive PROVE GapInv'
  <2>1. pc' \notin {"shift", "rename"} /\ (SameFiles(files, files') \/ UNCHANGED files)
    BY <1>s, <1>9, OpenEffect
  <2>2. ~overwritten => NoGap(files', written, expired)
    BY <1>t, <1>g, <2>1, NoGapSame
  <2> QED
    BY <1>p, <1>9, <2>1, <2>2 DEF OpenActive
<1>10. ASSUME CleanUp PROVE GapInv'
  <2>1. UNCHANGED <<written, overwritten>> /\ pc' \notin {"shift", "rename"}
    BY <1>10 DEF CleanUp
  <2>2. CASE UNCHANGED <<files, expired>>
    BY <1>p, <1>g, <2>1, <2>2
  <2>3. CASE /\ i \in Backups /\ files'[i] = None
             /\ \A n \in Names \ {i} : files'[n] = files[n]
             /\ expired' = expired \cup Bytes(files[i])
    <3>1. ~overwritten => NoGap(files', written, expired')
      BY <1>t, <1>g, <2>3, NoGapRemove, NameFacts
    <3> QED
      BY <1>p, <2>1, <3>1
  <2> QED
    BY <1>s, <1>10, <2>2, <2>3, CleanUpEffect
<1>11. CASE UNCHANGED vars
  BY <1>s, <1>g, <1>p, <1>11 DEF vars, GapInv
<1> QED
  BY Zenon, <1>s, <1>1, <1>2, <1>3, <1>4, <1>5, <1>6, <1>7, <1>8, <1>9,
     <1>10, <1>11 DEF Next, Rotation


(* It all starts with an empty directory. *)
LEMMA InitInv == Init => TypeInv /\ PlaceInv /\ OrderInv /\ GapInv
<1> SUFFICES ASSUME Init PROVE TypeInv /\ PlaceInv /\ OrderInv /\ GapInv
  OBVIOUS
<1>1. \A n \in Names : files[n] = None /\ Bytes(files[n]) = {}
  BY EmptyFacts DEF Init
<1>2. TypeInv /\ PlaceInv
  BY NameFacts DEF Init, TypeInv, PlaceInv, Dirs
<1>3. OrderInv /\ GapInv
  BY <1>1 DEF Init, OrderInv, Ordered, GapInv, NoGap
<1> QED
  BY <1>2, <1>3

(* The files hold the lines in the order they were written without gaps    *)
(* (FileAuditWriter::rotate), wherever rotations crash and whichever       *)
(* renames of the active file or opens of a new one fail; only a failed    *)
(* rename of a backup can leave a gap.                                     *)
THEOREM LogHasNoGap == Spec => []NoGapInLog
<1>1. TypeInv /\ PlaceInv /\ OrderInv /\ GapInv /\ [Next]_vars
        => (TypeInv /\ PlaceInv /\ OrderInv /\ GapInv)'
  BY NextPlaceInv, NextOrderInv, NextGapInv
<1>2. ASSUME OrderInv, GapInv PROVE NoGapInLog
  <2>1. \A n : Elements(n) = Bytes(files[n])
    BY DEF Elements, Bytes
  <2>2. \A m, n \in Names : m < n => \A a \in Elements(m), b \in Elements(n) : b < a
    BY <1>2, <2>1 DEF OrderInv, Ordered
  <2>3. ASSUME ~overwritten, NEW e \in 1..written, NEW old \in Retained, old <= e
        PROVE  e \in Retained \cup expired
    <3>1. PICK n \in Names : old \in Bytes(files[n])
      BY <2>1 DEF Retained
    <3>2. Kept(files, expired, e)
      BY <1>2, <2>3, <3>1 DEF GapInv, NoGap
    <3> QED
      BY <2>1, <3>2 DEF Kept, Retained
  <2> QED
    BY <2>2, <2>3 DEF NoGapInLog
<1> QED
  BY <1>1, <1>2, InitInv, PTL DEF Spec

-----------------------------------------------------------------------------
(* While no file operation has failed. *)

(* The writer holds the active file, whose size it knows, or, between the  *)
(* two halves of a rotation, the file that was the active one.             *)
HoldInv == ~failed =>
  /\ ~overwritten
  /\ at \in {0, None} \/ pc = "open"
  /\ at = 0 => bytes_written = Size(files[0])
  /\ pc \in {"shift", "rename"} => Size(files[0]) >= max_size

(* Sizes are numbers. *)
LEMMA SizeIsNat == TypeInv => \A n \in Names : Size(files[n]) \in Nat
BY LenProperties DEF TypeInv, Dirs, Size


(* The writer's count follows the active file. *)
LEMMA NextHoldInv ==
  TypeInv /\ PlaceInv /\ HoldInv /\ [Next]_vars => HoldInv'
<1>s. SUFFICES ASSUME TypeInv, PlaceInv, HoldInv, [Next]_vars PROVE HoldInv'
  OBVIOUS
<1> USE DEF loggerVars, fileVars, historyVars
<1>t. /\ bytes_written \in Nat /\ Size(files[0]) \in Nat
      /\ max_size \in Nat /\ None # 0 /\ 1 # None
  BY <1>s, SizeIsNat, NameFacts, SizeFacts DEF TypeInv
<1>p. (~failed' => /\ ~overwritten'
                   /\ at' \in {0, None} \/ pc' = "open"
                   /\ at' = 0 => bytes_written' = Size(files'[0])
                   /\ pc' \in {"shift", "rename"} => Size(files'[0]) >= max_size)
      => HoldInv'
  BY DEF HoldInv, Size
<1>1. ASSUME Start PROVE HoldInv'
  <2>1. UNCHANGED <<failed, overwritten>> /\ pc = "down"
    BY <1>1 DEF Start
  <2> QED
    BY <1>s, <1>t, <1>p, <1>1, <2>1, StartEffect DEF HoldInv
<1>2. ASSUME Crash PROVE HoldInv'
  BY <1>s, <1>t, <1>p, <1>2 DEF Crash, HoldInv
<1>3. ASSUME NEW type \in EventTypes, Send(type) PROVE HoldInv'
  BY <1>s, <1>t, <1>p, <1>3 DEF Send, HoldInv
<1>4. ASSUME NEW len \in 1..MaxLine, Write(len) PROVE HoldInv'
  <2>1. /\ UNCHANGED <<failed, overwritten, at>> /\ at # None /\ pc = "idle"
        /\ pc' = "written" /\ bytes_written' = bytes_written + len
    BY <1>4 DEF Write
  <2>2. Size(files'[at]) = Size(files[at]) + len
    BY <1>s, <1>4, WriteEffect DEF Added
  <2> QED
    BY <1>s, <1>t, <1>p, <2>1, <2>2 DEF HoldInv
<1>5. ASSUME WriteElsewhere PROVE HoldInv'
  BY Zenon, <1>s, <1>t, <1>p, <1>5 DEF WriteElsewhere, HoldInv
<1>6. ASSUME AfterWrite PROVE HoldInv'
  BY <1>s, <1>t, <1>p, <1>6 DEF AfterWrite, HoldInv, PlaceInv
<1>7. ASSUME Shift PROVE HoldInv'
  <2>1. UNCHANGED bytes_written /\ pc = "shift"
    BY <1>7 DEF Shift
  <2>2. CASE failed'
    BY <1>p, <2>2
  <2>3. CASE UNCHANGED <<files, at, overwritten, failed>>
    BY <1>s, <1>p, <2>1, <2>3 DEF HoldInv
  <2>4. CASE /\ i > 0 /\ Moved(files, files', i, i + 1)
             /\ UNCHANGED <<overwritten, failed>> /\ (at # 0 \/ at' = at)
    <3>1. files'[0] = files[0]
      BY <1>s, <1>7, <2>4, NameFacts, ShiftEffect DEF Moved
    <3>2. ~failed => at = 0
      BY <1>s, <2>1 DEF HoldInv, PlaceInv
    <3> QED
      BY <1>s, <1>p, <2>1, <2>4, <3>1, <3>2 DEF HoldInv
  <2> QED
    BY <1>s, <1>7, <2>2, <2>3, <2>4, ShiftEffect
<1>8. ASSUME RenameActive PROVE HoldInv'
  <2>1. UNCHANGED overwritten
    BY <1>8 DEF RenameActive
  <2> QED
    BY <1>s, <1>t, <1>p, <1>8, <2>1, RenameEffect DEF HoldInv
<1>9. ASSUME OpenActive PROVE HoldInv'
  <2>1. UNCHANGED overwritten
    BY <1>9 DEF OpenActive
  <2> QED
    BY <1>s, <1>t, <1>p, <1>9, <2>1, OpenEffect DEF HoldInv
<1>10. ASSUME CleanUp PROVE HoldInv'
  <2>1. /\ UNCHANGED <<at, bytes_written, overwritten, failed>> /\ pc = "cleanup"
        /\ pc' \in {"cleanup", "idle"}
    BY <1>10 DEF CleanUp
  <2>2. files'[0] = files[0]
    BY <1>s, <1>10, CleanUpEffect, NameFacts
  <2> QED
    BY <1>s, <1>p, <2>1, <2>2 DEF HoldInv
<1>11. CASE UNCHANGED vars
  BY <1>s, <1>t, <1>p, <1>11 DEF vars, HoldInv
<1> QED
  BY Zenon, <1>s, <1>1, <1>2, <1>3, <1>4, <1>5, <1>6, <1>7, <1>8, <1>9,
     <1>10, <1>11 DEF Next, Rotation


(* The size that a file stays below before a write, after c crashes. *)
Room(c) == max_size + MaxLine * c

(* A crash makes room for one more line. *)
LEMMA RoomFacts ==
  ASSUME NEW c \in Nat
  PROVE  /\ Room(c) \in Nat /\ Room(c) >= max_size
         /\ Room(1 + c) \in Nat /\ Room(1 + c) = Room(c) + MaxLine
         /\ Room(1 + (1 + c)) \in Nat /\ Room(1 + (1 + c)) = Room(1 + c) + MaxLine
<1>1. max_size \in Nat /\ MaxLine \in Nat
  BY SizeFacts
<1>2. /\ MaxLine * c \in Nat /\ MaxLine * (1 + c) \in Nat /\ MaxLine * (1 + (1 + c)) \in Nat
      /\ MaxLine * (1 + c) = MaxLine * c + MaxLine
      /\ MaxLine * (1 + (1 + c)) = MaxLine * (1 + c) + MaxLine
  BY <1>1
<1> QED
  BY <1>1, <1>2 DEF Room

(* A file is full when it is rotated, but for a line per crash. *)
BoundInv == ~failed =>
  /\ \A n \in Names : Size(files[n]) < Room(1 + crashes)
  /\ pc \in {"down", "idle", "cleanup"} => Size(files[0]) < Room(crashes)


(* No write goes to a file that is full, but for one after a crash. *)
LEMMA NextBoundInv ==
  TypeInv /\ PlaceInv /\ HoldInv /\ BoundInv /\ [Next]_vars => BoundInv'
<1>s. SUFFICES ASSUME TypeInv, PlaceInv, HoldInv, BoundInv, [Next]_vars PROVE BoundInv'
  OBVIOUS
<1> USE DEF loggerVars, fileVars, historyVars
<1>t. /\ bytes_written \in Nat /\ Names \subseteq Nat /\ 0 \in Names
      /\ \A n \in Names : Size(files[n]) \in Nat
      /\ max_size \in Nat /\ max_size > 0 /\ crashes \in Nat
      /\ Size(None) = 0 /\ Size(<<>>) = 0 /\ MaxLine \in Nat
  BY <1>s, SizeIsNat, NameFacts, SizeFacts, EmptyFacts DEF TypeInv
<1>r. /\ Room(crashes) \in Nat /\ Room(crashes) >= max_size
      /\ Room(1 + crashes) \in Nat /\ Room(1 + crashes) = Room(crashes) + MaxLine
      /\ Room(1 + (1 + crashes)) \in Nat
      /\ Room(1 + (1 + crashes)) = Room(1 + crashes) + MaxLine
      /\ 0 < Room(1 + crashes)
  <2>1. /\ Room(crashes) \in Nat /\ Room(crashes) >= max_size
        /\ Room(1 + crashes) \in Nat /\ Room(1 + crashes) = Room(crashes) + MaxLine
        /\ Room(1 + (1 + crashes)) \in Nat
        /\ Room(1 + (1 + crashes)) = Room(1 + crashes) + MaxLine
    BY <1>t, RoomFacts
  <2> QED
    BY <1>t, <2>1
<1>p. (~failed' =>
        /\ \A n \in Names : Size(files'[n]) < Room(1 + crashes')
        /\ pc' \in {"down", "idle", "cleanup"} => Size(files'[0]) < Room(crashes'))
      => BoundInv'
  BY DEF BoundInv, Size
<1>b. ~failed =>
        /\ \A n \in Names : Size(files[n]) < Room(1 + crashes)
        /\ pc \in {"down", "idle", "cleanup"} => Size(files[0]) < Room(crashes)
  BY <1>s DEF BoundInv
<1>1. ASSUME Start PROVE BoundInv'
  <2>1. UNCHANGED <<failed, crashes>> /\ pc = "down"
    BY <1>1 DEF Start
  <2>2. \A n \in Names : Size(files'[n]) = Size(files[n])
    BY <1>s, <1>1, StartEffect DEF SameFiles
  <2> QED
    BY <1>b, <1>t, <1>p, <2>1, <2>2
<1>2. ASSUME Crash PROVE BoundInv'
  <2>1. UNCHANGED <<files, failed>> /\ crashes' = 1 + crashes
    BY <1>2, <1>t DEF Crash
  <2>2. ~failed => /\ \A n \in Names : Size(files[n]) < Room(1 + (1 + crashes))
                   /\ Size(files[0]) < Room(1 + crashes)
    BY <1>b, <1>t, <1>r
  <2> QED
    BY <1>p, <2>1, <2>2
<1>3. ASSUME NEW type \in EventTypes, Send(type) PROVE BoundInv'
  BY <1>b, <1>p, <1>3 DEF Send
<1>4. ASSUME NEW len \in 1..MaxLine, Write(len) PROVE BoundInv'
  <2>1. /\ UNCHANGED <<failed, crashes>> /\ pc = "idle" /\ pc' = "written"
        /\ at # None
    BY <1>4 DEF Write
  <2>2. /\ at \in Names /\ Size(files'[at]) = Size(files[at]) + len
        /\ \A n \in Names \ {at} : files'[n] = files[n]
    BY <1>s, <1>4, WriteEffect DEF Added
  <2>3. ~failed => at = 0
    BY <1>s, <2>1 DEF HoldInv
  <2>4. ~failed => Size(files'[0]) < Room(1 + crashes)
    BY <1>b, <1>t, <1>r, <2>1, <2>2, <2>3
  <2>5. ~failed => \A n \in Names : Size(files'[n]) < Room(1 + crashes)
    BY <1>b, <2>2, <2>3, <2>4
  <2> QED
    BY <1>p, <2>1, <2>5
<1>5. ASSUME WriteElsewhere PROVE BoundInv'
  BY Zenon, <1>b, <1>p, <1>5 DEF WriteElsewhere
<1>6. ASSUME AfterWrite PROVE BoundInv'
  <2>1. pc = "written" /\ (~failed => at = 0)
    BY <1>s, <1>6 DEF AfterWrite, HoldInv, PlaceInv
  <2>2. ~failed => bytes_written = Size(files[0])
    BY <1>s, <2>1 DEF HoldInv
  <2>3. UNCHANGED <<files, failed, crashes>>
    BY <1>6 DEF AfterWrite
  <2>4. CASE bytes_written < max_size
    <3>1. ~failed => Size(files[0]) < Room(crashes)
      BY <1>t, <1>r, <2>2, <2>4
    <3> QED
      BY <1>b, <1>p, <2>3, <3>1
  <2>5. CASE pc' = "shift"
    BY <1>b, <1>p, <2>3, <2>5
  <2> QED
    BY <1>6, <2>4, <2>5 DEF AfterWrite
<1>7. ASSUME Shift PROVE BoundInv'
  <2>1. UNCHANGED crashes /\ pc' \in {"shift", "rename"}
    BY <1>7 DEF Shift
  <2>2. CASE failed'
    BY <1>p, <2>2
  <2>3. CASE UNCHANGED <<files, failed>>
    BY <1>b, <1>p, <2>1, <2>3
  <2>4. CASE i > 0 /\ Moved(files, files', i, i + 1) /\ UNCHANGED failed
    <3>1. i \in Names /\ i + 1 \in Names
      BY <1>s, <1>7, <2>4, ShiftEffect, NameFacts
    <3> QED
      <4>1. \A n \in Names : \E m \in Names : Size(files'[n]) \in {Size(files[m]), 0}
        BY <1>t, <2>4, <3>1 DEF Moved
      <4>2. ~failed => \A n \in Names : Size(files'[n]) < Room(1 + crashes)
        BY Zenon, <1>b, <1>r, <4>1
      <4> QED
        BY Zenon, <1>p, <2>1, <2>4, <4>2
  <2> QED
    BY <1>s, <1>7, <2>2, <2>3, <2>4, ShiftEffect
<1>8. ASSUME RenameActive PROVE BoundInv'
  <2>1. UNCHANGED crashes
    BY <1>8 DEF RenameActive
  <2>2. CASE failed'
    BY <1>p, <2>2
  <2>3. CASE Moved(files, files', 0, 1) /\ pc' = "open" /\ UNCHANGED failed
    <3>1. \A n \in Names : \E m \in Names : Size(files'[n]) \in {Size(files[m]), 0}
      BY <1>t, <2>3, NameFacts DEF Moved
    <3>2. ~failed => \A n \in Names : Size(files'[n]) < Room(1 + crashes)
      BY Zenon, <1>b, <1>r, <3>1
    <3> QED
      BY Zenon, <1>p, <2>1, <2>3, <3>2
  <2> QED
    BY <1>s, <1>8, <2>2, <2>3, RenameEffect
<1>9. ASSUME OpenActive PROVE BoundInv'
  <2>1. UNCHANGED crashes
    BY <1>9 DEF OpenActive
  <2>2. CASE failed'
    BY <1>p, <2>2
  <2>3. CASE SameFiles(files, files') /\ Size(files'[0]) = 0 /\ UNCHANGED failed
    <3>1. \A n \in Names : Size(files'[n]) = Size(files[n])
      BY <2>3 DEF SameFiles
    <3> QED
      <4>1. Size(files'[0]) < Room(crashes)
        BY <1>t, <1>r, <2>3
      <4> QED
        BY <1>b, <1>p, <2>1, <2>3, <3>1, <4>1
  <2> QED
    BY <1>s, <1>9, <2>2, <2>3, OpenEffect
<1>10. ASSUME CleanUp PROVE BoundInv'
  <2>1. /\ UNCHANGED <<failed, crashes>> /\ pc = "cleanup"
    BY <1>10 DEF CleanUp
  <2>2. /\ files'[0] = files[0]
        /\ \A n \in Names : files'[n] = files[n] \/ files'[n] = None
    BY <1>s, <1>10, CleanUpEffect, NameFacts
  <2>3. ~failed => \A n \in Names : Size(files'[n]) < Room(1 + crashes)
    BY <1>b, <1>r, <1>t, <2>2
  <2>4. ~failed => Size(files'[0]) < Room(crashes)
    BY <1>b, <2>1, <2>2
  <2> QED
    BY Zenon, <1>p, <2>1, <2>3, <2>4
<1>11. CASE UNCHANGED vars
  BY <1>b, <1>p, <1>11 DEF vars
<1> QED
  BY Zenon, <1>s, <1>1, <1>2, <1>3, <1>4, <1>5, <1>6, <1>7, <1>8, <1>9,
     <1>10, <1>11 DEF Next, Rotation


(* As long as no file operation fails, no file outgrows max_size by more   *)
(* than the line that makes it rotate and a line per crash                 *)
(* (FileAuditWriter::write_event, and ::new on a file that is full).       *)
THEOREM FilesStayBounded == Spec => []FilesBounded
<1>1. Init => TypeInv /\ PlaceInv /\ HoldInv /\ BoundInv
  <2> SUFFICES ASSUME Init PROVE TypeInv /\ PlaceInv /\ HoldInv /\ BoundInv
    OBVIOUS
  <2>1. \A n \in Names : Size(files[n]) = 0
    BY EmptyFacts DEF Init
  <2>2. 0 \in Names /\ Room(0) > 0 /\ Room(1 + 0) > 0
    <3>1. /\ Room(0) \in Nat /\ Room(0) >= max_size
          /\ Room(1 + 0) \in Nat /\ Room(1 + 0) = Room(0) + MaxLine
      BY RoomFacts
    <3> HIDE DEF Room
    <3> QED
      BY <3>1, SizeFacts, NameFacts
  <2>3. HoldInv /\ BoundInv
    BY <2>1, <2>2, NameFacts DEF Init, HoldInv, BoundInv
  <2> QED
    BY <2>3, InitInv
<1>2. TypeInv /\ PlaceInv /\ HoldInv /\ BoundInv /\ [Next]_vars
        => (TypeInv /\ PlaceInv /\ HoldInv /\ BoundInv)'
  BY NextPlaceInv, NextHoldInv, NextBoundInv
<1>3. BoundInv => FilesBounded
  BY DEF BoundInv, FilesBounded, Size, Room
<1> QED
  BY <1>1, <1>2, <1>3, PTL DEF Spec

-----------------------------------------------------------------------------
(* What rotation keeps, counted in bytes written: a crash may cost a       *)
(* backup, and so counts as much as a full file.                           *)
Horizon == written + crashes * max_size

(* The number of whole files written after the one under name n; while a   *)
(* rotation goes on, the backups already moved have names one too high.    *)
Newer(rotating, j, n) == IF rotating /\ n > j + 1 THEN n - 2 ELSE n - 1

Rotating == pc \in {"shift", "rename"}

(* Every backup is followed by as many whole files as its name says, ...   *)
Aged(f, rotating, j, h) ==
  \A n \in Backups : \A e \in Bytes(f[n]) :
    e + Newer(rotating, j, n) * max_size + Size(f[0]) <= h

(* ... and what is gone was followed by max_backups of them.               *)
Spared(f, x, w, h) ==
  \A e \in 1..w : Kept(f, x, e) \/ e + max_backups * max_size <= h

AgeInv ==
  ~failed => /\ Aged(files, Rotating, i, Horizon)
             /\ Spared(files, expired, written, Horizon)

(* The products that follow. *)
LEMMA Products ==
  ASSUME NEW n \in Nat, n >= 1
  PROVE  /\ max_size \in Nat /\ max_size > 0
         /\ n * max_size \in Nat /\ (n - 1) * max_size \in Nat
         /\ (n - 1) * max_size + max_size = n * max_size
<1>1. max_size \in Nat /\ max_size > 0
  BY SizeFacts
<1>2. n - 1 \in Nat
  OBVIOUS
<1>3. n * max_size \in Nat /\ (n - 1) * max_size \in Nat
  BY <1>1, <1>2
<1>4. (n - 1) * max_size + max_size = n * max_size
  BY <1>1
<1> QED
  BY <1>1, <1>3, <1>4

(* Only the bytes and the size of the active file count, and losing the    *)
(* bytes of backups makes none of the others younger.                     *)
LEMMA AgedLess ==
  ASSUME NEW f, NEW g, NEW r, NEW j, NEW h, Aged(f, r, j, h),
         \A n \in Backups : Bytes(g[n]) \subseteq Bytes(f[n]), Size(g[0]) = Size(f[0])
  PROVE  Aged(g, r, j, h)
BY DEF Aged

(* A crash leaves the names as an unfinished rotation made them; that they *)
(* are one too high is made up for by what the crash counts for.           *)
LEMMA AgedCrash ==
  ASSUME NEW f, NEW r \in BOOLEAN, NEW j \in Nat, NEW h \in Nat, NEW w \in Nat,
         NEW k, Size(f[0]) \in Nat, Ordered(f, w), Aged(f, r, j, h)
  PROVE  Aged(f, FALSE, k, h + max_size)
<1> SUFFICES ASSUME NEW n \in Backups, NEW e \in Bytes(f[n])
             PROVE  e + (n - 1) * max_size + Size(f[0]) <= h + max_size
  BY DEF Aged, Newer
<1>0. n \in Nat /\ n >= 1 /\ n \in Names
  BY NameFacts DEF Backups
<1>1. n \in Nat /\ n >= 1 /\ e \in Nat
  BY <1>0 DEF Ordered
<1>2. e + Newer(r, j, n) * max_size + Size(f[0]) <= h
  BY DEF Aged
<1>3. CASE r /\ n > j + 1
  <2>1. n - 1 \in Nat /\ n - 1 >= 1 /\ n - 2 = (n - 1) - 1
    BY <1>1, <1>3
  <2>2. e + (n - 2) * max_size + Size(f[0]) <= h
    BY <1>2, <1>3 DEF Newer
  <2>3. /\ max_size \in Nat /\ (n - 1) * max_size \in Nat /\ (n - 2) * max_size \in Nat
        /\ (n - 2) * max_size + max_size = (n - 1) * max_size
    BY <2>1, Products
  <2> QED
    BY <1>1, <2>2, <2>3
<1>4. CASE ~(r /\ n > j + 1)
  <2>1. e + (n - 1) * max_size + Size(f[0]) <= h
    BY <1>2, <1>4 DEF Newer
  <2>2. max_size \in Nat /\ (n - 1) * max_size \in Nat
    BY <1>1, Products
  <2> QED
    BY <1>1, <2>1, <2>2
<1> QED
  BY <1>3, <1>4

(* A write to the active file. *)
LEMMA AgedAdd ==
  ASSUME NEW f, NEW g, NEW w \in Nat, NEW j, NEW k, NEW h \in Nat, Size(f[0]) \in Nat,
         NEW z \in Nat, Ordered(f, w), Aged(f, FALSE, j, h), Added(f, g, 0, w, z)
  PROVE  Aged(g, FALSE, k, h + z)
<1> SUFFICES ASSUME NEW n \in Backups, NEW e \in Bytes(g[n])
             PROVE  e + (n - 1) * max_size + Size(g[0]) <= h + z
  BY DEF Aged, Newer
<1>1. n \in Nat /\ n >= 1 /\ n \in Names /\ n # 0
  BY NameFacts DEF Backups
<1>2. e \in Bytes(f[n]) /\ Size(g[0]) = Size(f[0]) + z
  BY <1>1 DEF Added
<1>3. e \in Nat
  BY <1>1, <1>2 DEF Ordered
<1>4. e + (n - 1) * max_size + Size(f[0]) <= h
  BY <1>2 DEF Aged, Newer
<1>5. (n - 1) * max_size \in Nat
  BY <1>1, Products
<1> QED
  BY <1>2, <1>3, <1>4, <1>5

(* The first step of a rotation, and one that finds nothing to move. *)
LEMMA AgedPass ==
  ASSUME NEW f, NEW w \in Nat, NEW j \in Nat, NEW h \in Nat, Size(f[0]) \in Nat,
         j > 0, Ordered(f, w), Aged(f, TRUE, j, h)
  PROVE  Aged(f, TRUE, j - 1, h)
<1> SUFFICES ASSUME NEW n \in Backups, NEW e \in Bytes(f[n])
             PROVE  e + Newer(TRUE, j - 1, n) * max_size + Size(f[0]) <= h
  BY Zenon DEF Aged
<1>0. n \in Nat /\ n >= 1 /\ n \in Names
  BY NameFacts DEF Backups
<1>1. n \in Nat /\ n >= 1 /\ e \in Nat
  BY <1>0 DEF Ordered
<1>2. e + Newer(TRUE, j, n) * max_size + Size(f[0]) <= h
  BY Zenon DEF Aged
<1>3. CASE n = j + 1
  <2>1. Newer(TRUE, j, n) = n - 1 /\ Newer(TRUE, j - 1, n) = n - 2
    BY <1>3 DEF Newer
  <2>2. n - 1 \in Nat /\ n - 1 >= 1 /\ n - 2 = (n - 1) - 1
    BY <1>3
  <2>3. /\ max_size \in Nat /\ (n - 1) * max_size \in Nat /\ (n - 2) * max_size \in Nat
        /\ (n - 2) * max_size + max_size = (n - 1) * max_size
    BY <2>2, Products
  <2>4. e + (n - 1) * max_size + Size(f[0]) <= h
    BY Zenon, <1>2, <2>1
  <2>5. e + (n - 2) * max_size + Size(f[0]) <= h
    BY <1>1, <2>3, <2>4
  <2> QED
    BY Zenon, <2>1, <2>5
<1>4. CASE n # j + 1
  BY <1>1, <1>2, <1>4 DEF Newer
<1> QED
  BY Zenon, <1>3, <1>4

(* A step that moves a backup. *)
LEMMA AgedMove ==
  ASSUME NEW f, NEW g, NEW w \in Nat, NEW j \in Nat, NEW h \in Nat, Size(f[0]) \in Nat,
         j > 0, j + 1 \in Names, Ordered(f, w), Aged(f, TRUE, j, h),
         Moved(f, g, j, j + 1)
  PROVE  Aged(g, TRUE, j - 1, h)
<1>1. j \in Backups /\ j # 0 /\ j + 1 # 0 /\ 0 \in Names
  BY NameFacts DEF Backups
<1>2. Size(g[0]) = Size(f[0])
  BY <1>1 DEF Moved
<1> SUFFICES ASSUME NEW n \in Backups, NEW e \in Bytes(g[n])
             PROVE  e + Newer(TRUE, j - 1, n) * max_size + Size(f[0]) <= h
  BY Zenon, <1>2 DEF Aged
<1>3. CASE n = j
  BY <1>3, EmptyFacts DEF Moved
<1>4. CASE n = j + 1
  <2>1. e \in Bytes(f[j])
    BY <1>4 DEF Moved
  <2>2. Newer(TRUE, j - 1, n) = j - 1 /\ Newer(TRUE, j, j) = j - 1
    BY <1>4 DEF Newer
  <2> QED
    BY Zenon, <1>1, <2>1, <2>2 DEF Aged
<1>5. CASE n # j /\ n # j + 1
  <2>1. n \in Nat /\ n \in Names
    BY NameFacts
  <2>2. Newer(TRUE, j - 1, n) = Newer(TRUE, j, n)
    BY <1>5, <2>1 DEF Newer
  <2>3. e \in Bytes(f[n])
    BY <1>5, <2>1 DEF Moved
  <2> QED
    BY Zenon, <2>2, <2>3 DEF Aged
<1> QED
  BY Zenon, <1>3, <1>4, <1>5

(* The active file, which is full, becomes the first backup. *)
LEMMA AgedRename ==
  ASSUME NEW f, NEW g, NEW w \in Nat, NEW h \in Nat, NEW k, Size(f[0]) \in Nat,
         Size(f[0]) >= max_size, w <= h, Ordered(f, w), Aged(f, TRUE, 0, h),
         Moved(f, g, 0, 1)
  PROVE  Aged(g, FALSE, k, h)
<1>1. Size(g[0]) = 0 /\ Bytes(g[1]) = Bytes(f[0])
  BY EmptyFacts DEF Moved
<1> SUFFICES ASSUME NEW n \in Backups, NEW e \in Bytes(g[n])
             PROVE  e + (n - 1) * max_size + 0 <= h
  BY <1>1 DEF Aged, Newer
<1>2. n \in Nat /\ n >= 1 /\ n \in Names
  BY NameFacts DEF Backups
<1>3. CASE n = 1
  <2>1. e \in Bytes(f[0]) /\ 0 \in Names
    BY <1>1, <1>3, NameFacts
  <2>2. e \in 1..w
    BY <2>1 DEF Ordered
  <2>3. (n - 1) * max_size = 0
    BY <1>3, SizeFacts
  <2>4. e \in Nat /\ e <= w
    BY <2>2
  <2> QED
    BY <2>3, <2>4
<1>4. CASE n # 1
  <2>1. e \in Bytes(f[n]) /\ e \in Nat
    BY <1>2, <1>4 DEF Moved, Ordered
  <2>2. e + (n - 2) * max_size + Size(f[0]) <= h
    <3>1. Newer(TRUE, 0, n) = n - 2
      BY <1>2, <1>4 DEF Newer
    <3> QED
      BY Zenon, <2>1, <3>1 DEF Aged
  <2>3. n - 1 \in Nat /\ n - 1 >= 1 /\ n - 2 = (n - 1) - 1
    BY <1>2, <1>4
  <2>4. /\ max_size \in Nat /\ (n - 1) * max_size \in Nat /\ (n - 2) * max_size \in Nat
        /\ (n - 2) * max_size + max_size = (n - 1) * max_size
    BY <2>3, Products
  <2> QED
    BY <2>1, <2>2, <2>4
<1> QED
  BY <1>3, <1>4


(* The horizon moves on, and only the bytes count. *)
LEMMA SparedSame ==
  ASSUME NEW f, NEW g, NEW x, NEW w \in Nat, NEW h \in Nat, NEW v \in Nat, h <= v,
         Spared(f, x, w, h), \A n \in Names : Bytes(g[n]) = Bytes(f[n])
  PROVE  Spared(g, x, w, v)
<1>1. max_backups * max_size \in Nat
  BY SizeFacts, NameFacts
<1>2. \A e : Kept(f, x, e) => Kept(g, x, e)
  BY DEF Kept
<1> QED
  BY <1>1, <1>2 DEF Spared

(* A write. *)
LEMMA SparedAdd ==
  ASSUME NEW f, NEW g, NEW x, NEW w \in Nat, NEW h \in Nat, NEW c \in Names,
         NEW z \in Nat, Spared(f, x, w, h), Added(f, g, c, w, z)
  PROVE  Spared(g, x, w + z, h + z)
<1>1. max_backups * max_size \in Nat
  BY SizeFacts, NameFacts
<1>2. \A e : Kept(f, x, e) => Kept(g, x, e)
  BY DEF Kept, Added
<1>3. \A e \in (w + 1)..(w + z) : Kept(g, x, e)
  BY DEF Kept, Added
<1>4. \A e \in 1..(w + z) : e \in 1..w \/ e \in (w + 1)..(w + z)
  OBVIOUS
<1> QED
  BY <1>1, <1>2, <1>3, <1>4 DEF Spared

(* A backup that is replaced was followed by max_backups full files. *)
LEMMA SparedMove ==
  ASSUME NEW f, NEW g, NEW x, NEW w \in Nat, NEW h \in Nat, NEW c \in Names,
         c + 1 \in Names, Ordered(f, w), Spared(f, x, w, h), Moved(f, g, c, c + 1),
         c + 1 < max_backups => f[c + 1] = None,
         Aged(f, TRUE, c, h), Size(f[0]) \in Nat, Size(f[0]) >= max_size
  PROVE  Spared(g, x, w, h)
<1> SUFFICES ASSUME NEW e \in 1..w
             PROVE  Kept(g, x, e) \/ e + max_backups * max_size <= h
  BY DEF Spared
<1>1. Bytes(g[c + 1]) = Bytes(f[c]) /\ c \in Nat /\ c # c + 1 /\ c + 1 \in Backups
  BY NameFacts DEF Moved
<1>2. CASE e \in x
  BY <1>2 DEF Kept
<1>3. ASSUME NEW n \in Names, n # c + 1, e \in Bytes(f[n])
      PROVE  Kept(g, x, e)
  BY <1>1, <1>3 DEF Kept, Moved
<1>4. CASE e \in Bytes(f[c + 1])
  <2>0. f[c + 1] # None
    BY <1>4, EmptyFacts
  <2>1. c + 1 = max_backups
    BY <1>1, <2>0, NameFacts
  <2>2. Newer(TRUE, c, c + 1) = max_backups - 1
    <3>1. ~(c + 1 > c + 1)
      BY <1>1
    <3>2. Newer(TRUE, c, c + 1) = (c + 1) - 1
      BY <3>1 DEF Newer
    <3> QED
      BY Zenon, <2>1, <3>2
  <2>3. e + (max_backups - 1) * max_size + Size(f[0]) <= h
    BY Zenon, <1>1, <1>4, <2>2 DEF Aged
  <2>4. /\ max_size \in Nat /\ max_backups * max_size \in Nat
        /\ (max_backups - 1) * max_size \in Nat
        /\ (max_backups - 1) * max_size + max_size = max_backups * max_size
    BY Zenon, NameFacts, Products
  <2> QED
    BY <2>3, <2>4
<1>5. CASE e + max_backups * max_size <= h
  BY <1>5
<1> QED
  BY <1>2, <1>3, <1>4, <1>5 DEF Spared, Kept

(* What is removed by age is noted. *)
LEMMA SparedRemove ==
  ASSUME NEW f, NEW g, NEW x, NEW w \in Nat, NEW h \in Nat, NEW c \in Names,
         Spared(f, x, w, h), g[c] = None, \A n \in Names \ {c} : g[n] = f[n]
  PROVE  Spared(g, x \cup Bytes(f[c]), w, h)
<1>1. \A e : Kept(f, x, e) => Kept(g, x \cup Bytes(f[c]), e)
  BY DEF Kept
<1> QED
  BY <1>1 DEF Spared


(* A rotation ages every backup by one full file. *)
LEMMA NextAgeInv ==
  TypeInv /\ PlaceInv /\ OrderInv /\ GapInv /\ HoldInv /\ AgeInv /\ [Next]_vars => AgeInv'
<1>s. SUFFICES ASSUME TypeInv, PlaceInv, OrderInv, GapInv, HoldInv, AgeInv, [Next]_vars PROVE AgeInv'
  OBVIOUS
<1> USE DEF loggerVars, fileVars, historyVars
<1>k. /\ written \in Nat /\ crashes \in Nat /\ i \in Nat /\ Ordered(files, written)
  BY <1>s DEF TypeInv, OrderInv
<1>n. /\ Size(files[0]) \in Nat /\ 0 \in Names /\ Backups \subseteq Names
  BY <1>s, SizeIsNat, NameFacts
<1>h. /\ max_size \in Nat /\ crashes * max_size \in Nat
  BY <1>k, SizeFacts
<1>t. /\ written \in Nat /\ crashes \in Nat /\ i \in Nat /\ Ordered(files, written)
      /\ Size(files[0]) \in Nat /\ 0 \in Names /\ Backups \subseteq Names
      /\ max_size \in Nat /\ crashes * max_size \in Nat
      /\ Horizon \in Nat /\ written <= Horizon
  BY <1>k, <1>n, <1>h DEF Horizon
<1>r. Rotating \in BOOLEAN
  BY DEF Rotating
<1>a. ~failed => /\ Aged(files, Rotating, i, Horizon)
                 /\ Spared(files, expired, written, Horizon)
  BY <1>s DEF AgeInv
<1>p. (~failed' => /\ Aged(files', Rotating', i', Horizon')
                   /\ Spared(files', expired', written', Horizon'))
      => AgeInv'
  BY DEF AgeInv, Aged, Spared, Newer, Kept, Bytes, Range, Size
<1>1. ASSUME Start PROVE AgeInv'
  <2>1. /\ UNCHANGED <<expired, Horizon, written, failed>>
        /\ Rotating = FALSE /\ Rotating' = FALSE
    BY <1>1 DEF Start, Horizon, Rotating
  <2>2. /\ \A n \in Names : Bytes(files'[n]) = Bytes(files[n])
        /\ Size(files'[0]) = Size(files[0])
    BY <1>s, <1>t, <1>1, StartEffect DEF SameFiles
  <2>3. ~failed => Aged(files', FALSE, i', Horizon)
    BY <1>t, <1>a, <2>1, <2>2 DEF Aged, Newer
  <2>4. ~failed => Spared(files', expired, written, Horizon)
    BY <1>t, <1>a, <2>2, SparedSame
  <2> QED
    BY Zenon, <1>p, <2>1, <2>3, <2>4
<1>2. ASSUME Crash PROVE AgeInv'
  <2>1. /\ UNCHANGED <<files, expired, written, failed>>
        /\ Rotating' = FALSE /\ crashes' = crashes + 1
    BY <1>2 DEF Crash, Rotating
  <2>2. Horizon' = Horizon + max_size /\ Horizon' \in Nat /\ Horizon <= Horizon'
    BY <1>t, <2>1 DEF Horizon
  <2>3. ~failed => Aged(files, FALSE, i', Horizon + max_size)
    BY Zenon, <1>t, <1>r, <1>a, AgedCrash
  <2>4. ~failed => Spared(files, expired, written, Horizon')
    BY <1>t, <1>a, <2>2, SparedSame
  <2> QED
    BY Zenon, <1>p, <2>1, <2>2, <2>3, <2>4
<1>3. ASSUME NEW type \in EventTypes, Send(type) PROVE AgeInv'
  <2>1. UNCHANGED <<files, i, expired, Horizon, Rotating, written>>
    BY <1>3 DEF Send, Horizon, Rotating
  <2>2. failed => failed'
    BY <1>3 DEF Send
  <2> QED
    BY <1>a, <1>p, <2>1, <2>2
<1>4. ASSUME NEW len \in 1..MaxLine, Write(len) PROVE AgeInv'
  <2>0. len \in Nat
    BY SizeFacts
  <2>1. /\ UNCHANGED <<i, expired, failed, crashes>> /\ written' = written + len
        /\ Rotating = FALSE /\ Rotating' = FALSE /\ at # None /\ pc = "idle"
    BY <1>4 DEF Write, Rotating
  <2>2. Horizon' = Horizon + len
    BY <1>t, <2>0, <2>1 DEF Horizon
  <2>3. ~failed => Added(files, files', 0, written, len)
    BY <1>s, <1>4, <2>1, WriteEffect DEF HoldInv
  <2>4. ~failed => Aged(files', FALSE, i, Horizon + len)
    BY Zenon, <1>t, <1>a, <2>0, <2>1, <2>3, AgedAdd
  <2>5. ~failed => Spared(files', expired, written + len, Horizon + len)
    BY <1>t, <1>a, <2>0, <2>3, SparedAdd
  <2> QED
    BY Zenon, <1>p, <2>1, <2>2, <2>4, <2>5
<1>5. ASSUME WriteElsewhere PROVE AgeInv'
  <2>1. UNCHANGED <<files, i, expired, Horizon, Rotating, written>>
    BY <1>5 DEF WriteElsewhere, Horizon, Rotating
  <2>2. failed => failed'
    BY Zenon, <1>5 DEF WriteElsewhere
  <2> QED
    BY <1>a, <1>p, <2>1, <2>2
<1>6. ASSUME AfterWrite PROVE AgeInv'
  <2>1. /\ UNCHANGED <<files, expired, Horizon, written, failed>> /\ Rotating = FALSE
    BY <1>6 DEF AfterWrite, Horizon, Rotating
  <2>2. ~failed => Aged(files, Rotating', i', Horizon)
    <3>1. CASE Rotating' = FALSE
      BY <1>a, <2>1, <3>1 DEF Aged, Newer
    <3>2. CASE i' = max_backups - 1
      <4>1. \A n \in Backups : Newer(Rotating', i', n) = n - 1
        BY <3>2, NameFacts DEF Newer, Backups
      <4> QED
        BY <1>a, <2>1, <4>1 DEF Aged, Newer
    <3> QED
      <4>1. pc' = "idle" \/ i' = max_backups - 1
        BY <1>6 DEF AfterWrite
      <4>2. pc' = "idle" => Rotating' = FALSE
        BY DEF Rotating
      <4> QED
        BY Zenon, <3>1, <3>2, <4>1, <4>2
  <2> QED
    BY <1>a, <1>p, <2>1, <2>2
<1>7. ASSUME Shift PROVE AgeInv'
  <2>1. /\ UNCHANGED <<expired, Horizon, written>>
        /\ Rotating = TRUE /\ Rotating' = TRUE /\ pc = "shift"
    BY <1>7 DEF Shift, Horizon, Rotating
  <2>2. CASE failed'
    BY <1>p, <2>2
  <2>3. CASE UNCHANGED <<i, files, failed>>
    BY Zenon, <1>a, <1>p, <2>1, <2>3
  <2>4. CASE i > 0 /\ i' = i - 1 /\ UNCHANGED <<files, failed>>
    <3>1. ~failed => Aged(files, TRUE, i - 1, Horizon)
      BY Zenon, <1>t, <1>a, <2>1, <2>4, AgedPass
    <3> QED
      BY Zenon, <1>a, <1>p, <2>1, <2>4, <3>1
  <2>5. CASE /\ i > 0 /\ i' = i - 1 /\ Moved(files, files', i, i + 1)
             /\ UNCHANGED failed
    <3>1. i \in Names /\ i + 1 \in Names
      BY <1>s, <1>7, ShiftEffect, NameFacts
    <3>2. ~failed => /\ Size(files[0]) >= max_size
                     /\ i + 1 < max_backups => files[i + 1] = None
      BY <1>s, <2>1 DEF HoldInv, GapInv
    <3>3. ~failed => Aged(files', TRUE, i - 1, Horizon)
      BY Zenon, <1>t, <1>a, <2>1, <2>5, <3>1, AgedMove
    <3>4. ~failed => Spared(files', expired, written, Horizon)
      BY Zenon, <1>t, <1>a, <2>1, <2>5, <3>1, <3>2, SparedMove
    <3> QED
      BY Zenon, <1>p, <2>1, <2>5, <3>3, <3>4
  <2> QED
    BY <1>s, <1>7, <2>2, <2>3, <2>4, <2>5, ShiftEffect
<1>8. ASSUME RenameActive PROVE AgeInv'
  <2>1. /\ UNCHANGED <<expired, Horizon, written>>
        /\ Rotating = TRUE /\ Rotating' = FALSE /\ pc = "rename"
    BY <1>8 DEF RenameActive, Horizon, Rotating
  <2>2. CASE failed'
    BY <1>p, <2>2
  <2>3. CASE i = 0 /\ Moved(files, files', 0, 1) /\ UNCHANGED failed
    <3>1. 0 \in Names /\ 0 + 1 \in Names /\ Moved(files, files', 0, 0 + 1)
      BY <2>3, NameFacts
    <3>2. ~failed => /\ Size(files[0]) >= max_size
                     /\ 0 + 1 < max_backups => files[0 + 1] = None
      BY <1>s, <2>1, <2>3 DEF HoldInv, GapInv
    <3>3. ~failed => Aged(files, TRUE, 0, Horizon)
      BY Zenon, <1>a, <2>1, <2>3
    <3>4. ~failed => Aged(files', FALSE, i', Horizon)
      BY Zenon, <1>t, <2>3, <3>2, <3>3, AgedRename
    <3>5. ~failed => Spared(files', expired, written, Horizon)
      BY Zenon, <1>t, <1>a, <3>1, <3>2, <3>3, SparedMove
    <3> QED
      BY Zenon, <1>p, <2>1, <2>3, <3>4, <3>5
  <2> QED
    BY <1>s, <1>8, <2>2, <2>3, RenameEffect
<1>9. ASSUME OpenActive PROVE AgeInv'
  <2>1. /\ UNCHANGED <<expired, Horizon, written>>
        /\ Rotating = FALSE /\ Rotating' = FALSE
    BY <1>9 DEF OpenActive, Horizon, Rotating
  <2>2. CASE failed'
    BY <1>p, <2>2
  <2>3. CASE SameFiles(files, files') /\ UNCHANGED failed
    <3>2. /\ \A n \in Names : Bytes(files'[n]) = Bytes(files[n])
          /\ Size(files'[0]) = Size(files[0])
      BY <1>t, <2>3 DEF SameFiles
    <3>3. ~failed => Aged(files', FALSE, i', Horizon)
      BY <1>t, <1>a, <2>1, <3>2 DEF Aged, Newer
    <3>4. ~failed => Spared(files', expired, written, Horizon)
      BY <1>t, <1>a, <3>2, SparedSame
    <3> QED
      BY Zenon, <1>p, <2>1, <2>3, <3>3, <3>4
  <2> QED
    BY <1>s, <1>9, <2>2, <2>3, OpenEffect
<1>10. ASSUME CleanUp PROVE AgeInv'
  <2>1. /\ UNCHANGED <<failed, Horizon, written>>
        /\ Rotating = FALSE /\ Rotating' = FALSE
    BY <1>10 DEF CleanUp, Horizon, Rotating
  <2>2. CASE UNCHANGED <<files, expired>>
    <3>1. ~failed => Aged(files', FALSE, i', Horizon)
      BY <1>a, <2>1, <2>2 DEF Aged, Newer
    <3> QED
      BY Zenon, <1>a, <1>p, <2>1, <2>2, <3>1
  <2>3. CASE /\ i \in Backups /\ files'[i] = None
             /\ \A n \in Names \ {i} : files'[n] = files[n]
             /\ expired' = expired \cup Bytes(files[i])
    <3>1. /\ \A n \in Backups : Bytes(files'[n]) \subseteq Bytes(files[n])
          /\ files'[0] = files[0] /\ i \in Names
      BY <1>t, <2>3, NameFacts, EmptyFacts
    <3>2. ~failed => Aged(files', FALSE, i', Horizon)
      BY <1>a, <2>1, <3>1 DEF Aged, Newer
    <3>3. ~failed => Spared(files', expired', written, Horizon)
      BY <1>t, <1>a, <2>3, <3>1, SparedRemove
    <3> QED
      BY Zenon, <1>p, <2>1, <3>2, <3>3
  <2> QED
    BY <1>s, <1>10, <2>2, <2>3, CleanUpEffect
<1>11. CASE UNCHANGED vars
  <2>1. UNCHANGED <<files, i, expired, Horizon, Rotating, written, failed>>
    BY <1>11 DEF vars, Horizon, Rotating
  <2> QED
    BY <1>a, <1>p, <2>1
<1> QED
  BY Zenon, <1>s, <1>1, <1>2, <1>3, <1>4, <1>5, <1>6, <1>7, <1>8, <1>9,
     <1>10, <1>11 DEF Next, Rotation


(* The newest max_backups * max_size bytes are retained, but for what is   *)
(* removed by age and max_size bytes for each crash, as long as no file    *)
(* operation fails (FileAuditWriter::rotate).                              *)
THEOREM NewestEventsKept == Spec => []BackupsKept
<1> DEFINE Inv == TypeInv /\ PlaceInv /\ OrderInv /\ GapInv /\ HoldInv /\ AgeInv
<1>1. Init => Inv
  <2> SUFFICES ASSUME Init PROVE Inv
    OBVIOUS
  <2>1. \A n \in Names : Bytes(files[n]) = {}
    BY EmptyFacts DEF Init
  <2>2. HoldInv
    BY NameFacts DEF Init, HoldInv
  <2>3. AgeInv
    BY <2>1, NameFacts DEF Init, AgeInv, Aged, Spared
  <2> QED
    BY <2>2, <2>3, InitInv
<1>2. Inv /\ [Next]_vars => Inv'
  BY NextPlaceInv, NextOrderInv, NextGapInv, NextHoldInv, NextAgeInv
<1>3. ASSUME Inv PROVE BackupsKept
  <2> SUFFICES ASSUME ~failed, NEW e \in 1..written,
                      e + max_backups * max_size > written + crashes * max_size
               PROVE  e \in Retained \cup expired
    BY DEF BackupsKept
  <2>1. /\ max_backups * max_size \in Nat /\ crashes * max_size \in Nat
        /\ written \in Nat
    BY <1>3, SizeFacts, NameFacts DEF TypeInv
  <2>2. Kept(files, expired, e) \/ e + max_backups * max_size <= Horizon
    BY <1>3 DEF AgeInv, Spared
  <2>3. Kept(files, expired, e)
    BY <2>1, <2>2 DEF Horizon
  <2> QED
    BY <2>3 DEF Kept, Retained, Elements, Bytes
<1> QED
  BY <1>1, <1>2, <1>3, PTL DEF Spec

=============================================================================
