--------------------------- MODULE BlockFiles_proofs ---------------------------
(***************************************************************************)
(* Every committed row leads to its block, for any blocks, sizes and limit *)
(* of a file, through crashes, failed commits, pruning and reopening, as   *)
(* long as a packed file is not written half way.                          *)
(***************************************************************************)
EXTENDS BlockFiles, Finite_proofs, SequenceTheorems

\* The bytes a row points to are those of its block.
Readable(r) ==
    /\ r.file \in DOMAIN files
    /\ r.size = Size[r.block]
    /\ End(r) <= Len(files[r.file])
    /\ \A i \in 1 .. r.size : files[r.file][r.offset + i] = <<r.block, i>>

\* A packed file: the cursor is at its end, and no later file exists.
Packed ==
    /\ number >= 0
    /\ size = LengthOf(files, number)
    /\ job.phase # "deleting"

\* One block a file.
OneAFile ==
    /\ \A r \in rows : r.offset = 0 /\ Len(files[r.file]) = r.size
    /\ \A q, r \in rows : q.file = r.file => q = r

\* The body of a row not yet committed is the last of the last file.
Appended(r) ==
    /\ job.rows = {r}
    /\ Readable(r)
    /\ r.file = number /\ End(r) = Len(files[r.file])
    /\ mode = "pruned" => r.offset = 0
    /\ \A q \in rows : q.file = r.file => End(q) <= r.offset

JobInv ==
    /\ job.phase = "written" => \E r \in job.rows : Appended(r)
    /\ job.phase = "deleting" => \A r \in job.rows, q \in rows : q.file # r.file
    /\ job.phase = "clearing" => rows = {}

FilesInv ==
    /\ \A r \in rows : Readable(r)
    /\ \A n \in DOMAIN files : n <= number
    /\ mode = "archival" => Packed
    /\ mode = "pruned" => OneAFile
    /\ JobInv

IInv == TypeOK /\ FilesInv /\ FilesWithinLimit

\* Only a file of one block is ever written half way.
WholeWrites == "archival" \notin ShortWrites

-----------------------------------------------------------------------------
(* Files as functions *)

\* Storing one file leaves the others.
LEMMA WithFacts ==
  ASSUME NEW fs, NEW n, NEW bytes
  PROVE  /\ DOMAIN With(fs, n, bytes) = DOMAIN fs \cup {n}
         /\ With(fs, n, bytes)[n] = bytes
         /\ \A m \in DOMAIN fs \ {n} : With(fs, n, bytes)[m] = fs[m]
  BY DEF With

\* A block has as many bytes as its size says, and at least one.
LEMMA BytesFacts ==
  ASSUME NEW b \in Blocks
  PROVE  /\ Bytes(b) \in Seq(Byte) /\ Len(Bytes(b)) = Size[b]
         /\ \A i \in 1 .. Size[b] : Bytes(b)[i] = <<b, i>>
         /\ Size[b] \in Nat /\ Size[b] > 0
  <1>1. Size[b] \in Nat /\ Size[b] > 0 BY FilesAssumption
  <1>2. \A i \in 1 .. Size[b] : <<b, i>> \in Byte BY DEF Byte
  <1> QED BY <1>1, <1>2 DEF Bytes

\* Appending leaves the bytes before it where they are.
LEMMA ConcatFacts ==
  ASSUME NEW s \in Seq(Byte), NEW t \in Seq(Byte)
  PROVE  /\ s \o t \in Seq(Byte) /\ Len(s \o t) = Len(s) + Len(t)
         /\ Len(s) \in Nat /\ Len(t) \in Nat
         /\ \A i \in 1 .. Len(s) : (s \o t)[i] = s[i]
         /\ \A i \in 1 .. Len(t) : (s \o t)[Len(s) + i] = t[i]
  OBVIOUS

\* The files are numbered up to a bound, so that one of them is the last.
LEMMA LatestFacts ==
  ASSUME NEW fs, DOMAIN fs \subseteq Numbers, mode \in Modes
  PROVE  /\ Latest(fs) \in -1 .. MaxNumber
         /\ \A n \in DOMAIN fs : n <= Latest(fs)
         /\ mode = "archival" => Latest(fs) >= 0
  <1>1. MaxNumber \in Nat BY FilesAssumption
  <1>2. DOMAIN fs \in SUBSET Nat /\ \A n \in DOMAIN fs : n <= MaxNumber BY <1>1 DEF Numbers
  <1>3. CASE DOMAIN fs = {} BY <1>1, <1>3 DEF Latest
  <1>4. CASE DOMAIN fs # {}
    <2>1. Max(DOMAIN fs) \in DOMAIN fs /\ \A m \in DOMAIN fs : m <= Max(DOMAIN fs)
      BY <1>1, <1>2, <1>4, MaxIsGreatest
    <2> QED BY <1>2, <1>4, <2>1 DEF Latest
  <1> QED BY <1>3, <1>4

\* A row stays readable while its file keeps the bytes up to the row's end.
LEMMA StillReadable ==
  ASSUME NEW r \in Row, Readable(r),
         r.file \in DOMAIN files', End(r) <= Len(files'[r.file]),
         \A i \in 1 .. End(r) : files'[r.file][i] = files[r.file][i]
  PROVE  Readable(r)'
  <1>1. r.offset \in Nat /\ r.size \in Nat /\ End(r) = r.offset + r.size BY DEF Row, End
  <1>2. \A i \in 1 .. r.size : r.offset + i \in 1 .. End(r) BY <1>1
  <1> QED BY <1>1, <1>2 DEF Readable

\* A row stays readable while its file is left alone.
LEMMA SameFile ==
  ASSUME NEW r \in Row, Readable(r),
         r.file \in DOMAIN files', files'[r.file] = files[r.file]
  PROVE  Readable(r)'
  BY StillReadable DEF Readable

\* A committed row ends inside its file, and its file is not the next one.
LEMMA RowFacts ==
  ASSUME IInv, NEW r \in rows
  PROVE  /\ r \in Row /\ Readable(r) /\ r.file \in DOMAIN files
         /\ r.offset \in Nat /\ r.size \in Nat /\ r.size > 0 /\ End(r) \in Nat
         /\ r.file <= number /\ r.file \in Nat
         /\ files[r.file] \in Seq(Byte) /\ Len(files[r.file]) \in Nat
         /\ End(r) <= Len(files[r.file])
  <1>1. r \in Row /\ Readable(r) BY DEF IInv, TypeOK, FilesInv
  <1>2. r.block \in Blocks /\ r.offset \in Nat /\ r.size \in Nat /\ r.file \in Nat
    BY <1>1, FilesAssumption DEF Row, Numbers
  <1>3. r.size > 0 BY <1>1, <1>2, BytesFacts DEF Readable
  <1>4. files[r.file] \in Seq(Byte) BY <1>1 DEF IInv, TypeOK, Readable
  <1> QED BY <1>1, <1>2, <1>3, <1>4 DEF IInv, FilesInv, Readable, End

-----------------------------------------------------------------------------
(* Writing *)

\* Where a body goes: behind everything its file holds.
LEMMA TargetFacts ==
  ASSUME IInv, NEW b \in Blocks, TargetFile(Size[b]) <= MaxNumber
  PROVE  LET n == TargetFile(Size[b])
             before == IF mode = "archival" THEN Content(n) ELSE << >>
         IN  /\ n \in Numbers /\ number <= n
             /\ before \in Seq(Byte) /\ Len(before) = TargetOffset(Size[b])
             /\ \A bytes \in Seq(Byte) : AfterWrite(n, bytes) = before \o bytes
             /\ mode = "pruned" => n \notin DOMAIN files
             /\ n \in DOMAIN files => mode = "archival" /\ before = files[n]
             /\ n \notin DOMAIN files => before = << >>
             /\ mode = "archival" =>
                  Len(before) + Size[b] <= MaxFileSize \/ before = << >>
  <1> DEFINE n == TargetFile(Size[b])
             before == IF mode = "archival" THEN Content(n) ELSE << >>
  <1>0. /\ number \in -1 .. MaxNumber /\ MaxNumber \in Nat /\ size \in Nat
        /\ Size[b] \in Nat /\ MaxFileSize \in Nat
        /\ \A m \in DOMAIN files : files[m] \in Seq(Byte) /\ m <= number
        /\ mode \in {"archival", "pruned"}
    BY BytesFacts, FilesAssumption DEF IInv, TypeOK, FilesInv
  <1>1. n = number \/ n = number + 1 BY DEF TargetFile
  <1>2. mode = "archival" => number >= 0 /\ size = LengthOf(files, number)
    BY DEF IInv, FilesInv, Packed
  <1>3. n \in Numbers /\ number <= n BY <1>0, <1>1, <1>2 DEF TargetFile, Numbers
  <1>4. n = number + 1 => n \notin DOMAIN files BY <1>0
  <1>5. mode = "pruned" => n = number + 1 BY DEF TargetFile
  <1>6. before \in Seq(Byte) BY <1>0 DEF Content
  <1>7. Len(before) = TargetOffset(Size[b])
    BY <1>0, <1>2, <1>4 DEF TargetOffset, TargetFile, Content, LengthOf
  <1>8. \A bytes \in Seq(Byte) : AfterWrite(n, bytes) = before \o bytes
    BY DEF AfterWrite
  <1>9. mode = "archival" => Len(before) + Size[b] <= MaxFileSize \/ before = << >>
    BY <1>0, <1>4, <1>7 DEF TargetOffset, TargetFile, Content
  <1> HIDE DEF n
  <1>10. (n \in DOMAIN files => mode = "archival" /\ before = files[n])
         /\ (n \notin DOMAIN files => before = << >>)
    BY <1>0, <1>4, <1>5 DEF Content
  <1> QED BY <1>3, <1>4, <1>5, <1>6, <1>7, <1>8, <1>9, <1>10 DEF n

\* A body goes behind every row of its file, or into a new file.
LEMMA WriteInv ==
  ASSUME IInv, NEW b \in Blocks, Write(b)
  PROVE  IInv'
  <1>a. PICK n : n = TargetFile(Size[b]) OBVIOUS
  <1>b. PICK o : o = TargetOffset(Size[b]) OBVIOUS
  <1>c. PICK before : before = IF mode = "archival" THEN Content(n) ELSE << >> OBVIOUS
  <1> DEFINE r == [block |-> b, file |-> n, offset |-> o, size |-> Size[b]]
  <1>1. /\ job = Idle /\ n <= MaxNumber
        /\ files' = With(files, n, AfterWrite(n, Bytes(b)))
        /\ number' = n
        /\ size' = IF mode = "archival" THEN o + Size[b] ELSE 0
        /\ job' = [phase |-> "written", rows |-> {r}]
        /\ mode' = mode /\ rows' = rows
    BY <1>a, <1>b DEF Write
  <1>2. /\ n \in Numbers /\ number <= n
        /\ before \in Seq(Byte) /\ Len(before) = o
        /\ AfterWrite(n, Bytes(b)) = before \o Bytes(b)
        /\ mode = "pruned" => n \notin DOMAIN files
        /\ n \in DOMAIN files => mode = "archival" /\ before = files[n]
        /\ n \notin DOMAIN files => before = << >>
        /\ mode = "archival" => Len(before) + Size[b] <= MaxFileSize \/ before = << >>
    BY <1>a, <1>b, <1>c, <1>1, TargetFacts, BytesFacts
  <1>3. /\ Bytes(b) \in Seq(Byte) /\ Len(Bytes(b)) = Size[b]
        /\ \A i \in 1 .. Size[b] : Bytes(b)[i] = <<b, i>>
        /\ Size[b] \in Nat /\ Size[b] > 0
    BY BytesFacts
  <1>4. /\ mode \in {"archival", "pruned"} /\ mode \in Modes /\ DOMAIN files \subseteq Numbers
        /\ \A m \in DOMAIN files : files[m] \in Seq(Byte) /\ m <= number
        /\ number \in -1 .. MaxNumber /\ MaxNumber \in Nat /\ rows \subseteq Row
    BY FilesAssumption DEF IInv, TypeOK, FilesInv
  <1>5. /\ DOMAIN files' = DOMAIN files \cup {n}
        /\ files'[n] = before \o Bytes(b)
        /\ \A m \in DOMAIN files \ {n} : files'[m] = files[m]
    <2>1. files' = With(files, n, before \o Bytes(b)) BY <1>1, <1>2
    <2> QED BY <2>1 DEF With
  <1>6. /\ files'[n] \in Seq(Byte)
        /\ Len(files'[n]) = o + Size[b]
        /\ o \in Nat
        /\ \A i \in 1 .. Len(before) : files'[n][i] = before[i]
        /\ \A i \in 1 .. Size[b] : files'[n][o + i] = Bytes(b)[i]
    <2>1. before \in Seq(Byte) /\ Bytes(b) \in Seq(Byte) BY <1>2, <1>3
    <2>2. /\ before \o Bytes(b) \in Seq(Byte)
          /\ Len(before \o Bytes(b)) = Len(before) + Len(Bytes(b))
          /\ Len(before) \in Nat
          /\ \A i \in 1 .. Len(before) : (before \o Bytes(b))[i] = before[i]
          /\ \A i \in 1 .. Len(Bytes(b)) : (before \o Bytes(b))[Len(before) + i] = Bytes(b)[i]
      BY <2>1, ConcatFacts
    <2> QED BY <1>2, <1>3, <1>5, <2>2
  <1>7. \A i \in 1 .. Len(before) : files'[n][i] = before[i] BY <1>6
  <1>8. \A i \in 1 .. Size[b] : files'[n][o + i] = <<b, i>>
    BY <1>3, <1>6
  <1>9. n <= MaxNumber /\ n \in Nat BY <1>2, <1>4 DEF Numbers
  <1>10. r \in Row BY <1>2, <1>3, <1>6 DEF Row
  <1>11. TypeOK'
    <2>1. DOMAIN files' \subseteq Numbers /\ \A m \in DOMAIN files' : files'[m] \in Seq(Byte)
      BY <1>2, <1>4, <1>5, <1>6
    <2>2. job' \in Jobs /\ job'.rows # {} /\ job'.phase = "written"
      BY <1>1, <1>10 DEF Jobs
    <2>3. size' \in Nat BY <1>1, <1>3, <1>6
    <2> HIDE DEF r
    <2> QED BY <1>1, <1>4, <1>9, <2>1, <2>2, <2>3 DEF TypeOK
  <1>12. ASSUME NEW q \in rows
         PROVE  Readable(q)' /\ (q.file = n => mode = "archival" /\ End(q) <= o)
    <2>1. /\ q \in Row /\ Readable(q) /\ q.file \in DOMAIN files
          /\ End(q) \in Nat /\ End(q) <= Len(files[q.file])
      BY RowFacts
    <2>2. CASE q.file # n
      BY <1>5, <2>1, <2>2, SameFile
    <2>3. CASE q.file = n
      <3>1. before = files[q.file] /\ mode = "archival" BY <1>2, <2>1, <2>3
      <3>2. End(q) <= o BY <1>2, <2>1, <3>1
      <3>3. \A i \in 1 .. End(q) : files'[q.file][i] = files[q.file][i]
        BY <1>2, <1>7, <2>1, <2>3, <3>1
      <3>4. End(q) <= Len(files'[q.file]) BY <1>3, <1>6, <2>1, <2>3, <3>2
      <3> QED BY <1>5, <2>1, <2>3, <3>1, <3>2, <3>3, <3>4, StillReadable
    <2> QED BY <2>2, <2>3
  <1>13. Readable(r)' /\ r.file = n /\ End(r) = Len(files'[r.file])
    <2>1. /\ r.file = n /\ r.offset = o /\ r.size = Size[b] /\ r.block = b
      OBVIOUS
    <2>2. End(r) = Len(files'[r.file]) BY <1>6, <2>1 DEF End
    <2> HIDE DEF r
    <2>3. Len(files'[n]) \in Nat BY <1>3, <1>6
    <2>4. \A i \in 1 .. r.size : files'[r.file][r.offset + i] = <<r.block, i>>
      BY <1>8, <2>1
    <2>5. r.file \in DOMAIN files' /\ End(r) <= Len(files'[r.file])
      BY <1>5, <2>1, <2>2, <2>3
    <2> QED BY <2>1, <2>2, <2>4, <2>5 DEF Readable
  <1> HIDE DEF r
  <1>14. Appended(r)'
    <2>1. job'.rows = {r} /\ r.offset = o BY <1>1 DEF r
    <2>2. \A q \in rows' : q.file = r.file => End(q) <= r.offset BY <1>1, <1>12, <1>13, <2>1
    <2>3. mode = "pruned" => o = 0 BY <1>2
    <2> QED BY <1>1, <1>13, <2>1, <2>2, <2>3 DEF Appended
  <1>15. JobInv'
    <2>1. job'.phase = "written" /\ job'.rows = {r} BY <1>1
    <2> QED BY <1>14, <2>1 DEF JobInv
  <1>16. \A m \in DOMAIN files' : m <= number'
    BY <1>1, <1>2, <1>4, <1>5, <1>9 DEF Numbers
  <1>17. mode = "archival" => Packed'
    BY <1>1, <1>5, <1>6, <1>9 DEF Packed, LengthOf
  <1>18. mode = "pruned" => OneAFile'
    <2> SUFFICES ASSUME mode = "pruned" PROVE OneAFile' OBVIOUS
    <2>1. \A q \in rows : q.file # n /\ q.file \in DOMAIN files BY <1>12, RowFacts
    <2> QED BY <1>1, <1>5, <2>1 DEF OneAFile, IInv, FilesInv
  <1>19. FilesWithinLimit'
    <2> SUFFICES ASSUME mode = "archival", NEW m \in DOMAIN files'
                 PROVE  Len(files'[m]) <= MaxFileSize \/ \E c \in Blocks : Len(files'[m]) <= Size[c]
      BY <1>1 DEF FilesWithinLimit
    <2>1. CASE m = n
      <3>1. before = << >> => Len(files'[m]) <= Size[b]
        BY <1>2, <1>3, <1>6, <2>1
      <3> QED BY <1>2, <1>6, <2>1, <3>1
    <2>2. CASE m # n
      BY <1>5, <2>2 DEF IInv, FilesWithinLimit
    <2> QED BY <2>1, <2>2
  <1> QED BY <1>1, <1>11, <1>12, <1>15, <1>16, <1>17, <1>18, <1>19 DEF IInv, FilesInv

\* What a pruned body leaves when it is written half way is in a file of its own.
LEMMA WriteShortInv ==
  ASSUME IInv, WholeWrites, NEW b \in Blocks, WriteShort(b)
  PROVE  IInv'
  <1>a. PICK n : n = TargetFile(Size[b]) OBVIOUS
  <1>1. PICK k \in 0 .. Size[b] - 1 :
               files' = With(files, n, AfterWrite(n, SubSeq(Bytes(b), 1, k)))
    BY <1>a DEF WriteShort
  <1>2. /\ mode = "pruned" /\ job = Idle /\ n <= MaxNumber
        /\ number' = n /\ size' = 0 /\ mode' = mode /\ rows' = rows /\ job' = job
    BY <1>a, FilesAssumption DEF WriteShort, WholeWrites, IInv, TypeOK
  <1>3. /\ n \in Numbers /\ number <= n /\ n \notin DOMAIN files
    BY <1>a, <1>2, TargetFacts
  <1>4. /\ SubSeq(Bytes(b), 1, k) \in Seq(Byte)
        /\ AfterWrite(n, SubSeq(Bytes(b), 1, k)) = SubSeq(Bytes(b), 1, k)
    BY <1>2, BytesFacts DEF AfterWrite
  <1>5. /\ mode \in Modes /\ DOMAIN files \subseteq Numbers
        /\ \A m \in DOMAIN files : files[m] \in Seq(Byte) /\ m <= number
        /\ number \in -1 .. MaxNumber /\ MaxNumber \in Nat
    BY FilesAssumption DEF IInv, TypeOK, FilesInv
  <1>6. /\ DOMAIN files' = DOMAIN files \cup {n}
        /\ files'[n] \in Seq(Byte)
        /\ \A m \in DOMAIN files \ {n} : files'[m] = files[m]
    <2>1. files' = With(files, n, SubSeq(Bytes(b), 1, k)) BY <1>1, <1>4
    <2> QED BY <1>4, <2>1 DEF With
  <1>7. n <= MaxNumber /\ n \in Nat BY <1>3, <1>5 DEF Numbers
  <1>8. TypeOK' BY <1>2, <1>3, <1>5, <1>6, <1>7 DEF TypeOK, IInv
  <1>9. \A q \in rows : Readable(q)' /\ q.file \in DOMAIN files /\ q.file # n
    BY <1>3, <1>6, RowFacts, SameFile
  <1>10. OneAFile' BY <1>2, <1>6, <1>9 DEF IInv, FilesInv, OneAFile
  <1>11. \A m \in DOMAIN files' : m <= number' BY <1>2, <1>3, <1>5, <1>6, <1>7 DEF Numbers
  <1>12. JobInv' BY <1>2 DEF JobInv, Idle
  <1> QED BY <1>2, <1>8, <1>9, <1>10, <1>11, <1>12 DEF IInv, FilesInv, FilesWithinLimit

-----------------------------------------------------------------------------
(* Committing and rolling back *)

\* The row to be committed.
LEMMA JobFacts ==
  ASSUME IInv, job.phase = "written"
  PROVE  \E r \in Row :
            /\ job.rows = {r} /\ Appended(r) /\ Readable(r)
            /\ r.offset \in Nat /\ r.size \in Nat /\ r.size > 0
            /\ r.file \in DOMAIN files /\ files[r.file] \in Seq(Byte)
            /\ \A q \in rows : q.file = r.file => mode = "archival" /\ r.offset > 0
  <1>1. PICK r \in job.rows : Appended(r) BY DEF IInv, FilesInv, JobInv
  <1>2. r \in Row BY <1>1 DEF IInv, TypeOK, Jobs
  <1>3. job.rows = {r} /\ Readable(r) BY <1>1 DEF Appended
  <1>4. r.offset \in Nat /\ r.size \in Nat /\ r.block \in Blocks BY <1>2 DEF Row
  <1>5. r.size > 0 BY <1>3, <1>4, BytesFacts DEF Readable
  <1>6. r.file \in DOMAIN files /\ files[r.file] \in Seq(Byte)
    BY <1>3 DEF Readable, IInv, TypeOK
  <1>7. ASSUME NEW q \in rows, q.file = r.file PROVE mode = "archival" /\ r.offset > 0
    <2>1. End(q) <= r.offset BY <1>1, <1>7 DEF Appended
    <2>2. End(q) > 0 BY RowFacts DEF End
    <2>3. End(q) \in Nat BY RowFacts
    <2>4. mode \in {"archival", "pruned"} BY FilesAssumption DEF IInv, TypeOK
    <2> QED BY <1>1, <1>4, <2>1, <2>2, <2>3, <2>4 DEF Appended
  <1> QED BY <1>1, <1>2, <1>3, <1>4, <1>5, <1>6, <1>7

\* The row that is committed is the one whose body was appended last.
LEMMA CommitInv ==
  ASSUME IInv, Commit
  PROVE  IInv'
  <1>1. PICK r \in Row :
            /\ job.rows = {r} /\ Appended(r) /\ Readable(r)
            /\ \A q \in rows : q.file = r.file => mode = "archival" /\ r.offset > 0
    BY JobFacts DEF Commit
  <1>2. /\ rows' = rows \cup {r} /\ job' = Idle
        /\ mode' = mode /\ files' = files /\ number' = number /\ size' = size
    BY <1>1 DEF Commit
  <1>3. TypeOK' BY <1>2 DEF IInv, TypeOK, Idle, Jobs
  <1>4. \A q \in rows' : Readable(q)'
    BY <1>1, <1>2 DEF IInv, FilesInv, Readable
  <1>5. mode = "archival" => Packed'
    BY <1>2 DEF IInv, FilesInv, Packed, Idle, LengthOf
  <1>6. mode = "pruned" => OneAFile'
    <2> SUFFICES ASSUME mode = "pruned" PROVE OneAFile' OBVIOUS
    <2>1. r.offset = 0 /\ End(r) = Len(files[r.file]) /\ r.size \in Nat
      BY <1>1 DEF Appended, Row
    <2>2. Len(files[r.file]) = r.size BY <2>1 DEF End
    <2>3. \A q \in rows : q.file # r.file BY <1>1
    <2> QED BY <1>2, <2>1, <2>2, <2>3 DEF OneAFile, IInv, FilesInv
  <1>7. JobInv' BY <1>2 DEF JobInv, Idle
  <1>8. (\A n \in DOMAIN files' : n <= number') /\ FilesWithinLimit'
    BY <1>2 DEF IInv, FilesInv, FilesWithinLimit
  <1> QED BY <1>2, <1>3, <1>4, <1>5, <1>6, <1>7, <1>8 DEF IInv, FilesInv

\* Reading the cursor from the disk finds the end of the last file.
LEMMA CursorFacts ==
  ASSUME NEW fs, DOMAIN fs \subseteq Numbers, mode \in Modes,
         \A n \in DOMAIN fs : fs[n] \in Seq(Byte),
         CursorFromDisk(fs), files' = fs, mode' = mode, job' = Idle
  PROVE  /\ number' \in -1 .. MaxNumber /\ size' \in Nat
         /\ \A n \in DOMAIN files' : n <= number'
         /\ mode = "archival" => Packed'
  <1>1. /\ number' = Latest(fs)
        /\ size' = IF mode = "archival" THEN LengthOf(fs, Latest(fs)) ELSE 0
    BY DEF CursorFromDisk
  <1>2. LengthOf(fs, Latest(fs)) \in Nat BY DEF LengthOf
  <1> QED BY <1>1, <1>2, LatestFacts DEF Packed, Idle, LengthOf

\* A prefix keeps its bytes where they are.
LEMMA PrefixFacts ==
  ASSUME NEW s \in Seq(Byte), NEW k \in 0 .. Len(s)
  PROVE  /\ SubSeq(s, 1, k) \in Seq(Byte) /\ Len(SubSeq(s, 1, k)) = k
         /\ \A i \in 1 .. k : SubSeq(s, 1, k)[i] = s[i]
  OBVIOUS

\* Taking bytes off the ends of files.
LEMMA Shrunk ==
  ASSUME IInv, mode' = mode,
         \A n \in DOMAIN files' : /\ n \in DOMAIN files /\ files'[n] \in Seq(Byte)
                                  /\ Len(files'[n]) <= Len(files[n])
  PROVE  /\ DOMAIN files' \subseteq Numbers /\ \A n \in DOMAIN files' : files'[n] \in Seq(Byte)
         /\ FilesWithinLimit'
  <1>1. DOMAIN files' \subseteq Numbers BY DEF IInv, TypeOK
  <1>2. FilesWithinLimit'
    <2> SUFFICES ASSUME mode = "archival", NEW n \in DOMAIN files'
                 PROVE  Len(files'[n]) <= MaxFileSize \/ \E c \in Blocks : Len(files'[n]) <= Size[c]
      BY DEF FilesWithinLimit
    <2>1. files[n] \in Seq(Byte) /\ Len(files[n]) \in Nat /\ Len(files'[n]) \in Nat
      BY DEF IInv, TypeOK
    <2>2. MaxFileSize \in Nat /\ \A c \in Blocks : Size[c] \in Nat BY FilesAssumption
    <2>3. Len(files[n]) <= MaxFileSize \/ \E c \in Blocks : Len(files[n]) <= Size[c]
      BY DEF IInv, FilesWithinLimit
    <2> QED BY <2>1, <2>2, <2>3
  <1> QED BY <1>1, <1>2

\* Rolling a write back takes away that body and no byte of a committed row.
LEMMA CommitFailsInv ==
  ASSUME IInv, CommitFails
  PROVE  IInv'
  <1>1. PICK r \in Row :
            /\ job.rows = {r} /\ Appended(r) /\ Readable(r)
            /\ r.offset \in Nat /\ r.size \in Nat /\ r.size > 0
            /\ r.file \in DOMAIN files /\ files[r.file] \in Seq(Byte)
            /\ \A q \in rows : q.file = r.file => mode = "archival" /\ r.offset > 0
    BY JobFacts DEF CommitFails
  <1>2. Len(Content(r.file)) = End(r) /\ Len(files[r.file]) = r.offset + r.size
    BY <1>1 DEF Appended, Content, End
  <1>3. PICK fs : /\ fs = IF mode = "pruned" \/ r.offset = 0 THEN Drop(files, {r.file})
                           ELSE With(files, r.file, SubSeq(files[r.file], 1, r.offset))
                  /\ files' = fs /\ CursorFromDisk(fs)
                  /\ job' = Idle /\ mode' = mode /\ rows' = rows
    BY <1>1, <1>2 DEF CommitFails
  <1>4. /\ SubSeq(files[r.file], 1, r.offset) \in Seq(Byte)
        /\ Len(SubSeq(files[r.file], 1, r.offset)) = r.offset
        /\ \A i \in 1 .. r.offset : SubSeq(files[r.file], 1, r.offset)[i] = files[r.file][i]
    BY <1>1, <1>2, PrefixFacts
  <1>5. \A n \in DOMAIN files : files[n] \in Seq(Byte) /\ Len(files[n]) \in Nat
    BY DEF IInv, TypeOK
  <1>6. /\ \A n \in DOMAIN fs : /\ n \in DOMAIN files /\ fs[n] \in Seq(Byte)
                                /\ Len(fs[n]) <= Len(files[n])
        /\ \A n \in DOMAIN files \ {r.file} : n \in DOMAIN fs /\ fs[n] = files[n]
        /\ mode = "archival" /\ r.offset > 0 =>
              r.file \in DOMAIN fs /\ fs[r.file] = SubSeq(files[r.file], 1, r.offset)
    <2>1. CASE mode = "pruned" \/ r.offset = 0
      BY <1>1, <1>3, <1>5, <2>1 DEF Drop
    <2>2. CASE ~ (mode = "pruned" \/ r.offset = 0)
      <3>1. fs = With(files, r.file, SubSeq(files[r.file], 1, r.offset)) BY <1>3, <2>2
      <3>2. /\ DOMAIN fs = DOMAIN files
            /\ fs[r.file] = SubSeq(files[r.file], 1, r.offset)
            /\ \A n \in DOMAIN files \ {r.file} : fs[n] = files[n]
        BY <1>1, <3>1 DEF With
      <3>3. Len(fs[r.file]) <= Len(files[r.file]) BY <1>1, <1>2, <1>4, <3>2
      <3>4. \A n \in DOMAIN fs \ {r.file} :
                n \in DOMAIN files /\ fs[n] \in Seq(Byte) /\ Len(fs[n]) <= Len(files[n])
        BY <1>5, <3>2
      <3>5. /\ r.file \in DOMAIN files /\ fs[r.file] \in Seq(Byte)
            /\ Len(fs[r.file]) <= Len(files[r.file])
        BY <1>1, <1>4, <3>2, <3>3 DEF Appended, Readable
      <3> QED BY <3>2, <3>4, <3>5
    <2> QED BY <2>1, <2>2
  <1>7. /\ DOMAIN files' \subseteq Numbers /\ \A n \in DOMAIN files' : files'[n] \in Seq(Byte)
        /\ FilesWithinLimit'
    BY <1>3, <1>6, Shrunk
  <1>8. /\ number' \in -1 .. MaxNumber /\ size' \in Nat
        /\ \A n \in DOMAIN files' : n <= number'
        /\ mode = "archival" => Packed'
    <2>1. mode \in Modes BY DEF IInv, TypeOK
    <2> QED BY <1>3, <1>7, <2>1, CursorFacts
  <1>9. TypeOK' BY <1>3, <1>7, <1>8 DEF IInv, TypeOK, Idle, Jobs
  <1>10. \A q \in rows : Readable(q)' /\ (q.file # r.file => files'[q.file] = files[q.file])
    <2> SUFFICES ASSUME NEW q \in rows
                 PROVE  Readable(q)' /\ (q.file # r.file => files'[q.file] = files[q.file])
      OBVIOUS
    <2>1. CASE q.file # r.file BY <1>3, <1>6, <2>1, RowFacts, SameFile
    <2>2. CASE q.file = r.file
      <3>1. r.offset > 0 /\ mode = "archival" /\ End(q) <= r.offset
        BY <1>1, <2>2 DEF Appended
      <3>2. files'[q.file] = SubSeq(files[q.file], 1, r.offset) /\ q.file \in DOMAIN files'
        BY <1>3, <1>6, <2>2, <3>1
      <3>3. End(q) \in Nat /\ q \in Row /\ Readable(q) BY RowFacts
      <3>4. \A i \in 1 .. End(q) : files'[q.file][i] = files[q.file][i]
        BY <1>1, <1>4, <2>2, <3>1, <3>2, <3>3
      <3>5. End(q) <= Len(files'[q.file]) BY <1>4, <2>2, <3>1, <3>2
      <3> QED BY <2>2, <3>2, <3>3, <3>4, <3>5, StillReadable
    <2> QED BY <2>1, <2>2
  <1>11. mode = "pruned" => OneAFile'
    BY <1>1, <1>3, <1>10 DEF OneAFile, IInv, FilesInv
  <1>12. JobInv' BY <1>3 DEF JobInv, Idle
  <1> QED BY <1>3, <1>7, <1>8, <1>9, <1>10, <1>11, <1>12 DEF IInv, FilesInv

-----------------------------------------------------------------------------
(* Deleting *)

\* The files of pruned rows are no other row's.
LEMMA PruneInv ==
  ASSUME IInv, NEW gone \in SUBSET rows, Prune(gone)
  PROVE  IInv'
  <1>1. /\ mode = "pruned" /\ gone # {} /\ rows' = rows \ gone
        /\ job' = [phase |-> "deleting", rows |-> gone]
        /\ mode' = mode /\ files' = files /\ number' = number /\ size' = size
    BY DEF Prune
  <1>2. TypeOK' BY <1>1 DEF IInv, TypeOK, Jobs
  <1>3. \A q \in rows' : Readable(q)' BY <1>1 DEF IInv, FilesInv, Readable
  <1>4. OneAFile' BY <1>1 DEF IInv, FilesInv, OneAFile
  <1>5. JobInv'
    <2>1. job'.phase = "deleting" /\ job'.rows = gone BY <1>1
    <2>2. \A r \in gone, q \in rows' : q.file # r.file
      BY <1>1 DEF IInv, FilesInv, OneAFile
    <2> QED BY <2>1, <2>2 DEF JobInv
  <1> QED BY <1>1, <1>2, <1>3, <1>4, <1>5 DEF IInv, FilesInv, FilesWithinLimit

\* Deleting the file of a pruned row disturbs no row that is left.
LEMMA DeleteFileInv ==
  ASSUME IInv, DeleteFile
  PROVE  IInv'
  <1>1. PICK r \in job.rows :
            /\ files' = Drop(files, {r.file})
            /\ job' = IF job.rows = {r} THEN Idle ELSE [job EXCEPT !.rows = @ \ {r}]
    BY DEF DeleteFile
  <1>2. /\ job.phase = "deleting" /\ mode' = mode
        /\ number' = number /\ size' = size /\ rows' = rows
    BY DEF DeleteFile
  <1>3. mode = "pruned" BY <1>2, FilesAssumption DEF IInv, TypeOK, FilesInv, Packed
  <1>4. /\ DOMAIN files' = DOMAIN files \ {r.file}
        /\ \A n \in DOMAIN files' : files'[n] = files[n]
    BY <1>1 DEF Drop
  <1>5. \A q \in rows : q.file # r.file BY <1>1, <1>2 DEF IInv, FilesInv, JobInv
  <1>6. job' = Idle \/ (job' \in Jobs /\ job'.phase = "deleting"
                        /\ job'.rows # {} /\ job'.rows \subseteq job.rows)
    BY <1>1, <1>2 DEF IInv, TypeOK, Jobs
  <1>7. TypeOK' BY <1>2, <1>4, <1>6 DEF IInv, TypeOK, Idle, Jobs
  <1>8. \A q \in rows : Readable(q)' /\ files'[q.file] = files[q.file]
    BY <1>4, <1>5, RowFacts, SameFile
  <1>9. OneAFile' BY <1>2, <1>3, <1>8 DEF IInv, FilesInv, OneAFile
  <1>10. JobInv' BY <1>2, <1>6 DEF IInv, FilesInv, JobInv, Idle
  <1>11. \A n \in DOMAIN files' : n <= number' BY <1>2, <1>4 DEF IInv, FilesInv
  <1> QED
    BY <1>2, <1>3, <1>7, <1>8, <1>9, <1>10, <1>11 DEF IInv, FilesInv, FilesWithinLimit

\* With the rows gone nothing points into the files.
LEMMA ClearInv ==
  ASSUME IInv, Clear
  PROVE  IInv'
  <1>1. /\ rows' = {} /\ job' = [phase |-> "clearing", rows |-> {}]
        /\ mode' = mode /\ files' = files /\ number' = number /\ size' = size
    BY DEF Clear
  <1>2. TypeOK' BY <1>1 DEF IInv, TypeOK, Jobs
  <1>3. JobInv' /\ OneAFile' BY <1>1 DEF JobInv, OneAFile
  <1>4. mode = "archival" => Packed' BY <1>1 DEF IInv, FilesInv, Packed, LengthOf
  <1> QED BY <1>1, <1>2, <1>3, <1>4 DEF IInv, FilesInv, FilesWithinLimit

\* An emptied store is like a new one.
LEMMA ClearFilesInv ==
  ASSUME IInv, ClearFiles
  PROVE  IInv'
  <1>1. /\ files' = << >> /\ number' = (IF mode = "archival" THEN 0 ELSE -1) /\ size' = 0
        /\ job' = Idle /\ mode' = mode /\ rows' = rows /\ job.phase = "clearing"
    BY DEF ClearFiles
  <1>2. DOMAIN files' = {} BY <1>1
  <1>3. rows = {} BY <1>1 DEF IInv, FilesInv, JobInv
  <1>4. TypeOK' BY <1>1, <1>2, FilesAssumption DEF IInv, TypeOK, Idle, Jobs
  <1>5. JobInv' /\ OneAFile' BY <1>1, <1>3 DEF JobInv, OneAFile, Idle
  <1>6. mode = "archival" => Packed' BY <1>1, <1>2 DEF Packed, LengthOf, Idle
  <1> QED BY <1>1, <1>2, <1>3, <1>4, <1>5, <1>6 DEF IInv, FilesInv, FilesWithinLimit

-----------------------------------------------------------------------------
(* Reopening *)

\* The last row of a file ends inside it.
LEMMA ReferencedEndFacts ==
  ASSUME IInv, NEW n \in DOMAIN files, \E r \in rows : r.file = n
  PROVE  /\ ReferencedEnd(n) \in Nat /\ ReferencedEnd(n) <= Len(files[n])
         /\ \E r \in rows : r.file = n /\ End(r) = ReferencedEnd(n)
         /\ \A r \in rows : r.file = n => End(r) <= ReferencedEnd(n)
  <1> DEFINE Ends == {End(r) : r \in {q \in rows : q.file = n}}
  <1>1. Ends \in SUBSET Nat /\ Ends # {} BY RowFacts
  <1>2. Len(files[n]) \in Nat BY DEF IInv, TypeOK
  <1>3. \A e \in Ends : e <= Len(files[n]) BY RowFacts
  <1>4. Max(Ends) \in Ends /\ \A e \in Ends : e <= Max(Ends)
    BY <1>1, <1>2, <1>3, MaxIsGreatest
  <1>5. ReferencedEnd(n) = Max(Ends) BY DEF ReferencedEnd
  <1> HIDE DEF Ends
  <1>6. ReferencedEnd(n) \in Ends /\ \A e \in Ends : e <= ReferencedEnd(n) BY <1>4, <1>5
  <1> QED BY <1>1, <1>3, <1>6 DEF Ends

\* What reconciliation leaves of each file: all that rows point to and no more.
LEMMA ReconciledFacts ==
  ASSUME IInv, NEW n \in DOMAIN Reconciled(files)
  PROVE  /\ n \in DOMAIN files /\ Reconciled(files)[n] \in Seq(Byte)
         /\ Len(Reconciled(files)[n]) <= Len(files[n])
         /\ \E r \in rows : r.file = n /\ End(r) = Len(Reconciled(files)[n])
         /\ \A r \in rows : r.file = n =>
               /\ End(r) <= Len(Reconciled(files)[n])
               /\ \A i \in 1 .. End(r) : Reconciled(files)[n][i] = files[n][i]
         /\ mode = "pruned" => Reconciled(files)[n] = files[n]
  <1>1. n \in DOMAIN files /\ \E r \in rows : r.file = n BY DEF Reconciled
  <1>2. files[n] \in Seq(Byte) /\ Len(files[n]) \in Nat BY <1>1 DEF IInv, TypeOK
  <1>3. PICK e : e = ReferencedEnd(n) OBVIOUS
  <1>4. /\ e \in Nat /\ e <= Len(files[n])
        /\ \E r \in rows : r.file = n /\ End(r) = e
        /\ \A r \in rows : r.file = n => End(r) <= e
    BY <1>1, <1>3, ReferencedEndFacts
  <1>5. Reconciled(files)[n] =
            IF mode = "archival" /\ Len(files[n]) > e THEN SubSeq(files[n], 1, e) ELSE files[n]
    BY <1>1, <1>3 DEF Reconciled
  <1>6. CASE mode = "archival" /\ Len(files[n]) > e
    <2>1. e \in 0 .. Len(files[n]) BY <1>2, <1>4
    <2>2. /\ SubSeq(files[n], 1, e) \in Seq(Byte) /\ Len(SubSeq(files[n], 1, e)) = e
          /\ \A i \in 1 .. e : SubSeq(files[n], 1, e)[i] = files[n][i]
      BY <1>2, <2>1, PrefixFacts
    <2>3. \A r \in rows : End(r) \in Nat BY RowFacts
    <2> QED BY <1>1, <1>2, <1>4, <1>5, <1>6, <2>2, <2>3
  <1>7. CASE ~ (mode = "archival" /\ Len(files[n]) > e)
    <2>1. Reconciled(files)[n] = files[n] BY <1>5, <1>7
    <2>2. \A r \in rows : r.file = n => End(r) <= Len(files[n]) BY RowFacts
    <2>3. \E r \in rows : r.file = n /\ End(r) = Len(files[n])
      <3>1. CASE mode = "archival" BY <1>2, <1>4, <1>7, <3>1
      <3>2. CASE mode = "pruned"
        <4>1. PICK r \in rows : r.file = n BY <1>1
        <4>2. r.offset = 0 /\ Len(files[n]) = r.size
          BY <3>2, <4>1 DEF IInv, FilesInv, OneAFile
        <4>3. End(r) = r.size BY <4>2, RowFacts DEF End
        <4> QED BY <4>1, <4>2, <4>3
      <3> QED BY <3>1, <3>2, FilesAssumption DEF IInv, TypeOK
    <2> QED BY <1>1, <1>2, <2>1, <2>2, <2>3
  <1> QED BY <1>6, <1>7

\* Reconciliation keeps every byte a row points to, after a crash at any step.
LEMMA ReopenInv ==
  ASSUME IInv, Reopen
  PROVE  IInv'
  <1>1. PICK fs : fs = Reconciled(files) /\ files' = fs /\ CursorFromDisk(fs)
    BY DEF Reopen
  <1>2. job' = Idle /\ mode' = mode /\ rows' = rows BY DEF Reopen
  <1>3. \A n \in DOMAIN fs :
            /\ n \in DOMAIN files /\ fs[n] \in Seq(Byte)
            /\ Len(fs[n]) <= Len(files[n])
            /\ \A r \in rows : r.file = n =>
                  /\ End(r) <= Len(fs[n])
                  /\ \A i \in 1 .. End(r) : fs[n][i] = files[n][i]
            /\ mode = "pruned" => fs[n] = files[n]
    BY <1>1, ReconciledFacts
  <1>4. /\ DOMAIN files' \subseteq Numbers /\ \A n \in DOMAIN files' : files'[n] \in Seq(Byte)
        /\ FilesWithinLimit'
    BY <1>1, <1>2, <1>3, Shrunk
  <1>5. /\ number' \in -1 .. MaxNumber /\ size' \in Nat
        /\ \A n \in DOMAIN files' : n <= number'
        /\ mode = "archival" => Packed'
    <2>1. mode \in Modes BY DEF IInv, TypeOK
    <2> QED BY <1>1, <1>2, <1>4, <2>1, CursorFacts
  <1>6. TypeOK' BY <1>2, <1>4, <1>5 DEF IInv, TypeOK, Idle, Jobs
  <1>7. \A q \in rows : q.file \in DOMAIN fs
    <2>1. \A q \in rows : q.file \in DOMAIN files BY RowFacts
    <2> QED BY <1>1, <2>1 DEF Reconciled
  <1>8. \A q \in rows : Readable(q)'
    BY <1>1, <1>3, <1>7, RowFacts, StillReadable
  <1>9. mode = "pruned" => OneAFile'
    BY <1>1, <1>2, <1>3, <1>7 DEF IInv, FilesInv, OneAFile
  <1>10. JobInv' BY <1>2 DEF JobInv, Idle
  <1> QED BY <1>2, <1>4, <1>5, <1>6, <1>8, <1>9, <1>10 DEF IInv, FilesInv

-----------------------------------------------------------------------------
(* Theorems *)

\* The empty store satisfies the invariant.
LEMMA InitInv == ASSUME Init PROVE IInv
  <1>1. DOMAIN files = {} BY DEF Init
  <1>2. number = IF mode = "archival" THEN 0 ELSE -1 BY DEF Init, Latest
  <1>3. TypeOK BY <1>1, <1>2, FilesAssumption DEF Init, TypeOK, Idle, Jobs
  <1>4. FilesInv
    BY <1>1, <1>2 DEF Init, FilesInv, Packed, OneAFile, JobInv, Idle, LengthOf
  <1> QED BY <1>1, <1>3, <1>4 DEF IInv, FilesWithinLimit

\* Every step keeps the invariant.
LEMMA StepInv ==
  ASSUME IInv, WholeWrites, [Next]_vars
  PROVE  IInv'
  <1>1. CASE UNCHANGED vars
    BY <1>1 DEF vars, IInv, TypeOK, FilesInv, FilesWithinLimit, Readable, Packed, OneAFile,
                JobInv, Appended, LengthOf
  <1> QED
    BY <1>1, WriteInv, WriteShortInv, CommitInv, CommitFailsInv, PruneInv, DeleteFileInv,
       ClearInv, ClearFilesInv, ReopenInv
    DEF Next

\* The files, the cursor and the rows fit together in every reachable state, and
\* what is under way knows which of them it may touch.
THEOREM Invariant == WholeWrites => (Spec => []IInv)
  <1> SUFFICES ASSUME WholeWrites PROVE Spec => []IInv OBVIOUS
  <1>1. Init => IInv BY InitInv
  <1>2. IInv /\ [Next]_vars => IInv' BY StepInv
  <1> QED BY <1>1, <1>2, PTL DEF Spec

\* Reading a row gives the bytes of its block.
LEMMA ReadableReadsBack ==
  ASSUME IInv
  PROVE  RowsReadBack
  <1> SUFFICES ASSUME NEW r \in rows
               PROVE  SubSeq(files[r.file], r.offset + 1, End(r)) = Bytes(r.block)
    BY RowFacts DEF RowsReadBack
  <1>1. /\ r \in Row /\ Readable(r) /\ files[r.file] \in Seq(Byte)
        /\ r.offset \in Nat /\ r.size \in Nat /\ End(r) = r.offset + r.size
        /\ End(r) <= Len(files[r.file]) /\ r.block \in Blocks /\ r.size = Size[r.block]
    BY RowFacts DEF End, Row, Readable
  <1> DEFINE read == SubSeq(files[r.file], r.offset + 1, End(r))
  <1>2. read \in Seq(Byte) /\ Len(read) = r.size
    BY <1>1
  <1>3. \A i \in 1 .. r.size : read[i] = files[r.file][r.offset + i]
    BY <1>1
  <1>4. \A i \in 1 .. r.size : read[i] = Bytes(r.block)[i]
    BY <1>1, <1>3, BytesFacts DEF Readable
  <1>5. Bytes(r.block) \in Seq(Byte) /\ Len(Bytes(r.block)) = r.size
    BY <1>1, BytesFacts
  <1> HIDE DEF read
  <1>6. read = Bytes(r.block) BY <1>2, <1>4, <1>5, SeqEqual
  <1> QED BY <1>6 DEF read

\* Every variable of the block stores keeps its type.
THEOREM TypeCorrect == WholeWrites => (Spec => []TypeOK)
  <1> SUFFICES ASSUME WholeWrites PROVE Spec => []TypeOK OBVIOUS
  <1>1. IInv => TypeOK BY DEF IInv
  <1> QED BY <1>1, Invariant, PTL

\* read_block: every committed row leads to exactly its block, at every instant,
\* through crashes, failed commits, rollbacks, pruning and reconciliation.
THEOREM RowsLeadToBlocks == WholeWrites => (Spec => []RowsReadBack)
  <1> SUFFICES ASSUME WholeWrites PROVE Spec => []RowsReadBack OBVIOUS
  <1> QED BY Invariant, ReadableReadsBack, PTL

\* write_block: the tracked size of the packed file written next is its length.
THEOREM CursorKept == WholeWrites => (Spec => []CursorAtEnd)
  <1> SUFFICES ASSUME WholeWrites PROVE Spec => []CursorAtEnd OBVIOUS
  <1>1. IInv => CursorAtEnd BY DEF IInv, FilesInv, Packed, CursorAtEnd
  <1> QED BY <1>1, Invariant, PTL

\* MAX_BLOCK_FILE_SIZE: no packed file outgrows it unless one block does.
THEOREM LimitKept == WholeWrites => (Spec => []FilesWithinLimit)
  <1> SUFFICES ASSUME WholeWrites PROVE Spec => []FilesWithinLimit OBVIOUS
  <1>1. IInv => FilesWithinLimit BY DEF IInv
  <1> QED BY <1>1, Invariant, PTL

\* Both: the tracked size is the length of the file written next, and no packed
\* file outgrows its limit.
THEOREM FilesKept == WholeWrites => (Spec => []FilesTracked)
  <1>1. FilesTracked <=> CursorAtEnd /\ FilesWithinLimit BY DEF FilesTracked
  <1> QED BY <1>1, CursorKept, LimitKept, PTL

\* reconcile: opening the database leaves no byte at the end of a file that no
\* row accounts for, and no file without a row.
THEOREM NoGarbage == WholeWrites => (Spec => ReopenLeavesNoGarbage)
  <1> SUFFICES ASSUME WholeWrites PROVE Spec => ReopenLeavesNoGarbage OBVIOUS
  <1>1. ASSUME IInv, Reopen
        PROVE  \A n \in DOMAIN files' : \E r \in rows' : r.file = n /\ End(r) = Len(files'[n])
    <2>1. files' = Reconciled(files) /\ rows' = rows BY <1>1 DEF Reopen
    <2> QED BY <1>1, <2>1, ReconciledFacts
  <1>2. IInv /\ [Next]_vars =>
          [Reopen => \A n \in DOMAIN files' :
              \E r \in rows' : r.file = n /\ End(r) = Len(files'[n])]_vars
    BY <1>1
  <1> QED BY <1>2, Invariant, PTL DEF Spec, ReopenLeavesNoGarbage

=============================================================================
