----------------------------- MODULE AppWatchProofs -----------------------------
(***************************************************************************)
(* What is proved of AppWatch for every number of lines, of new files and  *)
(* of outages, and for every way in which the log may be found: from the   *)
(* place where the thread begins, nothing is left out, repeated or put out *)
(* of order from one file to the next, the first lines of a file are not   *)
(* sent if they are to be ignored, and each line is parsed by the header   *)
(* of its own file.                                                        *)
(*                                                                         *)
(* The three rest on one view of the thread: Reached, the number of pieces *)
(* in front of the place where it reads, counted from the beginning of the *)
(* first file. Files may begin and be opened, the thread may be in any of  *)
(* three of them, but as long as new files do not come too fast Reached    *)
(* only grows, and by one with each piece. A thread that began beyond the  *)
(* end of a UNICODE file (Beyond) has reached the end, which moves as the  *)
(* file grows; Since says that what passes is what the thread leaves out   *)
(* as it begins. Shape says what holds of the files and of the place in    *)
(* any case, Follows that the thread is at most one file behind.           *)
(***************************************************************************)
EXTENDS AppWatch, TLAPS

\* The files follow one another, and each begins between two lines.
Files ==
  /\ log \in Seq(Nat) /\ log # << >> /\ pieces \in Nat
  /\ log[1] = 0
  /\ \A f \in 1..newest : log[f] % 2 = 0 /\ log[f] <= pieces
  /\ \A f, g \in 1..newest : f < g => log[f] <= log[g]

Done == [line : Seq(Nat), file : Nat, as : {"sent", "ignored", "sent as it is", "skipped"},
         codes : Int \X Int]

Fields ==
  /\ SettingsPtr \in [mode : Modes, headers : BOOLEAN, ignorePrefixLines : Prefixed,
                      ignoreFirstLines : BOOLEAN, ConfirmedUnicodeFormat : BOOLEAN]
  /\ outages \in Nat /\ LastTransmitOK \in BOOLEAN
  /\ absent \in BOOLEAN
  /\ pc \in {"restart", "look", "waiting", "open", "read", "search", "sleep", "ended"}
  /\ filename \in {"current", "rotated"} /\ fp \in Nat /\ leaked \in SUBSET Nat
  /\ filePosition \in Nat /\ createdTime \in Nat /\ stat \in Nat
  /\ RotationJustOccured \in BOOLEAN /\ fieldCodes \in Int \X Int
  /\ data \in Seq(Nat) /\ done \in Seq(Done)
  /\ first \in Nat /\ raced \in BOOLEAN

\* Where the thread is in any case, also when the files change faster than it looks: the
\* file it has in mind exists, and it looks for the rotated file only when there is one.
Place ==
  /\ createdTime \in 0..newest
  /\ createdTime = 0 => pc \in {"restart", "ended"}
  /\ newest = 1 => filePosition <= Bytes(newest)
  /\ filename = IF RotationJustOccured THEN "rotated" ELSE "current"
  /\ RotationJustOccured => /\ Rotates /\ pc \in {"open", "read", "ended"}
                            /\ newest >= 2 /\ stat \in 1..newest
  /\ pc = "open" => Rotates
  /\ SettingsPtr.ConfirmedUnicodeFormat => ~SettingsPtr.headers

Shape == Files /\ Fields /\ Place
-----------------------------------------------------------------------------
\* There is always a file.
LEMMA NewestIsThere ==
  ASSUME Files
  PROVE  newest \in Nat /\ newest >= 1 /\ newest \in 1..newest
<1>1. log \in Seq(Nat) /\ log # << >>
  BY DEF Files
<1>2. PICK n \in Nat : n = newest /\ n >= 1
  BY <1>1 DEF newest
<1>. QED  BY <1>2

\* What the numbers of the pieces say of the sizes.
LEMMA Sizes ==
  ASSUME Files, NEW f \in 1..newest
  PROVE  /\ newest \in Nat /\ newest >= 1
         /\ log[f] \in Nat /\ Size(f) \in Nat
         /\ log[f] + Size(f) <= pieces
         /\ f = newest => log[f] + Size(f) = pieces
         /\ f # newest => log[f] + Size(f) = log[f + 1]
<1>1. /\ log \in Seq(Nat) /\ pieces \in Nat
      /\ \A g \in 1..newest : log[g] <= pieces
      /\ \A g, h \in 1..newest : g < h => log[g] <= log[h]
  BY DEF Files
<1>2. PICK n \in Nat : n = newest /\ \A g \in 1..n : log[g] \in Nat
  BY <1>1 DEF newest
<1>3. log[f] \in Nat /\ log[f] <= pieces
  BY <1>1, <1>2
<1>4. CASE f = newest
  BY <1>1, <1>2, <1>3, <1>4 DEF Size
<1>5. CASE f # newest
  <2>1. f + 1 \in 1..newest /\ f < f + 1
    BY <1>2, <1>5
  <2>2. log[f + 1] \in Nat /\ log[f + 1] <= pieces /\ log[f] <= log[f + 1]
    BY <1>1, <1>2, <2>1
  <2>. QED  BY <1>1, <1>2, <1>3, <1>5, <2>1, <2>2 DEF Size
<1>. QED  BY <1>4, <1>5

\* The same in bytes. The thread begins at the end of a file or beyond, but at no more
\* characters than the file has bytes.
LEMMA Ends ==
  ASSUME Files, NEW f \in 1..newest
  PROVE  /\ Size(f) \in Nat /\ Bytes(f) \in Nat /\ Size(f) <= Bytes(f)
         /\ End(f) \in Nat /\ Size(f) <= End(f) /\ End(f) <= Bytes(f)
         /\ ~SettingsPtr.ConfirmedUnicodeFormat => Bytes(f) = Size(f) /\ End(f) = Size(f)
<1>1. Size(f) \in Nat
  BY Sizes
<1>2. Block \in Nat /\ Block >= 1
  BY AppWatchAssumption
<1>3. PICK n \in Nat : n = Size(f)
  BY <1>1
<1>4. Bytes(f) = IF SettingsPtr.ConfirmedUnicodeFormat THEN 2 * n ELSE n
  BY <1>3 DEF Bytes
<1>5. End(f) = IF SettingsPtr.ConfirmedUnicodeFormat /\ n >= Block
                 THEN Bytes(f) - Block + 1 ELSE n
  BY <1>3 DEF End
<1>6. CASE SettingsPtr.ConfirmedUnicodeFormat
  <2>1. Bytes(f) = n + n
    BY <1>4, <1>6
  <2>2. End(f) = IF n >= Block THEN (n + n) - Block + 1 ELSE n
    BY <1>5, <1>6, <2>1
  <2>3. n >= Block => (n + n) - Block + 1 \in Nat /\ n <= (n + n) - Block + 1
                      /\ (n + n) - Block + 1 <= n + n
    BY <1>2
  <2>4. n + n \in Nat /\ n <= n + n
    OBVIOUS
  <2>. QED  BY <1>3, <1>6, <2>1, <2>2, <2>3, <2>4
<1>7. CASE ~SettingsPtr.ConfirmedUnicodeFormat
  BY <1>3, <1>4, <1>5, <1>7
<1>. QED  BY <1>6, <1>7

\* There is a file of the name the thread opens, unless it says so.
LEMMA FileNamed ==
  ASSUME Files, Fields, Place
  PROVE  /\ File(filename) \in 0..newest /\ File("current") \in 0..newest
         /\ ~RotationJustOccured /\ ~absent => File(filename) = newest
         /\ RotationJustOccured /\ ~absent => File(filename) = newest - 1
         /\ ~RotationJustOccured /\ absent => File(filename) = 0
<1>1. newest \in Nat /\ newest >= 1
  BY NewestIsThere
<1>2. File("rotated") = (IF absent THEN newest ELSE newest - 1)
      /\ File("current") = (IF absent THEN 0 ELSE newest)
  BY DEF File
<1>3. filename = IF RotationJustOccured THEN "rotated" ELSE "current"
  BY DEF Place
<1>. QED  BY <1>1, <1>2, <1>3

\* A file begins after all that was written before.
LEMMA FileBegins ==
  ASSUME Files, pieces % 2 = 0, log' = Append(log, pieces), pieces' = pieces
  PROVE  /\ Files' /\ newest' = newest + 1 /\ log'[newest + 1] = pieces
         /\ \A f \in 1..newest : log'[f] = log[f]
<1>1. /\ log \in Seq(Nat) /\ log # << >> /\ pieces \in Nat /\ log[1] = 0
      /\ \A f \in 1..newest : log[f] % 2 = 0 /\ log[f] <= pieces
      /\ \A f, g \in 1..newest : f < g => log[f] <= log[g]
  BY DEF Files
<1>2. PICK n \in Nat : n = newest /\ n >= 1 /\ \A g \in 1..n : log[g] \in Nat
  BY <1>1 DEF newest
<1>3. /\ log' \in Seq(Nat) /\ log' # << >>
      /\ newest' = n + 1 /\ log'[n + 1] = pieces
      /\ \A f \in 1..n : log'[f] = log[f]
  BY <1>1, <1>2 DEF newest
<1>4. \A f \in 1..(n + 1) : f \in 1..n \/ f = n + 1
  BY <1>2
<1>5. log'[1] = 0
  BY <1>1, <1>2, <1>3
<1>6. ASSUME NEW f \in 1..(n + 1)
      PROVE  log'[f] % 2 = 0 /\ log'[f] <= pieces
  <2>1. CASE f \in 1..n
    BY <1>1, <1>2, <1>3, <2>1
  <2>2. CASE f = n + 1
    <3>1. log'[f] = pieces
      BY <1>3, <2>2
    <3>. QED  BY <1>1, <3>1
  <2>. QED  BY <1>4, <2>1, <2>2
<1>7. ASSUME NEW f \in 1..(n + 1), NEW g \in 1..(n + 1), f < g
      PROVE  log'[f] <= log'[g]
  <2>1. f \in 1..n
    BY <1>7, <1>2
  <2>2. CASE g \in 1..n
    BY <1>1, <1>2, <1>3, <1>7, <2>1, <2>2
  <2>3. CASE g = n + 1
    BY <1>1, <1>2, <1>3, <2>1, <2>3
  <2>. QED  BY <1>4, <2>2, <2>3
<1>. QED  BY <1>1, <1>2, <1>3, <1>5, <1>6, <1>7 DEF Files

\* A piece is written to the newest file.
LEMMA PieceWritten ==
  ASSUME Files, pieces' = pieces + 1, log' = log
  PROVE  Files' /\ newest' = newest
<1>1. /\ log \in Seq(Nat) /\ log # << >> /\ pieces \in Nat /\ log[1] = 0
      /\ \A f \in 1..newest : log[f] % 2 = 0 /\ log[f] <= pieces
      /\ \A f, g \in 1..newest : f < g => log[f] <= log[g]
  BY DEF Files
<1>2. PICK n \in Nat : n = newest /\ newest' = n /\ \A g \in 1..n : log[g] \in Nat
  BY <1>1 DEF newest
<1>3. \A f \in 1..n : log[f] <= pieces + 1
  BY <1>1, <1>2
<1>. QED  BY <1>1, <1>2, <1>3 DEF Files
-----------------------------------------------------------------------------
(* Shape is an invariant.                                                  *)

\* What is skipped is at most the first line, and as much of it as is there.
LEMMA SkippedFits ==
  ASSUME Files, NEW f \in 1..newest, NEW position \in Nat
  PROVE  /\ Skipped(f, position) \in Seq(Nat)
         /\ Len(Skipped(f, position)) \in Nat
         /\ Len(Skipped(f, position)) <= Size(f) /\ Len(Skipped(f, position)) <= 2
         /\ position # 0 => Len(Skipped(f, position)) = 0
         /\ \A i \in DOMAIN Skipped(f, position) :
              Skipped(f, position)[i] = log[f] + i
         /\ Skipped(f, position) = << >> <=> Len(Skipped(f, position)) = 0
<1>1. log[f] \in Nat /\ Size(f) \in Nat
  BY Sizes
<1>2. PICK n \in Nat : n = IF Size(f) < 2 THEN Size(f) ELSE 2
  BY <1>1
<1>3. CASE SettingsPtr.ignoreFirstLines /\ ~SettingsPtr.ConfirmedUnicodeFormat /\ position = 0
  <2>1. Skipped(f, position) = [i \in 1..n |-> log[f] + i]
    BY <1>2, <1>3 DEF Skipped
  <2>. QED  BY <1>1, <1>2, <1>3, <2>1
<1>4. CASE ~(SettingsPtr.ignoreFirstLines /\ ~SettingsPtr.ConfirmedUnicodeFormat /\ position = 0)
  BY <1>1, <1>4 DEF Skipped
<1>. QED  BY <1>3, <1>4

\* The codes are numbers.
LEMMA CodesTyped ==
  ASSUME Fields, NEW f \in Nat
  PROVE  Codes(f) \in Int \X Int
BY DEF Fields, Codes

\* Shape holds at first.
LEMMA ShapeInit == Init => Shape
<1> SUFFICES ASSUME Init PROVE Shape
  OBVIOUS
<1>1. log = <<0>> /\ pieces \in 0..2 /\ newest = 1
  BY DEF Init, newest
<1>2. Files
  BY <1>1 DEF Files
<1>3. Fields
  <2>1. data \in Seq(Nat) /\ done \in Seq(Done)
    BY DEF Init
  <2>2. fieldCodes \in Int \X Int /\ leaked \in SUBSET Nat /\ fp = 0 /\ absent = FALSE
    BY DEF Init
  <2>3. SettingsPtr \in [mode : Modes, headers : BOOLEAN, ignorePrefixLines : Prefixed,
                         ignoreFirstLines : BOOLEAN, ConfirmedUnicodeFormat : BOOLEAN]
    BY Zenon DEF Init
  <2>4. /\ outages = 0 /\ LastTransmitOK = TRUE /\ pc = "restart" /\ filename = "current"
        /\ filePosition = 0 /\ createdTime = 0 /\ RotationJustOccured = FALSE /\ stat = 0
        /\ first = 0 /\ raced = FALSE
    BY Zenon DEF Init
  <2>. QED  BY <2>1, <2>2, <2>3, <2>4 DEF Fields
<1>4. Bytes(newest) \in Nat
  BY <1>1, <1>2, Ends
<1>5. SettingsPtr.ConfirmedUnicodeFormat => ~SettingsPtr.headers
  BY DEF Init
<1>6. /\ pc = "restart" /\ filename = "current" /\ filePosition = 0 /\ createdTime = 0
      /\ RotationJustOccured = FALSE /\ absent = FALSE
  BY DEF Init
<1>7. Place
  BY <1>1, <1>4, <1>5, <1>6 DEF Place
<1>. QED  BY <1>2, <1>3, <1>7 DEF Shape

\* Opening a file keeps the types, and does not go past the end of the only file.
LEMMA OpenTyped ==
  ASSUME Files, Fields, NEW f \in 1..newest, NEW position \in Nat, initLogFile(f, position)
  PROVE  /\ createdTime' = f /\ filePosition' \in Nat
         /\ filePosition' = position \/ (position = 0 /\ filePosition' <= Size(f))
         /\ fieldCodes' \in Int \X Int /\ done' \in Seq(Done)
<1>1. /\ Skipped(f, position) \in Seq(Nat) /\ Len(Skipped(f, position)) \in Nat
      /\ Len(Skipped(f, position)) <= Size(f)
      /\ position # 0 => Len(Skipped(f, position)) = 0
  BY SkippedFits
<1>2. createdTime' = f /\ filePosition' = position + Len(Skipped(f, position))
      /\ fieldCodes' = Codes(f)
  BY DEF initLogFile
<1>3. newest \in Nat /\ f \in Nat /\ Size(f) \in Nat
  BY Sizes
<1>4. Codes(f) \in Int \X Int
  BY <1>3, CodesTyped
<1>5. done \in Seq(Done)
  BY DEF Fields
<1>6. ASSUME Skipped(f, position) = << >> PROVE done' \in Seq(Done)
  <2>1. done' = done
    BY <1>6 DEF initLogFile
  <2>. QED  BY <1>5, <2>1
<1>7. ASSUME Skipped(f, position) # << >> PROVE done' \in Seq(Done)
  <2>1. [line |-> Skipped(f, position), file |-> f, as |-> "skipped", codes |-> Codes(f)] \in Done
    BY <1>1, <1>3, <1>4, CodesTyped DEF Done
  <2>2. done' = Append(done, [line |-> Skipped(f, position), file |-> f, as |-> "skipped",
                              codes |-> Codes(f)])
    BY <1>7 DEF initLogFile
  <2>. QED  BY <1>5, <2>1, <2>2
<1>8. done' \in Seq(Done)
  BY <1>6, <1>7
<1>9. filePosition' \in Nat /\ (filePosition' = position \/ (position = 0 /\ filePosition' <= Size(f)))
  BY <1>1, <1>2, <1>3
<1>. QED  BY <1>2, <1>4, <1>8, <1>9

\* Of a line that is read, what is added to done has its type.
LEMMA ReadTyped ==
  ASSUME Fields, NEW line \in Seq(Nat), ReadLine(line)
  PROVE  fieldCodes' \in Int \X Int /\ done' \in Seq(Done)
<1>1. createdTime \in Nat /\ fieldCodes \in Int \X Int /\ done \in Seq(Done)
  BY DEF Fields
<1>2. fieldCodes' \in Int \X Int
  <2>1. fieldCodes' = <<createdTime, createdTime>> \/ fieldCodes' = fieldCodes
    BY DEF ReadLine
  <2>. QED  BY <1>1, <2>1
<1>3. PICK d \in Done : done' = Append(done, d)
  <2>1. PICK as \in {"sent", "ignored", "sent as it is"} :
          done' = Append(done, [line |-> line, file |-> createdTime, as |-> as,
                                codes |-> fieldCodes])
    BY DEF ReadLine
  <2>2. [line |-> line, file |-> createdTime, as |-> as, codes |-> fieldCodes] \in Done
    BY <1>1 DEF Done
  <2>. QED  BY <2>1, <2>2
<1>. QED  BY <1>1, <1>2, <1>3

\* A thread that ends leaves everything as it is.
LEMMA EndsTyped ==
  ASSUME Shape, NEW f \in 0..newest, initLogFileFails(f), leaked' \in SUBSET Nat
  PROVE  Shape'
<1>1. Files /\ Fields /\ Place
  BY DEF Shape
<1>2. Files' /\ newest' = newest /\ Bytes(newest)' = Bytes(newest)
  BY <1>1 DEF initLogFileFails, files, Files, newest, Bytes, Size
<1>3. fp' \in Nat /\ pc' = "ended"
  <2>1. newest \in Nat
    BY <1>1, NewestIsThere
  <2>. QED  BY <2>1 DEF initLogFileFails
<1>4. Fields'
  BY <1>1, <1>3 DEF Fields, initLogFileFails, files, net
<1>5. Place'
  BY <1>1, <1>2, <1>3 DEF Place, initLogFileFails, files, Rotates
<1>. QED  BY <1>2, <1>4, <1>5 DEF Shape

\* What is open and forgotten stays a file.
LEMMA ForgetsTyped ==
  ASSUME Fields, Forgets
  PROVE  leaked' \in SUBSET Nat
BY DEF Fields, Forgets

\* Each step keeps Shape.
LEMMA ShapeStep == Shape /\ [Next]_vars => Shape'
<1> SUFFICES ASSUME Shape, [Next]_vars PROVE Shape'
  OBVIOUS
<1>1. Files /\ Fields /\ Place
  BY DEF Shape
<1>2. /\ newest \in Nat /\ newest >= 1 /\ newest \in 1..newest /\ pieces \in Nat
      /\ Size(newest) \in Nat /\ Bytes(newest) \in Nat /\ Size(newest) <= Bytes(newest)
  <2>1. newest \in Nat /\ newest >= 1 /\ newest \in 1..newest
    BY <1>1, NewestIsThere
  <2>. QED  BY <1>1, <2>1, Ends DEF Files
<1>3. filePosition \in Nat /\ createdTime \in 0..newest
  BY <1>1 DEF Fields, Place
<1>4. ASSUME UNCHANGED files
      PROVE  /\ Files' /\ newest' = newest /\ Size(newest)' = Size(newest)
             /\ Bytes(newest)' = Bytes(newest)
  BY <1>1, <1>4 DEF Files, newest, Size, Bytes, files
<1>5. CASE WritePiece
  <2>1. Files' /\ newest' = newest /\ pieces' = pieces + 1
    BY <1>1, <1>5, PieceWritten DEF WritePiece
  <2>2. Fields'
    BY <1>1, <1>5 DEF Fields, WritePiece, net, reading
  <2>3. newest = 1 => filePosition <= Bytes(newest)'
    <3>1. log' = log /\ SettingsPtr' = SettingsPtr
      BY <1>5 DEF WritePiece
    <3>2. Size(newest) = pieces - log[newest] /\ Size(newest)' = pieces' - log'[newest']
      BY DEF Size
    <3>3. log[newest] \in Nat
      BY <1>1, <1>2, Sizes
    <3>4. Size(newest)' = Size(newest) + 1
      BY <1>2, <2>1, <3>1, <3>2, <3>3
    <3>5. Bytes(newest)' = (IF SettingsPtr.ConfirmedUnicodeFormat THEN 2 * Size(newest)'
                                                                  ELSE Size(newest)')
          /\ Bytes(newest) = (IF SettingsPtr.ConfirmedUnicodeFormat THEN 2 * Size(newest)
                                                                    ELSE Size(newest))
      BY <3>1 DEF Bytes
    <3>6. Bytes(newest) <= Bytes(newest)'
      BY <1>2, <3>4, <3>5
    <3>7. Bytes(newest)' \in Nat
      BY <1>2, <3>4, <3>5
    <3>. QED  BY <1>1, <1>2, <1>3, <3>6, <3>7 DEF Place
  <2>4. Place'
    BY <1>1, <1>2, <1>5, <2>1, <2>3 DEF Place, WritePiece, net, reading, Rotates
  <2>. QED  BY <2>1, <2>2, <2>4 DEF Shape
<1>6. CASE Rename
  <2>1. Files' /\ newest' = newest /\ Bytes(newest)' = Bytes(newest)
    BY <1>1, <1>6 DEF Files, Rename, newest, Size, Bytes
  <2>2. raced' \in BOOLEAN
    BY <1>1, <1>6 DEF Rename, Fields
  <2>3. Fields'
    BY <1>1, <1>6, <2>2 DEF Fields, Rename, net, reading
  <2>4. Place'
    BY <1>1, <1>6, <2>1 DEF Place, Rename, net, reading, Rotates
  <2>. QED  BY <2>1, <2>3, <2>4 DEF Shape
<1>7. CASE NewFile
  <2>1. Files' /\ newest' = newest + 1
    BY <1>1, <1>7, FileBegins DEF NewFile
  <2>2. raced' \in BOOLEAN /\ first' \in Nat
    BY <1>1, <1>2, <1>7 DEF NewFile, Fields
  <2>3. Fields'
    BY <1>1, <1>7, <2>2 DEF Fields, NewFile, net, reading
  <2>4. Place'
    BY <1>1, <1>2, <1>7, <2>1 DEF Place, Fields, NewFile, net, reading, Rotates
  <2>. QED  BY <2>1, <2>3, <2>4 DEF Shape
<1>8. CASE NetworkFails
  <2>1. Fields'
    <3>1. outages' = outages + 1 /\ outages \in Nat
      BY <1>1, <1>8 DEF Fields, NetworkFails
    <3>2. outages' \in Nat
      BY <3>1
    <3>3. LastTransmitOK' \in BOOLEAN
      BY <1>8 DEF NetworkFails
    <3>. QED  BY <1>1, <1>8, <3>2, <3>3 DEF Fields, NetworkFails, files, reading
  <2>2. Place'
    BY <1>1, <1>4, <1>8 DEF Place, NetworkFails, files, reading, Rotates
  <2>. QED  BY <1>4, <1>8, <2>1, <2>2 DEF Shape, NetworkFails, files
<1>9. CASE NetworkWorks
  <2>1. Fields'
    BY <1>1, <1>9 DEF Fields, NetworkWorks, files, net, reading
  <2>2. Place'
    BY <1>1, <1>4, <1>9 DEF Place, NetworkWorks, files, net, reading, Rotates
  <2>. QED  BY <1>4, <1>9, <2>1, <2>2 DEF Shape, NetworkWorks, files
<1>10. CASE Restart
  <2>1. Codes(newest) \in Int \X Int
    BY <1>1, <1>2, CodesTyped
  <2>2. End(newest) \in Nat /\ End(newest) <= Bytes(newest) /\ log[newest] \in Nat
    BY <1>1, <1>2, Ends, Sizes
  <2>3. first' \in Nat /\ fp' \in Nat /\ filePosition' = End(newest)
    <3>1. newest \in Nat
      BY <1>2
    <3>2. fp' \in Nat
      BY <1>10, <3>1 DEF Restart
    <3>3. first \in Nat
      BY <1>1 DEF Fields
    <3>4. log[newest] + End(newest) \in Nat
      BY <2>2
    <3>5. first' \in Nat
      BY <1>10, <3>3, <3>4 DEF Restart
    <3>. QED  BY <1>10, <3>2, <3>5 DEF Restart
  <2>4. Fields'
    BY <1>1, <1>2, <1>10, <2>1, <2>2, <2>3 DEF Fields, Restart, files, net
  <2>5. Place'
    BY <1>1, <1>2, <1>4, <1>10, <2>2, <2>3 DEF Place, Restart, files, net, Rotates
  <2>. QED  BY <1>4, <1>10, <2>4, <2>5 DEF Shape, Restart, files
<1>11. CASE Wait
  <2>1. Fields'
    BY <1>1, <1>11 DEF Fields, Wait, files, net, reading
  <2>2. Place'
    BY <1>1, <1>4, <1>11 DEF Place, Wait, files, net, reading, Rotates
  <2>. QED  BY <1>4, <1>11, <2>1, <2>2 DEF Shape, Wait, files
<1>12. CASE Resume
  <2>1. Fields'
    BY <1>1, <1>12 DEF Fields, Resume, files, net, reading
  <2>2. Place'
    BY <1>1, <1>4, <1>12 DEF Place, Resume, files, net, reading, Rotates
  <2>. QED  BY <1>4, <1>12, <2>1, <2>2 DEF Shape, Resume, files
<1>13. CASE Stat
  <2>1. Fields'
    BY <1>1, <1>2, <1>13 DEF Fields, Stat, files, net
  <2>2. SeesRotation => newest >= 2
    BY <1>1, <1>2, <1>3, <1>13 DEF SeesRotation, Place, Stat
  <2>3. Place'
    <3>1. CASE ~absent /\ SeesRotation
      BY <1>1, <1>2, <1>4, <1>13, <2>2, <3>1 DEF Place, Stat, files, net, Rotates
    <3>2. CASE ~(~absent /\ SeesRotation)
      BY <1>1, <1>2, <1>4, <1>13, <3>2 DEF Place, Stat, files, net, Rotates
    <3>. QED  BY <3>1, <3>2
  <2>. QED  BY <1>4, <1>13, <2>1, <2>3 DEF Shape, Stat, files
<1>14. CASE Look
  <2>1. Fields'
    BY <1>1, <1>14 DEF Fields, Look, files, net, reading
  <2>2. Place'
    BY <1>1, <1>4, <1>14 DEF Place, Look, files, net, reading, Rotates
  <2>. QED  BY <1>4, <1>14, <2>1, <2>2 DEF Shape, Look, files
<1>15. CASE Open
  <2>1. PICK f \in 1..newest : f = File(filename)
    <3>1. File(filename) \in 0..newest /\ File(filename) # 0
      BY <1>1, <1>15, FileNamed DEF Open
    <3>2. File(filename) \in 1..newest
      BY <1>2, <3>1
    <3>. QED  BY <3>2
  <2>2. initLogFile(f, filePosition) /\ fp' = f /\ Forgets
    BY <1>15, <2>1 DEF Open
  <2>3. /\ createdTime' = f /\ filePosition' \in Nat
        /\ filePosition' = filePosition \/ (filePosition = 0 /\ filePosition' <= Size(f))
        /\ fieldCodes' \in Int \X Int /\ done' \in Seq(Done)
    BY <1>1, <1>3, <2>2, OpenTyped
  <2>4. Fields'
    BY <1>1, <1>2, <1>15, <2>2, <2>3, ForgetsTyped DEF Fields, Open, files, net
  <2>5. newest = 1 => filePosition' <= Bytes(newest)
    BY <1>1, <1>2, <1>3, <2>3 DEF Place
  <2>6. Place'
    BY <1>1, <1>2, <1>4, <1>15, <2>3, <2>5 DEF Place, Open, files, net, Rotates
  <2>. QED  BY <1>4, <1>15, <2>4, <2>6 DEF Shape, Open, files
<1>16. CASE ReadPiece
  <2>1. createdTime \in 1..newest
    BY <1>1, <1>2, <1>16 DEF Place, ReadPiece
  <2>2. log[createdTime] \in Nat /\ Size(createdTime) \in Nat
    BY <1>1, <2>1, Sizes
  <2>3. filePosition' = filePosition + 1 /\ filePosition < Size(createdTime)
    BY <1>3, <1>16, <2>2 DEF ReadPiece, AtEnd
  <2>4. PICK piece \in Nat : piece = log[createdTime] + filePosition'
    BY <1>3, <2>2, <2>3
  <2>5. PICK line \in Seq(Nat) : line = Append(data, piece)
    <3>1. data \in Seq(Nat)
      BY <1>1 DEF Fields
    <3>2. Append(data, piece) \in Seq(Nat)
      BY <3>1
    <3>. QED  BY <3>2
  <2>6. \/ ReadLine(line) /\ data' = << >>
        \/ data' = line /\ UNCHANGED <<done, fieldCodes>>
    BY <1>16, <2>4, <2>5 DEF ReadPiece
  <2>7. data' \in Seq(Nat) /\ fieldCodes' \in Int \X Int /\ done' \in Seq(Done)
    <3>1. CASE ReadLine(line) /\ data' = << >>
      BY <1>1, <3>1, ReadTyped
    <3>2. CASE data' = line /\ UNCHANGED <<done, fieldCodes>>
      BY <1>1, <3>2 DEF Fields
    <3>. QED  BY <2>6, <3>1, <3>2
  <2>8. Fields'
    BY <1>1, <1>3, <1>16, <2>3, <2>7 DEF Fields, ReadPiece, files, net
  <2>9. newest = 1 => filePosition' <= Bytes(newest)
    BY <1>2, <1>3, <2>1, <2>2, <2>3
  <2>10. Place'
    BY <1>1, <1>2, <1>4, <1>16, <2>9 DEF Place, ReadPiece, files, net, Rotates
  <2>. QED  BY <1>4, <1>16, <2>8, <2>10 DEF Shape, ReadPiece, files
<1>17. CASE EndOfFile
  <2>1. Fields'
    BY <1>1, <1>17 DEF Fields, EndOfFile, files, net
  <2>2. Place'
    BY <1>1, <1>4, <1>17 DEF Place, EndOfFile, files, net, Rotates
  <2>. QED  BY <1>4, <1>17, <2>1, <2>2 DEF Shape, EndOfFile, files
<1>18. CASE EndOfRotated
  <2>1. Fields'
    BY <1>1, <1>18 DEF Fields, EndOfRotated, files, net
  <2>2. Place'
    BY <1>1, <1>2, <1>4, <1>18 DEF Place, EndOfRotated, files, net, Rotates
  <2>. QED  BY <1>4, <1>18, <2>1, <2>2 DEF Shape, EndOfRotated, files
<1>19. CASE Search
  <2>1. /\ createdTime' = newest /\ filePosition' \in Nat /\ fp' \in Nat
        /\ filePosition' = filePosition \/ filePosition' <= Size(newest)
        /\ fieldCodes' \in Int \X Int /\ done' \in Seq(Done)
    <3>1. CASE newest = createdTime
      BY <1>1, <1>19, <3>1 DEF Search, Fields
    <3>2. CASE newest # createdTime
      <4>1. initLogFile(newest, 0) /\ fp' = newest
        BY <1>19, <3>2 DEF Search
      <4>. QED  BY <1>1, <1>2, <4>1, OpenTyped
    <3>. QED  BY <3>1, <3>2
  <2>2. Fields'
    BY <1>1, <1>2, <1>19, <2>1 DEF Fields, Search, files, net
  <2>3. newest = 1 => filePosition' <= Bytes(newest)
    BY <1>1, <1>2, <1>3, <2>1 DEF Place
  <2>4. Place'
    BY <1>1, <1>2, <1>4, <1>19, <2>1, <2>3 DEF Place, Search, files, net, Rotates
  <2>. QED  BY <1>4, <1>19, <2>2, <2>4 DEF Shape, Search, files
<1>20. CASE Wake
  <2>1. Fields'
    BY <1>1, <1>20 DEF Fields, Wake, files, net, reading
  <2>2. Place'
    BY <1>1, <1>4, <1>20 DEF Place, Wake, files, net, reading, Rotates
  <2>. QED  BY <1>4, <1>20, <2>1, <2>2 DEF Shape, Wake, files
<1>21. CASE RestartFails \/ OpenFails \/ SearchFails
  <2>1. PICK f \in 0..newest : initLogFileFails(f)
    <3>1. File(filename) \in 0..newest /\ File("current") \in 0..newest
      BY <1>1, FileNamed
    <3>2. newest \in 0..newest
      BY <1>2
    <3>. QED  BY <1>21, <3>1, <3>2 DEF RestartFails, OpenFails, SearchFails
  <2>2. leaked' \in SUBSET Nat
    BY <1>1, <1>21, ForgetsTyped DEF RestartFails, OpenFails, SearchFails, Fields
  <2>. QED  BY <2>1, <2>2, EndsTyped
<1>22. CASE UNCHANGED vars
  <2>1. Fields'
    BY <1>1, <1>22 DEF Fields, vars, files, net, reading
  <2>2. Place'
    BY <1>1, <1>4, <1>22 DEF Place, vars, files, net, reading, Rotates
  <2>. QED  BY <1>4, <1>22, <2>1, <2>2 DEF Shape, vars, files
<1>. QED
  BY <1>5, <1>6, <1>7, <1>8, <1>9, <1>10, <1>11, <1>12, <1>13, <1>14, <1>15, <1>16, <1>17,
     <1>18, <1>19, <1>20, <1>21, <1>22 DEF Next, Environment, Watcher

\* Shape in every state.
LEMMA ShapeAlways == Spec => []Shape
<1>1. Init => Shape
  BY ShapeInit
<1>2. Shape /\ [Next]_vars => Shape'
  BY ShapeStep
<1>. QED  BY <1>1, <1>2, PTL DEF Spec
-----------------------------------------------------------------------------
(* While new files do not come too fast, the thread is at most one file    *)
(* behind, and reads a file that is not the newest to its end.             *)

Runs == pc \notin {"restart", "ended"}

Follows ==
  /\ createdTime # 0 => filePosition <= Bytes(createdTime)
  /\ Runs => createdTime \in {newest - 1, newest}
  /\ Runs /\ absent => createdTime = newest
  /\ RotationJustOccured => createdTime = newest - 1 /\ stat = newest /\ ~absent
  /\ Rotates /\ pc \in {"open", "read"} /\ ~RotationJustOccured => createdTime = newest
  /\ pc = "search" => ~Rotates
  /\ pc = "search" /\ createdTime # newest => filePosition >= Size(createdTime)

Following == ~raced => Follows

\* A new file leaves the others as they were.
LEMMA OthersKept ==
  ASSUME Files, NewFile, NEW f \in 1..newest
  PROVE  /\ newest' = newest + 1 /\ newest \in Nat
         /\ log'[f] = log[f] /\ Size(f)' = Size(f) /\ Size(f) \in Nat /\ log[f] \in Nat
<1>1. /\ Files' /\ newest' = newest + 1 /\ log'[newest + 1] = pieces
      /\ \A g \in 1..newest : log'[g] = log[g]
  BY FileBegins DEF NewFile
<1>2. /\ newest \in Nat /\ newest >= 1 /\ log[f] \in Nat /\ Size(f) \in Nat
      /\ f = newest => log[f] + Size(f) = pieces
      /\ f # newest => log[f] + Size(f) = log[f + 1]
  BY Sizes
<1>3. newest + 1 \in 1..newest' /\ f \in 1..newest'
  BY <1>1, <1>2
<1>4. Size(f)' = log'[f + 1] - log'[f]
  BY <1>1, <1>2 DEF Size
<1>5. Size(f)' = Size(f)
  <2>1. CASE f = newest
    BY <1>1, <1>2, <1>4, <2>1 DEF Size
  <2>2. CASE f # newest
    <3>1. f + 1 \in 1..newest
      BY <1>2, <2>2
    <3>. QED  BY <1>1, <1>2, <1>4, <2>2, <3>1 DEF Size
  <2>. QED  BY <2>1, <2>2
<1>. QED  BY <1>1, <1>2, <1>5

\* A piece that is written makes only the newest file longer.
LEMMA OnlyNewestGrows ==
  ASSUME Files, WritePiece, NEW f \in 1..newest
  PROVE  /\ newest' = newest /\ log' = log /\ Size(f) \in Nat /\ log[f] \in Nat
         /\ Size(f)' = IF f = newest THEN Size(f) + 1 ELSE Size(f)
<1>1. log' = log /\ pieces' = pieces + 1 /\ newest' = newest /\ pieces \in Nat
  BY PieceWritten DEF WritePiece, Files
<1>2. newest \in Nat /\ log[f] \in Nat /\ Size(f) \in Nat
  BY Sizes
<1>. QED  BY <1>1, <1>2 DEF Size

\* If neither the files nor what was written change, sizes do not.
LEMMA SizesSame ==
  ASSUME UNCHANGED <<log, pieces>>, NEW f
  PROVE  newest' = newest /\ Size(f)' = Size(f)
BY DEF newest, Size

\* A file has no fewer bytes if it has no fewer pieces.
LEMMA BytesGrow ==
  ASSUME NEW f, Size(f) \in Nat, Size(f)' \in Nat, Size(f) <= Size(f)',
         SettingsPtr' = SettingsPtr
  PROVE  Bytes(f) \in Nat /\ Bytes(f)' \in Nat /\ Bytes(f) <= Bytes(f)'
BY DEF Bytes

\* Follows holds at first.
LEMMA FollowingInit == Init => Following
BY DEF Init, Following, Follows, Runs

\* A race is not forgotten, nor a failure of the network.
LEMMA Remembered ==
  ASSUME [Next]_vars, Fields
  PROVE  (~raced' => ~raced) /\ (outages' = 0 => outages = 0)
<1>1. outages \in Nat
  BY DEF Fields
<1>2. ~raced' => ~raced
  BY DEF Next, Environment, Watcher, WritePiece, Rename, NewFile, NetworkFails, NetworkWorks,
         Restart, Wait, Resume, Stat, Look, Open, ReadPiece, EndOfFile, EndOfRotated, Search,
         Wake, RestartFails, OpenFails, SearchFails, initLogFileFails, vars
<1>3. outages' = outages + 1 \/ outages' = outages
  BY DEF Next, Environment, Watcher, WritePiece, Rename, NewFile, NetworkFails, NetworkWorks,
         Restart, Wait, Resume, Stat, Look, Open, ReadPiece, EndOfFile, EndOfRotated, Search,
         Wake, RestartFails, OpenFails, SearchFails, initLogFileFails, vars, net
<1>4. outages' = 0 => outages = 0
  BY <1>1, <1>3
<1>. QED  BY <1>2, <1>4

\* Each step keeps Follows, unless a new file comes too fast.
LEMMA FollowingStep == Shape /\ Following /\ [Next]_vars => Following'
<1> SUFFICES ASSUME Shape, Following, [Next]_vars, ~raced' PROVE Follows'
  BY DEF Following
<1>1. Files /\ Fields /\ Place
  BY DEF Shape
<1>2. newest \in Nat /\ newest >= 1 /\ newest \in 1..newest
  BY <1>1, NewestIsThere
<1>3. ~raced
  BY <1>1, Remembered
<1>4. Follows
  BY <1>3 DEF Following
<1>5. createdTime \in 0..newest /\ filePosition \in Nat /\ createdTime \in Nat
  BY <1>1 DEF Fields, Place
<1>6. \A f \in 1..newest : /\ Size(f) \in Nat /\ Bytes(f) \in Nat /\ Size(f) <= Bytes(f)
                           /\ End(f) <= Bytes(f)
  BY <1>1, Ends
<1>7. createdTime # 0 => createdTime \in 1..newest /\ filePosition <= Bytes(createdTime)
  BY <1>2, <1>4, <1>5 DEF Follows
<1>8. Runs => createdTime \in 1..newest
  BY <1>1, <1>7 DEF Place, Runs
<1>9. ASSUME UNCHANGED files
      PROVE  /\ newest' = newest /\ absent' = absent /\ (Rotates' <=> Rotates)
             /\ \A f \in Nat : Size(f)' = Size(f) /\ Bytes(f)' = Bytes(f)
  BY <1>9, SizesSame DEF files, Rotates, Bytes
<1>10. CASE WritePiece
  <2>1. newest' = newest /\ createdTime' = createdTime /\ filePosition' = filePosition
    BY <1>1, <1>2, <1>10, OnlyNewestGrows DEF WritePiece, reading
  <2>2. \A f \in 1..newest : Size(f)' = IF f = newest THEN Size(f) + 1 ELSE Size(f)
    BY <1>1, <1>10, OnlyNewestGrows
  <2>3. PICK c : c = createdTime /\ c = createdTime'
    BY <2>1
  <2>4. c # 0 => filePosition <= Bytes(c)'
    <3>1. SUFFICES ASSUME c \in 1..newest PROVE filePosition <= Bytes(c)'
      BY <1>7, <2>3
    <3>2. Size(c) \in Nat /\ Size(c)' \in Nat /\ Size(c) <= Size(c)'
      BY <1>6, <2>2, <3>1
    <3>3. Bytes(c) \in Nat /\ Bytes(c)' \in Nat /\ Bytes(c) <= Bytes(c)'
      BY <1>10, <3>2, BytesGrow DEF WritePiece
    <3>4. filePosition <= Bytes(c)
      BY <1>5, <1>7, <2>3, <3>1
    <3>. QED  BY <1>5, <3>3, <3>4
  <2>5. createdTime' # 0 => filePosition' <= Bytes(createdTime)'
    BY <2>1, <2>3, <2>4 DEF Bytes, Size
  <2>6. Runs /\ createdTime # newest => Size(createdTime)' = Size(createdTime)
    BY <1>8, <2>1, <2>2
  <2>7. pc' = pc /\ SettingsPtr' = SettingsPtr /\ stat' = stat /\ absent' = absent
        /\ RotationJustOccured' = RotationJustOccured
    BY <1>10 DEF WritePiece, reading
  <2>. QED  BY <1>4, <2>1, <2>5, <2>6, <2>7 DEF Follows, Rotates, Runs
<1>11. CASE Rename
  <2>1. /\ Runs => createdTime = newest
        /\ pc \in {"restart", "sleep"}
    BY <1>11 DEF Rename, Races, Runs
  <2>2. ~RotationJustOccured
    BY <1>1, <2>1 DEF Place
  <2>3. UNCHANGED <<createdTime, filePosition, pc, RotationJustOccured, stat, SettingsPtr, log,
                    pieces>>
    BY <1>11 DEF Rename, reading
  <2>4. newest' = newest /\ Bytes(createdTime)' = Bytes(createdTime)
    BY <2>3 DEF newest, Bytes, Size
  <2>. QED  BY <1>4, <2>1, <2>2, <2>3, <2>4 DEF Follows, Rotates, Runs
<1>12. CASE NewFile
  <2>1. newest' = newest + 1 /\ createdTime' = createdTime /\ filePosition' = filePosition
    BY <1>1, <1>2, <1>12, OthersKept DEF NewFile, reading
  <2>2. createdTime # 0 => Bytes(createdTime)' = Bytes(createdTime)
    <3>1. \A f \in 1..newest : Size(f)' = Size(f)
      BY <1>1, <1>12, OthersKept
    <3>2. SettingsPtr' = SettingsPtr
      BY <1>12 DEF NewFile
    <3>3. PICK c : c = createdTime /\ c = createdTime'
      BY <2>1
    <3>4. c # 0 => Bytes(c)' = Bytes(c)
      BY <1>7, <3>1, <3>2, <3>3 DEF Bytes
    <3>. QED  BY <3>3, <3>4 DEF Bytes, Size
  <2>3. /\ Runs => createdTime = newest
        /\ pc \in IF Rotates THEN {"restart", "sleep"} ELSE {"restart", "look", "read", "sleep"}
    BY <1>12 DEF NewFile, Races, Runs
  <2>4. ~RotationJustOccured
    BY <1>1, <2>3 DEF Place
  <2>5. UNCHANGED <<pc, RotationJustOccured, stat, SettingsPtr>> /\ absent' = FALSE
    BY <1>12 DEF NewFile, reading
  <2>. QED
    BY <1>2, <1>5, <1>7, <2>1, <2>2, <2>3, <2>4, <2>5 DEF Follows, Rotates, Runs
<1>13. CASE Restart
  <2>1. newest' = newest /\ Bytes(newest)' = Bytes(newest)
    BY <1>2, <1>9, <1>13 DEF Restart
  <2>2. ~RotationJustOccured /\ End(newest) <= Bytes(newest)
    BY <1>1, <1>2, <1>6, <1>13 DEF Place, Restart
  <2>3. createdTime' = newest /\ filePosition' = End(newest) /\ pc' = "look"
        /\ RotationJustOccured' = RotationJustOccured
    BY <1>13 DEF Restart
  <2>. QED  BY <1>2, <2>1, <2>2, <2>3 DEF Follows, Runs
<1>14. CASE Open
  <2>1. createdTime = File(filename)
    BY <1>1, <1>4, <1>14, FileNamed DEF Open, Follows, Place
  <2>2. initLogFile(createdTime, filePosition)
    BY <1>14, <2>1 DEF Open
  <2>3. createdTime \in 1..newest
    BY <1>8, <1>14 DEF Runs, Open
  <2>4. /\ createdTime' = createdTime /\ filePosition' \in Nat
        /\ filePosition' = filePosition \/ (filePosition = 0 /\ filePosition' <= Size(createdTime))
    BY <1>1, <1>5, <2>2, <2>3, OpenTyped
  <2>5. filePosition' <= Bytes(createdTime)
    BY <1>6, <1>7, <2>3, <2>4
  <2>. QED  BY <1>4, <1>9, <1>14, <2>3, <2>4, <2>5 DEF Follows, Open, Runs
<1>15. CASE ReadPiece
  <2>1. createdTime \in 1..newest
    BY <1>8, <1>15 DEF Runs, ReadPiece
  <2>2. filePosition' = filePosition + 1 /\ filePosition' <= Bytes(createdTime)
    BY <1>5, <1>6, <1>15, <2>1 DEF ReadPiece, AtEnd
  <2>. QED  BY <1>4, <1>9, <1>15, <2>1, <2>2 DEF Follows, ReadPiece, Runs
<1>16. CASE EndOfFile
  <2>1. createdTime \in 1..newest
    BY <1>8, <1>16 DEF Runs, EndOfFile
  <2>2. filePosition >= Size(createdTime)
    BY <1>16 DEF EndOfFile, AtEnd
  <2>3. UNCHANGED <<createdTime, filePosition, RotationJustOccured, stat>>
        /\ pc' \in {"search", "sleep"} /\ (pc' = "search" => ~Rotates)
    BY <1>16 DEF EndOfFile, Rotates
  <2>. QED  BY <1>4, <1>9, <1>16, <2>1, <2>2, <2>3 DEF Follows, EndOfFile, Runs
<1>17. CASE EndOfRotated
  <2>1. Bytes(newest)' = Bytes(newest) /\ newest' = newest /\ Bytes(newest) \in Nat
    BY <1>2, <1>6, <1>9, <1>17 DEF EndOfRotated
  <2>2. createdTime' = newest /\ filePosition' = 0 /\ ~RotationJustOccured' /\ pc' = "look"
    BY <1>4, <1>17 DEF EndOfRotated, Follows
  <2>. QED  BY <1>2, <2>1, <2>2 DEF Follows, Runs
<1>18. CASE Search
  <2>1. ~RotationJustOccured /\ ~Rotates
    BY <1>1, <1>4, <1>18 DEF Place, Follows, Search
  <2>2. pc' = "sleep" /\ RotationJustOccured' = RotationJustOccured /\ UNCHANGED files
    BY <1>18 DEF Search
  <2>3. CASE newest = createdTime
    <3>1. UNCHANGED <<createdTime, filePosition>>
      BY <1>18, <2>3 DEF Search
    <3>. QED  BY <1>2, <1>5, <1>7, <1>9, <2>1, <2>2, <2>3, <3>1 DEF Follows, Runs
  <2>4. CASE newest # createdTime
    <3>1. initLogFile(newest, 0)
      BY <1>18, <2>4 DEF Search
    <3>2. createdTime' = newest /\ filePosition' \in Nat
          /\ (filePosition' = 0 \/ filePosition' <= Size(newest))
      BY <1>1, <1>2, <3>1, OpenTyped
    <3>3. filePosition' <= Bytes(newest)
      BY <1>2, <1>6, <3>2
    <3>4. newest' = newest /\ Bytes(newest)' = Bytes(newest)
      BY <1>2, <1>9, <2>2
    <3>. QED  BY <1>2, <2>1, <2>2, <3>2, <3>3, <3>4 DEF Follows, Runs
  <2>. QED  BY <2>3, <2>4
<1>19. CASE Stat
  <2>1. createdTime \in {newest - 1, newest} /\ createdTime \in 1..newest
        /\ (absent => createdTime = newest)
    BY <1>4, <1>8, <1>19 DEF Follows, Runs, Stat
  <2>2. SeesRotation <=> createdTime # newest
    BY <1>2, <1>5, <1>6, <1>7, <2>1 DEF SeesRotation
  <2>3. ~RotationJustOccured
    BY <1>1, <1>19 DEF Place, Stat
  <2>4. createdTime' = createdTime /\ filePosition' = filePosition /\ pc' = "open"
        /\ newest' = newest /\ absent' = absent /\ Bytes(createdTime)' = Bytes(createdTime)
    BY <1>5, <1>9, <1>19 DEF Stat
  <2>5. RotationJustOccured' => ~absent /\ SeesRotation /\ stat' = newest
    BY <1>19, <2>3 DEF Stat
  <2>6. ~RotationJustOccured' => absent \/ ~SeesRotation
    BY <1>19 DEF Stat
  <2>. QED  BY <1>4, <1>7, <2>1, <2>2, <2>4, <2>5, <2>6 DEF Follows, Runs
<1>20. CASE RestartFails \/ OpenFails \/ SearchFails
  <2>1. /\ UNCHANGED <<createdTime, filePosition, RotationJustOccured, stat>>
        /\ UNCHANGED files /\ pc' = "ended"
    BY <1>20 DEF RestartFails, OpenFails, SearchFails, initLogFileFails
  <2>. QED  BY <1>4, <1>5, <1>9, <2>1 DEF Follows, Runs
<1>21. CASE NetworkFails
  BY <1>4, <1>5, <1>9, <1>21 DEF Follows, Runs, NetworkFails, reading
<1>22. CASE NetworkWorks
  BY <1>4, <1>5, <1>9, <1>22 DEF Follows, Runs, NetworkWorks, reading
<1>23. CASE Resume
  BY <1>4, <1>5, <1>9, <1>23 DEF Follows, Runs, Resume, reading
<1>24. CASE Look
  BY <1>4, <1>5, <1>9, <1>24 DEF Follows, Runs, Look, reading
<1>25. CASE Wake
  BY <1>4, <1>5, <1>9, <1>25 DEF Follows, Runs, Wake, reading
<1>26. CASE Wait
  BY <1>4, <1>5, <1>9, <1>26 DEF Follows, Runs, Wait
<1>27. CASE UNCHANGED vars
  BY <1>4, <1>5, <1>9, <1>27 DEF Follows, Runs, vars, reading
<1>. QED
  BY <1>10, <1>11, <1>12, <1>13, <1>14, <1>15, <1>16, <1>17, <1>18, <1>19, <1>20, <1>21, <1>22,
     <1>23, <1>24, <1>25, <1>26, <1>27 DEF Next, Environment, Watcher

\* The thread is at most one file behind, in every state.
LEMMA FollowingAlways == Spec => []Following
<1>1. Init => Following
  BY FollowingInit
<1>2. Shape /\ Following /\ [Next]_vars => Following'
  BY FollowingStep
<1>. QED  BY <1>1, <1>2, ShapeAlways, PTL DEF Spec
-----------------------------------------------------------------------------
(* What a step of the thread does to the pieces, whatever the files are.   *)

Reached ==
  IF createdTime = 0 THEN 0
  ELSE log[createdTime] + IF filePosition <= Size(createdTime) THEN filePosition
                                                               ELSE Size(createdTime)

\* The thread has begun beyond the end of a UNICODE file, and what is written is not read yet.
Beyond == createdTime # 0 /\ createdTime = newest /\ filePosition > Size(createdTime)

\* Nothing is read. What is to be left out may end with its file.
Still ==
  /\ UNCHANGED <<done, data>>
  /\ Reached' = Reached
  /\ first' = first \/ (Reached <= first /\ Reached <= first')

\* The thread begins, or begins again, at the end of what was written or beyond it.
Begins ==
  /\ pc = "restart"
  /\ UNCHANGED <<done, data>>
  /\ Reached' \in Nat /\ Reached <= Reached'
  /\ IF createdTime = 0 THEN Reached' <= first' ELSE first' = first

\* A piece is written that is left out.
Passes ==
  /\ Beyond
  /\ UNCHANGED <<done, data, first>>
  /\ Reached' = Reached + 1

\* The next pieces are skipped, at the beginning of a line.
Skips ==
  /\ ~Beyond
  /\ UNCHANGED <<data, first>>
  /\ Reached % 2 = 0
  /\ \E d \in Done : /\ d.as = "skipped" /\ d.line # << >>
                     /\ \A i \in DOMAIN d.line : d.line[i] = Reached + i
                     /\ Reached' = Reached + Len(d.line)
                     /\ done' = Append(done, d)

\* The next piece is read: it is kept, or it ends a line.
Reads ==
  /\ ~Beyond
  /\ first' = first
  /\ Reached' = Reached + 1
  /\ \/ Reached' % 2 = 1 /\ data' = Append(data, Reached') /\ done' = done
     \/ /\ Reached' % 2 = 0 /\ data' = << >>
        /\ \E d \in Done : /\ d.as # "skipped" /\ d.line = Append(data, Reached')
                           /\ done' = Append(done, d)

\* What was read was written.
LEMMA ReachedWritten == Shape => Reached \in Nat /\ Reached <= pieces
<1> SUFFICES ASSUME Shape PROVE Reached \in Nat /\ Reached <= pieces
  OBVIOUS
<1>1. Files /\ Fields /\ Place
  BY DEF Shape
<1>2. createdTime \in Nat /\ createdTime \in 0..newest /\ filePosition \in Nat /\ pieces \in Nat
  BY <1>1 DEF Fields, Files, Place
<1>3. CASE createdTime = 0
  BY <1>2, <1>3 DEF Reached
<1>4. CASE createdTime # 0
  <2>1. createdTime \in 1..newest /\ newest \in Nat
    BY <1>1, <1>2, <1>4, NewestIsThere
  <2>2. /\ log[createdTime] \in Nat /\ Size(createdTime) \in Nat
        /\ log[createdTime] + Size(createdTime) <= pieces
    BY <1>1, <2>1, Sizes
  <2>. QED  BY <1>2, <1>4, <2>2 DEF Reached
<1>. QED  BY <1>3, <1>4

\* Reached, of a file that is open: to its end at most.
LEMMA ReachedAt ==
  ASSUME NEW c, c # 0, createdTime = c, Size(c) \in Nat, filePosition \in Nat, log[c] \in Nat
  PROVE  /\ filePosition <= Size(c) => Reached = log[c] + filePosition
         /\ filePosition >= Size(c) => Reached = log[c] + Size(c)
BY DEF Reached

\* To open a file where the thread is skips the first line, or nothing.
LEMMA OpenMoves ==
  ASSUME Files, Fields, NEW f \in 1..newest, NEW position \in Nat, initLogFile(f, position),
         UNCHANGED <<log, pieces, data, first>>,
         Reached = log[f] + IF position <= Size(f) THEN position ELSE Size(f),
         position = 0 => ~Beyond
  PROVE  Still \/ Skips
<1>1. /\ Skipped(f, position) \in Seq(Nat) /\ Len(Skipped(f, position)) \in Nat
      /\ Len(Skipped(f, position)) <= Size(f)
      /\ position # 0 => Len(Skipped(f, position)) = 0
      /\ \A i \in DOMAIN Skipped(f, position) : Skipped(f, position)[i] = log[f] + i
      /\ Skipped(f, position) = << >> <=> Len(Skipped(f, position)) = 0
  BY SkippedFits
<1>2. createdTime' = f /\ filePosition' = position + Len(Skipped(f, position))
  BY DEF initLogFile
<1>3. f \in Nat /\ f # 0 /\ log[f] \in Nat /\ log[f] % 2 = 0 /\ Size(f) \in Nat
  BY Sizes DEF Files
<1>4. Reached' = log[f] + IF filePosition' <= Size(f) THEN filePosition' ELSE Size(f)
  BY <1>2, <1>3, SizesSame DEF Reached
<1>5. CASE Skipped(f, position) = << >>
  <2>1. done' = done
    BY <1>5 DEF initLogFile
  <2>2. filePosition' = position
    BY <1>1, <1>2, <1>5
  <2>3. Reached' = Reached
    BY <1>4, <2>2
  <2>. QED  BY <2>1, <2>3 DEF Still
<1>6. CASE Skipped(f, position) # << >>
  <2>1. position = 0
    BY <1>1, <1>6
  <2>2. Reached = log[f] /\ Reached' = Reached + Len(Skipped(f, position))
    BY <1>1, <1>2, <1>3, <1>4, <2>1
  <2>3. Codes(f) \in Int \X Int
    BY <1>3, CodesTyped
  <2>4. PICK d \in Done : d.line = Skipped(f, position) /\ d.as = "skipped"
                          /\ done' = Append(done, d)
    <3>1. done' = Append(done, [line |-> Skipped(f, position), file |-> f, as |-> "skipped",
                                codes |-> Codes(f)])
      BY <1>6 DEF initLogFile
    <3>2. [line |-> Skipped(f, position), file |-> f, as |-> "skipped",
           codes |-> Codes(f)] \in Done
      BY <1>1, <1>3, <2>3 DEF Done
    <3>. QED  BY <3>1, <3>2
  <2>5. Reached % 2 = 0
    BY <1>3, <2>2
  <2>6. \A i \in DOMAIN d.line : d.line[i] = Reached + i
    BY <1>1, <2>2, <2>4
  <2>. QED  BY <1>6, <2>1, <2>2, <2>4, <2>5, <2>6 DEF Skips
<1>. QED  BY <1>5, <1>6

\* Where neither the files nor the place change, nothing is read.
LEMMA StaysStill ==
  ASSUME UNCHANGED <<log, pieces, createdTime, filePosition, done, data, first>>
  PROVE  Still
<1>1. Size(createdTime)' = Size(createdTime)
  BY DEF Size, newest
<1>. QED  BY <1>1 DEF Still, Reached

\* Each step of the program is one of the five.
LEMMA Moves ==
  ASSUME Shape, Follows, [Next]_vars
  PROVE  Still \/ Begins \/ Passes \/ Skips \/ Reads
<1>1. Files /\ Fields /\ Place
  BY DEF Shape
<1>2. newest \in Nat /\ newest >= 1 /\ newest \in 1..newest /\ pieces \in Nat
  BY <1>1, NewestIsThere DEF Files
<1>3. createdTime \in 0..newest /\ filePosition \in Nat /\ createdTime \in Nat
  BY <1>1 DEF Fields, Place
<1>4. \A f \in 1..newest : /\ log[f] \in Nat /\ Size(f) \in Nat
                           /\ f = newest => log[f] + Size(f) = pieces
                           /\ f # newest => log[f] + Size(f) = log[f + 1]
  BY <1>1, Sizes
<1>5. Reached \in Nat /\ Reached <= pieces
  BY ReachedWritten
<1>6. createdTime # 0 => /\ createdTime \in 1..newest
                         /\ filePosition <= Size(createdTime) => Reached = log[createdTime] + filePosition
                         /\ filePosition >= Size(createdTime)
                              => Reached = log[createdTime] + Size(createdTime)
  BY <1>2, <1>3, <1>4, ReachedAt
<1>7. Runs => createdTime # 0
  BY <1>1 DEF Runs, Place
<1>8. CASE Restart
  <2>1. UNCHANGED <<log, pieces>> /\ createdTime' = newest /\ filePosition' = End(newest)
    BY <1>8 DEF Restart, files
  <2>2. newest' = newest /\ Size(newest)' = Size(newest)
    BY <1>2, <2>1, SizesSame
  <2>3. End(newest) \in Nat /\ Size(newest) <= End(newest)
    BY <1>1, <1>2, Ends
  <2>4. PICK c \in 1..newest : c = newest
    BY <1>2
  <2>5. Reached' = log[newest] + Size(newest)
    <3>1. c # 0 /\ createdTime' = c /\ Size(c)' = Size(c) /\ log' = log
          /\ filePosition' >= Size(c) /\ filePosition' \in Nat
      BY <1>2, <1>4, <2>1, <2>2, <2>3, <2>4, SizesSame
    <3>2. Reached' = log[c] + IF filePosition' <= Size(c) THEN filePosition' ELSE Size(c)
      BY <3>1, <2>1, SizesSame DEF Reached
    <3>. QED  BY <1>4, <2>4, <3>1, <3>2
  <2>6. Reached' = pieces
    BY <1>2, <1>4, <2>5
  <2>7. IF createdTime = 0 THEN Reached' <= first' ELSE first' = first
    <3>1. first' = IF createdTime = 0 THEN log[newest] + End(newest) ELSE first
      BY <1>8 DEF Restart
    <3>. QED  BY <1>2, <1>4, <2>3, <2>5, <3>1
  <2>. QED  BY <1>2, <1>5, <1>8, <2>6, <2>7 DEF Begins, Restart
<1>9. CASE Open
  <2>1. createdTime = File(filename) /\ createdTime \in 1..newest
    BY <1>1, <1>6, <1>9, FileNamed DEF Open, Place, Follows
  <2>2. initLogFile(createdTime, filePosition) /\ UNCHANGED <<log, pieces, data, first>>
    BY <1>9, <2>1 DEF Open, files
  <2>3. Reached = log[createdTime] + IF filePosition <= Size(createdTime) THEN filePosition
                                                                        ELSE Size(createdTime)
    BY <1>2, <2>1 DEF Reached
  <2>4. filePosition = 0 => ~Beyond
    BY <1>4, <2>1 DEF Beyond
  <2>. QED  BY <1>1, <1>3, <2>1, <2>2, <2>3, <2>4, OpenMoves
<1>10. CASE ReadPiece
  <2>1. PICK c \in 1..newest : c = createdTime /\ c # 0 /\ createdTime' = c
    BY <1>2, <1>6, <1>7, <1>10 DEF Runs, ReadPiece
  <2>2. UNCHANGED <<log, pieces>> /\ filePosition' = filePosition + 1
        /\ Size(c)' = Size(c) /\ Size(c) \in Nat /\ log[c] \in Nat
    BY <1>4, <1>10, SizesSame DEF ReadPiece, files
  <2>3. filePosition < Size(c) /\ filePosition' \in Nat /\ filePosition' <= Size(c)
    BY <1>3, <1>10, <2>1, <2>2 DEF ReadPiece, AtEnd
  <2>4. Reached = log[c] + filePosition
    BY <1>3, <1>6, <2>1, <2>2, <2>3
  <2>5. Reached' = log[c] + filePosition'
    BY <2>1, <2>2, <2>3 DEF Reached
  <2>6. Reached' = Reached + 1 /\ first' = first /\ ~Beyond
    BY <1>3, <1>10, <2>1, <2>2, <2>3, <2>4, <2>5, SMTT(30) DEF Beyond, ReadPiece
  <2>7. PICK piece : piece = log[createdTime] + filePosition' /\ piece = Reached'
    BY <2>1, <2>5
  <2>8. PICK line : line = Append(data, piece)
    OBVIOUS
  <2>9. IF piece % 2 = 0 THEN ReadLine(line) /\ data' = << >>
                         ELSE data' = line /\ UNCHANGED <<done, fieldCodes>>
    BY <1>10, <2>7, <2>8 DEF ReadPiece
  <2>10. CASE piece % 2 = 0
    <3>1. data \in Seq(Nat) /\ createdTime \in Nat /\ fieldCodes \in Int \X Int
      BY <1>1 DEF Fields
    <3>2. piece \in Nat
      BY <1>5, <2>6, <2>7
    <3>3. line \in Seq(Nat)
      BY <2>8, <3>1, <3>2
    <3>4. PICK as \in {"sent", "ignored", "sent as it is"} :
            done' = Append(done, [line |-> line, file |-> createdTime, as |-> as,
                                  codes |-> fieldCodes])
      BY <2>9, <2>10 DEF ReadLine
    <3>5. PICK d \in Done : /\ d.as # "skipped" /\ d.line = line
                            /\ done' = Append(done, d)
      <4>1. [line |-> line, file |-> createdTime, as |-> as, codes |-> fieldCodes] \in Done
        BY <3>1, <3>3 DEF Done
      <4>. QED  BY <3>4, <4>1
    <3>. QED  BY <2>6, <2>7, <2>8, <2>9, <2>10, <3>5 DEF Reads
  <2>11. CASE piece % 2 # 0
    <3>1. Reached' % 2 = 1
      BY <1>5, <2>6, <2>7, <2>11
    <3>. QED  BY <2>6, <2>7, <2>8, <2>9, <2>11, <3>1 DEF Reads
  <2>. QED  BY <2>10, <2>11
<1>11. CASE EndOfRotated
  <2>1. createdTime = newest - 1 /\ stat = newest /\ createdTime # 0
    BY <1>7, <1>11 DEF EndOfRotated, Follows, Runs
  <2>2. filePosition >= Size(createdTime)
    BY <1>11 DEF EndOfRotated, AtEnd
  <2>3. Reached = log[newest]
    <3>1. createdTime \in 1..newest /\ createdTime # newest /\ createdTime + 1 = newest
      BY <1>2, <1>6, <2>1
    <3>. QED  BY <1>4, <1>6, <2>1, <2>2, <3>1
  <2>4. UNCHANGED <<log, pieces, done, data, first>>
        /\ createdTime' = newest /\ filePosition' = 0
    BY <1>11, <2>1 DEF EndOfRotated, files
  <2>5. Size(newest)' = Size(newest)
    BY <2>4, SizesSame
  <2>6. Reached' = log[newest] + 0
    <3>1. PICK c \in 1..newest : c = newest
      BY <1>2
    <3>2. c # 0 /\ createdTime' = c /\ Size(c)' \in Nat /\ log' = log /\ filePosition' = 0
      BY <1>2, <1>4, <2>4, <2>5, <3>1, SizesSame
    <3>3. Reached' = log[c] + IF 0 <= Size(c)' THEN 0 ELSE Size(c)'
      BY <3>2 DEF Reached
    <3>. QED  BY <3>1, <3>2, <3>3
  <2>7. Reached' = Reached
    BY <1>2, <1>4, <2>3, <2>6
  <2>. QED  BY <2>4, <2>7 DEF Still
<1>12. CASE Search
  <2>1. CASE newest = createdTime
    <3>1. UNCHANGED <<log, pieces, createdTime, filePosition, done, data, first>>
      BY <1>12, <2>1 DEF Search, files
    <3>. QED  BY <3>1, StaysStill
  <2>2. CASE newest # createdTime
    <3>1. initLogFile(newest, 0) /\ UNCHANGED <<log, pieces, data, first>>
      BY <1>12, <2>2 DEF Search, files
    <3>2. /\ createdTime = newest - 1 /\ createdTime # 0
          /\ filePosition >= Size(createdTime)
      BY <1>7, <1>12, <2>2 DEF Search, Follows, Runs
    <3>3. Reached = log[newest]
      <4>1. createdTime \in 1..newest /\ createdTime # newest /\ createdTime + 1 = newest
        BY <1>2, <1>6, <3>2
      <4>. QED  BY <1>4, <1>6, <3>2, <4>1
    <3>4. Reached = log[newest] + IF 0 <= Size(newest) THEN 0 ELSE Size(newest)
      BY <1>2, <1>4, <3>3
    <3>5. ~Beyond
      BY <2>2 DEF Beyond
    <3>. QED  BY <1>1, <1>2, <3>1, <3>4, <3>5, OpenMoves
  <2>. QED  BY <2>1, <2>2
<1>13. CASE NewFile
  <2>1. /\ \A f \in 1..newest : newest' = newest + 1 /\ log'[f] = log[f] /\ Size(f)' = Size(f)
        /\ UNCHANGED <<done, data, createdTime, filePosition>>
    BY <1>1, <1>13, OthersKept DEF NewFile, reading
  <2>2. Reached' = Reached
    <3>1. PICK c : c = createdTime /\ c = createdTime'
      BY <2>1
    <3>2. c # 0 => log'[c] = log[c] /\ Size(c)' = Size(c)
      BY <1>6, <2>1, <3>1
    <3>. QED  BY <2>1, <3>1, <3>2 DEF Reached
  <2>3. first' = first \/ (first > pieces /\ first' = pieces)
    BY <1>13 DEF NewFile
  <2>4. first \in Nat
    BY <1>1 DEF Fields
  <2>5. first' = first \/ (Reached <= first /\ Reached <= first')
    BY <1>2, <1>5, <2>3, <2>4
  <2>. QED  BY <2>1, <2>2, <2>5 DEF Still
<1>14. CASE WritePiece
  <2>1. UNCHANGED <<createdTime, filePosition, done, data, first, log>>
    BY <1>14 DEF WritePiece, reading
  <2>2. PICK c : c = createdTime /\ c = createdTime'
    BY <2>1
  <2>3. c # 0 => c \in 1..newest /\ Size(c) \in Nat
                 /\ Size(c)' = IF c = newest THEN Size(c) + 1 ELSE Size(c)
    BY <1>1, <1>6, <1>14, <2>2, OnlyNewestGrows
  <2>4. CASE Beyond
    <3>1. c # 0 /\ c = newest /\ filePosition > Size(c)
      BY <2>2, <2>4 DEF Beyond
    <3>2. Size(c)' = Size(c) + 1 /\ filePosition >= Size(c) + 1 /\ filePosition >= Size(c)
      BY <1>3, <2>3, <3>1
    <3>3. Reached' = log[c] + (Size(c) + 1)
      <4>1. Reached' = log[c] + IF filePosition <= Size(c)' THEN filePosition ELSE Size(c)'
        BY <2>1, <2>2, <3>1 DEF Reached
      <4>. QED  BY <1>3, <2>3, <3>1, <3>2, <4>1
    <3>4. Reached = log[c] + Size(c) /\ log[c] \in Nat
      BY <1>4, <1>6, <2>2, <2>3, <3>1, <3>2
    <3>5. Reached' = Reached + 1
      BY <2>3, <3>1, <3>3, <3>4
    <3>. QED  BY <2>1, <2>4, <3>5 DEF Passes
  <2>5. CASE ~Beyond
    <3>1. c # 0 /\ c = newest => filePosition <= Size(c)
      BY <1>3, <2>2, <2>3, <2>5 DEF Beyond
    <3>2. c # 0 => IF filePosition <= Size(c)' THEN filePosition <= Size(c)
                                             ELSE filePosition > Size(c) /\ Size(c)' = Size(c)
      BY <1>3, <2>3, <3>1
    <3>3. Reached = (IF c = 0 THEN 0 ELSE log[c] + IF filePosition <= Size(c) THEN filePosition
                                                                               ELSE Size(c))
          /\ Reached' = (IF c = 0 THEN 0 ELSE log[c] + IF filePosition <= Size(c)' THEN filePosition
                                                                                 ELSE Size(c)')
      BY <2>1, <2>2 DEF Reached
    <3>4. Reached' = Reached
      BY <1>3, <2>3, <3>2, <3>3
    <3>. QED  BY <2>1, <3>4 DEF Still
  <2>. QED  BY <2>4, <2>5
<1>15. CASE \/ Rename \/ NetworkFails \/ NetworkWorks \/ Wait \/ Resume \/ Stat \/ Look
            \/ EndOfFile \/ Wake \/ RestartFails \/ OpenFails \/ SearchFails
            \/ UNCHANGED vars
  <2>1. UNCHANGED <<log, pieces, createdTime, filePosition, done, data, first>>
    BY <1>15 DEF Rename, NetworkFails, NetworkWorks, Wait, Resume, Stat, Look, EndOfFile, Wake,
                 RestartFails, OpenFails, SearchFails, initLogFileFails, vars, reading, files
  <2>. QED  BY <2>1, StaysStill
<1>. QED
  BY <1>8, <1>9, <1>10, <1>11, <1>12, <1>13, <1>14, <1>15 DEF Next, Environment, Watcher

\* The thread only goes on.
LEMMA MovesOn ==
  ASSUME Shape, Follows, [Next]_vars
  PROVE  Reached' \in Nat /\ Reached <= Reached'
<1>1. Reached \in Nat
  BY ReachedWritten
<1>2. CASE Skips
  <2>1. PICK d \in Done : Reached' = Reached + Len(d.line)
    BY <1>2 DEF Skips
  <2>2. Len(d.line) \in Nat
    <3>1. d.line \in Seq(Nat)
      BY DEF Done
    <3>. QED  BY <3>1
  <2>. QED  BY <1>1, <2>1, <2>2
<1>3. CASE Still \/ Begins \/ Passes \/ Reads
  BY <1>1, <1>3 DEF Still, Begins, Passes, Reads
<1>. QED  BY <1>2, <1>3, Moves
-----------------------------------------------------------------------------
(* The order of the lines.                                                 *)

UpTo(s, n) == \A i \in DOMAIN s : s[i] <= n

\* A piece with a greater number than all before it keeps a line in order.
LEMMA RisesOn ==
  ASSUME NEW s \in Seq(Nat), NEW n \in Nat, UpTo(s, n), Rising(s)
  PROVE  /\ Append(s, n + 1) \in Seq(Nat)
         /\ Rising(Append(s, n + 1)) /\ UpTo(Append(s, n + 1), n + 1)
         /\ \A t \in Seq(Nat) : Before(t, s) /\ UpTo(t, n) => Before(t, Append(s, n + 1))
<1>1. PICK k \in Nat : /\ k = Len(s) /\ DOMAIN s = 1..k
                       /\ DOMAIN Append(s, n + 1) = 1..(k + 1)
                       /\ Append(s, n + 1)[k + 1] = n + 1
                       /\ \A i \in 1..k : Append(s, n + 1)[i] = s[i] /\ s[i] \in Nat
  OBVIOUS
<1>2. PICK a, m : a = Append(s, n + 1) /\ m = n + 1
  OBVIOUS
<1>3. /\ a \in Seq(Nat) /\ DOMAIN a = 1..(k + 1) /\ a[k + 1] = m
      /\ \A i \in 1..k : a[i] = s[i]
  BY <1>1, <1>2
<1>4. \A i \in 1..k : s[i] \in Nat /\ s[i] < m /\ s[i] <= m
  <2>1. \A i \in 1..k : s[i] \in Nat /\ s[i] <= n
    BY <1>1 DEF UpTo
  <2>. QED  BY <1>2, <2>1
<1>5. \A i \in 1..(k + 1) : i \in 1..k \/ i = k + 1
  OBVIOUS
<1>6. Rising(a)
  <2> SUFFICES ASSUME NEW i \in 1..(k + 1), NEW j \in 1..(k + 1), i < j
               PROVE  a[i] < a[j]
    BY <1>3 DEF Rising
  <2>1. i \in 1..k
    OBVIOUS
  <2>2. CASE j \in 1..k
    BY <1>1, <1>3, <2>1, <2>2 DEF Rising
  <2>3. CASE j = k + 1
    BY <1>3, <1>4, <2>1, <2>3
  <2>. QED  BY <1>5, <2>2, <2>3
<1>7. UpTo(a, m)
  <2> SUFFICES ASSUME NEW i \in 1..(k + 1) PROVE a[i] <= m
    BY <1>3 DEF UpTo
  <2>1. CASE i \in 1..k
    BY <1>3, <1>4, <2>1
  <2>2. CASE i = k + 1
    BY <1>2, <1>3, <2>2
  <2>. QED  BY <1>5, <2>1, <2>2
<1>8. ASSUME NEW t \in Seq(Nat), Before(t, s), UpTo(t, n)
      PROVE  Before(t, a)
  <2> SUFFICES ASSUME NEW i \in DOMAIN t, NEW j \in 1..(k + 1) PROVE t[i] < a[j]
    BY <1>3 DEF Before
  <2>1. CASE j \in 1..k
    BY <1>1, <1>3, <1>8, <2>1 DEF Before
  <2>2. CASE j = k + 1
    <3>1. t[i] \in Nat /\ t[i] <= n
      BY <1>8 DEF UpTo
    <3>. QED  BY <1>2, <1>3, <2>2, <3>1
  <2>. QED  BY <1>5, <2>1, <2>2
<1>. QED  BY <1>2, <1>3, <1>6, <1>7, <1>8

\* A piece that is kept leaves the lines D in order.
LEMMA KeptInOrder ==
  ASSUME done \in Seq(Done), data \in Seq(Nat), NEW D \in SUBSET DOMAIN done, NEW n \in Nat,
         InOrder(D), UpTo(data, n), \A i \in D : UpTo(done[i].line, n),
         done' = done, data' = Append(data, n + 1)
  PROVE  InOrder(D)' /\ UpTo(data', n + 1)
<1>1. \A i \in D : done[i].line \in Seq(Nat)
  <2>1. \A i \in D : done[i] \in Done
    OBVIOUS
  <2>. QED  BY <2>1 DEF Done
<1>2. /\ \A i, j \in D : i < j => Before(done[i].line, done[j].line)
      /\ \A i \in D : Rising(done[i].line) /\ Before(done[i].line, data)
      /\ Rising(data)
  BY DEF InOrder
<1>3. Rising(data') /\ UpTo(data', n + 1)
  BY <1>2, RisesOn
<1>4. \A i \in D : Before(done[i].line, data')
  BY <1>1, <1>2, RisesOn
<1>. QED  BY <1>2, <1>3, <1>4 DEF InOrder

\* What is added to done, at the end, leaves the lines D as they were.
LEMMA LinesKept ==
  ASSUME done \in Seq(Done), NEW d \in Done, done' = Append(done, d)
  PROVE  /\ DOMAIN done' = DOMAIN done \cup {Len(done) + 1}
         /\ done'[Len(done) + 1] = d
         /\ Len(done) + 1 \notin DOMAIN done
         /\ \A i \in DOMAIN done : done'[i] = done[i] /\ i < Len(done) + 1
<1>1. PICK k \in Nat : k = Len(done) /\ DOMAIN done = 1..k
  OBVIOUS
<1>2. /\ Len(done') = k + 1 /\ DOMAIN done' = 1..(k + 1) /\ done'[k + 1] = d
      /\ \A i \in 1..k : done'[i] = done[i]
  BY <1>1
<1>. QED  BY <1>1, <1>2

\* A line that is read or skipped is in order with the lines D, if it comes after them.
LEMMA LineInOrder ==
  ASSUME done \in Seq(Done), data' = << >>, NEW d \in Done, done' = Append(done, d),
         NEW D \in SUBSET DOMAIN done, InOrder(D),
         Rising(d.line), \A i \in D : Before(done[i].line, d.line),
         NEW k, k = Len(done) + 1
  PROVE  InOrder(D \cup {k})'
<1>1. /\ done'[Len(done) + 1] = d /\ Len(done) + 1 \notin DOMAIN done
      /\ \A i \in DOMAIN done : done'[i] = done[i] /\ i < Len(done) + 1
  BY LinesKept
<1>2. /\ \A i, j \in D : i < j => Before(done[i].line, done[j].line)
      /\ \A i \in D : Rising(done[i].line)
  BY DEF InOrder
<1>3. \A i \in DOMAIN done : i \in Nat /\ i < k /\ ~(k < i)
  BY LinesKept
<1>4. ~(k < k)
  <2>1. Len(done) \in Nat
    OBVIOUS
  <2>. QED  BY <2>1
<1>5. \A i \in D : i \in DOMAIN done
  OBVIOUS
<1>6. ASSUME NEW i \in D \cup {k}, NEW j \in D \cup {k}, i < j
      PROVE  Before(done'[i].line, done'[j].line)
  <2>1. i # k
    BY <1>3, <1>4, <1>5, <1>6
  <2>2. CASE j \in D
    BY <1>1, <1>2, <1>5, <1>6, <2>1, <2>2
  <2>3. CASE j = k
    BY <1>1, <1>5, <2>1, <2>3
  <2>. QED  BY <2>2, <2>3
<1>7. ASSUME NEW i \in D \cup {k}
      PROVE  Rising(done'[i].line) /\ Before(done'[i].line, data')
  <2>1. Rising(done'[i].line)
    BY <1>1, <1>2, <1>5
  <2>. QED  BY <2>1 DEF Before
<1>8. Rising(data')
  BY DEF Rising
<1>. QED  BY <1>6, <1>7, <1>8 DEF InOrder

\* The lines D are in order, and nothing is in front of the thread.
Behind(D) ==
  /\ InOrder(D)
  /\ UpTo(data, Reached)
  /\ \A i \in D : UpTo(done[i].line, Reached)

Kept == {i \in DOMAIN done : done[i].as # "skipped"}

\* What is behind the thread stays behind it as it goes on.
LEMMA StaysBehind ==
  ASSUME NEW s \in Seq(Nat), NEW m \in Nat, NEW n \in Nat, m <= n, UpTo(s, m)
  PROVE  UpTo(s, n)
<1> SUFFICES ASSUME NEW i \in DOMAIN s PROVE s[i] <= n
  BY DEF UpTo
<1>1. s[i] \in Nat /\ s[i] <= m
  BY DEF UpTo
<1>. QED  BY <1>1

\* If nothing is added to what was read, the lines D stay behind.
LEMMA BehindAsBefore ==
  ASSUME done \in Seq(Done), data \in Seq(Nat), NEW D \in SUBSET DOMAIN done, Behind(D),
         UNCHANGED <<done, data>>, Reached \in Nat, Reached' \in Nat, Reached <= Reached'
  PROVE  Behind(D)'
<1>1. \A i \in D : done[i].line \in Seq(Nat)
  <2>1. \A i \in D : done[i] \in Done
    OBVIOUS
  <2>. QED  BY <2>1 DEF Done
<1>2. InOrder(D)'
  BY DEF Behind, InOrder
<1>3. UpTo(data, Reached') /\ \A i \in D : UpTo(done[i].line, Reached')
  BY <1>1, StaysBehind DEF Behind
<1>. QED  BY <1>2, <1>3 DEF Behind

\* What is skipped does not disturb the lines D, and may be one of them if no line is begun.
LEMMA BehindSkips ==
  ASSUME done \in Seq(Done), data \in Seq(Nat), NEW D \in SUBSET DOMAIN done, Behind(D),
         Reached \in Nat, data' = data,
         NEW d \in Done, \A i \in DOMAIN d.line : d.line[i] = Reached + i,
         Reached' = Reached + Len(d.line), done' = Append(done, d),
         NEW k, k = Len(done) + 1
  PROVE  Behind(D)' /\ (data = << >> => Behind(D \cup {k})')
<1>1. /\ done'[k] = d /\ \A i \in DOMAIN done : done'[i] = done[i]
  BY LinesKept
<1>2. \A i \in D : done[i].line \in Seq(Nat)
  <2>1. \A i \in D : done[i] \in Done
    OBVIOUS
  <2>. QED  BY <2>1 DEF Done
<1>3. PICK n \in Nat : n = Len(d.line) /\ DOMAIN d.line = 1..n
  <2>1. d.line \in Seq(Nat)
    BY DEF Done
  <2>. QED  BY <2>1
<1>4. Reached' \in Nat /\ Reached <= Reached' /\ Reached' = Reached + n
  BY <1>3
<1>5. UpTo(data, Reached') /\ \A i \in D : UpTo(done[i].line, Reached')
  BY <1>2, <1>4, StaysBehind DEF Behind
<1>6. InOrder(D)'
  BY <1>1 DEF Behind, InOrder
<1>7. Behind(D)'
  BY <1>1, <1>5, <1>6 DEF Behind
<1>8. ASSUME data = << >> PROVE Behind(D \cup {k})'
  <2>1. Rising(d.line) /\ UpTo(d.line, Reached')
    BY <1>3, <1>4 DEF Rising, UpTo
  <2>2. ASSUME NEW i \in D PROVE Before(done[i].line, d.line)
    <3> SUFFICES ASSUME NEW a \in DOMAIN done[i].line, NEW b \in 1..n
                 PROVE  done[i].line[a] < d.line[b]
      BY <1>3 DEF Before
    <3>1. done[i].line[a] \in Nat /\ done[i].line[a] <= Reached
      BY <1>2 DEF Behind, UpTo
    <3>2. d.line[b] = Reached + b
      BY <1>3
    <3>. QED  BY <3>1, <3>2
  <2>3. InOrder(D \cup {k})'
    BY <1>8, <2>1, <2>2, LineInOrder DEF Behind
  <2>4. \A i \in D \cup {k} : UpTo(done'[i].line, Reached')
    BY <1>1, <1>5, <2>1
  <2>. QED  BY <1>5, <2>3, <2>4 DEF Behind
<1>. QED  BY <1>7, <1>8

\* A line that ends is one more of the lines D.
LEMMA BehindReads ==
  ASSUME done \in Seq(Done), data \in Seq(Nat), NEW D \in SUBSET DOMAIN done, Behind(D),
         Reached \in Nat, data' = << >>, Reached' = Reached + 1,
         NEW d \in Done, d.line = Append(data, Reached'), done' = Append(done, d),
         NEW k, k = Len(done) + 1
  PROVE  Behind(D \cup {k})'
<1>1. /\ done'[k] = d /\ \A i \in DOMAIN done : done'[i] = done[i]
  BY LinesKept
<1>2. \A i \in D : done[i].line \in Seq(Nat)
  <2>1. \A i \in D : done[i] \in Done
    OBVIOUS
  <2>. QED  BY <2>1 DEF Done
<1>3. Reached' \in Nat /\ Reached <= Reached'
  OBVIOUS
<1>4. Rising(data) /\ \A i \in D : Before(done[i].line, data)
  BY DEF Behind, InOrder
<1>5. Rising(d.line) /\ UpTo(d.line, Reached') /\ \A i \in D : Before(done[i].line, d.line)
  BY <1>2, <1>4, RisesOn DEF Behind
<1>6. InOrder(D \cup {k})'
  BY <1>5, LineInOrder DEF Behind
<1>7. \A i \in D : UpTo(done[i].line, Reached')
  BY <1>2, <1>3, StaysBehind DEF Behind
<1>8. \A i \in D \cup {k} : UpTo(done'[i].line, Reached')
  BY <1>1, <1>5, <1>7
<1>9. UpTo(data', Reached')
  BY DEF UpTo
<1>. QED  BY <1>6, <1>8, <1>9 DEF Behind

\* A piece that is kept stays behind, too.
LEMMA BehindKeeps ==
  ASSUME done \in Seq(Done), data \in Seq(Nat), NEW D \in SUBSET DOMAIN done, Behind(D),
         Reached \in Nat, data' = Append(data, Reached'), Reached' = Reached + 1, done' = done
  PROVE  Behind(D)'
<1>1. \A i \in D : done[i].line \in Seq(Nat)
  <2>1. \A i \in D : done[i] \in Done
    OBVIOUS
  <2>. QED  BY <2>1 DEF Done
<1>2. InOrder(D)' /\ UpTo(data', Reached')
  BY KeptInOrder DEF Behind
<1>3. \A i \in D : UpTo(done[i].line, Reached')
  BY <1>1, StaysBehind DEF Behind
<1>. QED  BY <1>2, <1>3 DEF Behind
-----------------------------------------------------------------------------
(* Nothing is repeated or out of order, and nothing is left out.           *)

KeptBehind == ~raced => Behind(Kept)

\* While the network works the thread begins only once.
BeginsOnce ==
  outages = 0 =>
    /\ LastTransmitOK /\ pc # "waiting"
    /\ pc = "restart" => createdTime = 0 /\ data = << >> /\ done = << >>

\* What is in front of the place where the thread reads next, or begins to read.
Since == IF Beyond THEN first = log[createdTime] + filePosition ELSE first <= Reached

\* All the pieces from the first to the last that was read are taken, and the last is
\* kept if it ends no line.
AllTaken ==
  /\ Since
  /\ Behind(DOMAIN done)
  /\ Taken = (first + 1)..Reached
  /\ data = << >> \/ (data = <<Reached>> /\ Reached % 2 = 1)

TakenAll == outages = 0 /\ ~raced => AllTaken

\* What is skipped is not kept; what is read is.
LEMMA KeptSo ==
  ASSUME done \in Seq(Done), NEW d \in Done, done' = Append(done, d)
  PROVE  Kept' = IF d.as = "skipped" THEN Kept ELSE Kept \cup {Len(done) + 1}
BY LinesKept DEF Kept

\* What the thread kept is behind it, at first.
LEMMA KeptBehindInit == Init => KeptBehind
<1> SUFFICES ASSUME Init PROVE Behind(Kept)
  BY DEF KeptBehind
<1>1. done = << >> /\ data = << >>
  BY DEF Init
<1>2. DOMAIN done = {} /\ DOMAIN data = {}
  BY <1>1
<1>. QED  BY <1>2 DEF Behind, Kept, InOrder, UpTo, Rising

\* ... and stays behind.
LEMMA KeptBehindStep ==
  Shape /\ Following /\ KeptBehind /\ [Next]_vars => KeptBehind'
<1> SUFFICES ASSUME Shape, Following, KeptBehind, [Next]_vars, ~raced'
             PROVE  Behind(Kept)'
  BY Zenon DEF KeptBehind
<1>1. ~raced
  BY Remembered DEF Shape
<1>2. Follows
  BY <1>1 DEF Following
<1>3. Behind(Kept)
  BY <1>1 DEF KeptBehind
<1>4. done \in Seq(Done) /\ data \in Seq(Nat)
  BY DEF Shape, Fields
<1>5. Reached \in Nat
  BY ReachedWritten
<1>6. Reached' \in Nat
  BY <1>2, MovesOn
<1>7. PICK D \in SUBSET DOMAIN done : D = Kept
  BY DEF Kept
<1>8. Behind(D)
  BY <1>3, <1>7
<1>9. Still \/ Begins \/ Passes \/ Skips \/ Reads
  BY <1>2, Moves
<1>10. CASE Still \/ Begins \/ Passes
  <2>1. UNCHANGED <<done, data>> /\ Reached <= Reached'
    BY <1>5, <1>10 DEF Still, Begins, Passes
  <2>2. Behind(D)'
    BY <1>4, <1>5, <1>6, <1>8, <2>1, BehindAsBefore
  <2>3. Kept' = D
    BY <1>7, <2>1 DEF Kept
  <2>. QED  BY <2>2, <2>3 DEF Behind
<1>11. CASE Skips
  <2>1. PICK d \in Done : /\ d.as = "skipped"
                          /\ \A i \in DOMAIN d.line : d.line[i] = Reached + i
                          /\ Reached' = Reached + Len(d.line) /\ done' = Append(done, d)
    BY <1>11 DEF Skips
  <2>2. data' = data
    BY <1>11 DEF Skips
  <2>3. PICK k : k = Len(done) + 1
    OBVIOUS
  <2>4. Behind(D)'
    BY <1>4, <1>5, <1>8, <2>1, <2>2, <2>3, BehindSkips
  <2>5. Kept' = D
    BY <1>4, <1>7, <2>1, KeptSo
  <2>. QED  BY <2>4, <2>5 DEF Behind
<1>12. CASE Reads
  <2>1. Reached' = Reached + 1
    BY <1>12 DEF Reads
  <2>2. CASE data' = Append(data, Reached') /\ done' = done
    <3>1. Behind(D)'
      BY <1>4, <1>5, <1>8, <2>1, <2>2, BehindKeeps
    <3>2. Kept' = D
      BY <1>7, <2>2 DEF Kept
    <3>. QED  BY <3>1, <3>2 DEF Behind
  <2>3. ASSUME data' = << >>, NEW d \in Done, d.as # "skipped", d.line = Append(data, Reached'),
               done' = Append(done, d)
        PROVE  Behind(Kept)'
    <3>1. PICK k : k = Len(done) + 1
      OBVIOUS
    <3>2. Behind(D \cup {k})'
      BY <1>4, <1>5, <1>8, <2>1, <2>3, <3>1, BehindReads
    <3>3. Kept' = D \cup {k}
      BY <1>4, <1>7, <2>3, <3>1, KeptSo
    <3>. QED  BY <3>2, <3>3 DEF Behind
  <2>. QED  BY <1>12, <2>2, <2>3 DEF Reads
<1>. QED  BY <1>9, <1>10, <1>11, <1>12

\* The thread begins only once, at first ...
LEMMA BeginsOnceInit == Init => BeginsOnce
BY DEF Init, BeginsOnce

\* ... and after each step.
LEMMA BeginsOnceStep == Shape /\ BeginsOnce /\ [Next]_vars => BeginsOnce'
<1> SUFFICES ASSUME Shape, BeginsOnce, [Next]_vars, outages' = 0
             PROVE  /\ LastTransmitOK' /\ pc' # "waiting"
                    /\ pc' = "restart" => createdTime' = 0 /\ data' = << >> /\ done' = << >>
  BY DEF BeginsOnce
<1>1. outages = 0 /\ outages \in Nat
  BY Remembered DEF Shape, Fields
<1>2. /\ LastTransmitOK /\ pc # "waiting"
      /\ pc = "restart" => createdTime = 0 /\ data = << >> /\ done = << >>
  BY <1>1 DEF BeginsOnce
<1>3. CASE WritePiece
  BY <1>2, <1>3 DEF WritePiece, net, reading
<1>4. CASE NewFile
  BY <1>2, <1>4 DEF NewFile, net, reading
<1>5. CASE NetworkFails
  <2>1. outages' = outages + 1
    BY <1>5 DEF NetworkFails
  <2>. QED  BY <1>1, <2>1
<1>6. CASE NetworkWorks
  BY <1>2, <1>6 DEF NetworkWorks
<1>7. CASE Restart
  BY <1>2, <1>7 DEF Restart, net
<1>8. CASE Wait
  BY <1>2, <1>8 DEF Wait
<1>9. CASE Resume
  BY <1>2, <1>9 DEF Resume
<1>10. CASE Stat
  BY <1>2, <1>10 DEF Stat, net
<1>11. CASE Look
  BY <1>2, <1>11 DEF Look, net
<1>12. CASE Open
  BY <1>2, <1>12 DEF Open, net
<1>13. CASE ReadPiece
  BY <1>2, <1>13 DEF ReadPiece, net
<1>14. CASE EndOfFile
  BY <1>2, <1>14 DEF EndOfFile, net
<1>15. CASE EndOfRotated
  BY <1>2, <1>15 DEF EndOfRotated, net
<1>16. CASE Search
  BY <1>2, <1>16 DEF Search, net
<1>17. CASE Wake
  BY <1>2, <1>17 DEF Wake, net
<1>18. CASE Rename
  BY <1>2, <1>18 DEF Rename, net, reading
<1>19. CASE RestartFails \/ OpenFails \/ SearchFails
  BY <1>2, <1>19 DEF RestartFails, OpenFails, SearchFails, initLogFileFails, net
<1>20. CASE UNCHANGED vars
  BY <1>2, <1>20 DEF vars, net, reading
<1>. QED
  BY <1>3, <1>4, <1>5, <1>6, <1>7, <1>8, <1>9, <1>10, <1>11, <1>12, <1>13, <1>14, <1>15, <1>16,
     <1>17, <1>18, <1>19, <1>20 DEF Next, Environment, Watcher

\* At first nothing is taken.
LEMMA TakenAllInit == Init => TakenAll
<1> SUFFICES ASSUME Init PROVE AllTaken
  BY DEF TakenAll
<1>1. /\ done = << >> /\ data = << >> /\ first = 0 /\ Reached = 0
      /\ DOMAIN done = {} /\ DOMAIN data = {}
  BY DEF Init, Reached
<1>2. Behind(DOMAIN done)
  BY <1>1 DEF Behind, InOrder, UpTo, Rising
<1>3. Taken = {} /\ (first + 1)..Reached = {}
  BY <1>1 DEF Taken, Pieces
<1>4. Since
  <2>1. createdTime = 0
    BY DEF Init
  <2>. QED  BY <1>1, <2>1 DEF Since, Beyond
<1>. QED  BY <1>1, <1>2, <1>3, <1>4 DEF AllTaken

\* What a line has taken.
LEMMA PiecesOf ==
  ASSUME NEW s \in Seq(Nat), NEW n \in Nat
  PROVE  Pieces(Append(s, n)) = Pieces(s) \cup {n}
<1>1. PICK k \in Nat : /\ k = Len(s) /\ DOMAIN s = 1..k
                       /\ DOMAIN Append(s, n) = 1..(k + 1)
                       /\ Append(s, n)[k + 1] = n
                       /\ \A i \in 1..k : Append(s, n)[i] = s[i]
  <2>1. PICK k \in Nat : k = Len(s) /\ DOMAIN s = 1..k
    OBVIOUS
  <2>2. /\ Len(Append(s, n)) = k + 1 /\ Append(s, n) \in Seq(Nat)
        /\ Append(s, n)[k + 1] = n
        /\ \A i \in 1..k : Append(s, n)[i] = s[i]
    BY <2>1
  <2>3. DOMAIN Append(s, n) = 1..(k + 1)
    BY <2>2
  <2>. QED  BY <2>1, <2>2, <2>3
<1>2. 1..(k + 1) = 1..k \cup {k + 1}
  OBVIOUS
<1>. QED  BY <1>1, <1>2 DEF Pieces

\* What is done at the end is taken, too.
LEMMA TakenMore ==
  ASSUME done \in Seq(Done), NEW d \in Done, done' = Append(done, d)
  PROVE  Taken' = (UNION {Pieces(done[i].line) : i \in DOMAIN done})
                    \cup Pieces(d.line) \cup Pieces(data')
<1>1. PICK k : /\ DOMAIN done' = DOMAIN done \cup {k} /\ done'[k] = d
               /\ \A i \in DOMAIN done : done'[i] = done[i]
  BY LinesKept
<1>2. UNION {Pieces(done'[i].line) : i \in DOMAIN done'}
        = (UNION {Pieces(done[i].line) : i \in DOMAIN done}) \cup Pieces(d.line)
  <2>1. {Pieces(done'[i].line) : i \in DOMAIN done'}
          = {Pieces(done[i].line) : i \in DOMAIN done} \cup {Pieces(d.line)}
    BY <1>1
  <2>. QED  BY <2>1
<1>. QED  BY <1>2 DEF Taken, Pieces

\* What is left out is so up to the place where the thread reads next, and no farther.
LEMMA SinceStep ==
  ASSUME Shape, Follows, Since, [Next]_vars, pc = "restart" => createdTime = 0
  PROVE  Since'
<1>1. Files /\ Fields /\ Place
  BY DEF Shape
<1>2. newest \in Nat /\ newest >= 1 /\ newest \in 1..newest /\ pieces \in Nat
  BY <1>1, NewestIsThere DEF Files
<1>3. createdTime \in 0..newest /\ filePosition \in Nat /\ createdTime \in Nat
      /\ first \in Nat
  BY <1>1 DEF Fields, Place
<1>4. \A f \in 1..newest : /\ log[f] \in Nat /\ Size(f) \in Nat
                           /\ f = newest => log[f] + Size(f) = pieces
  BY <1>1, Sizes
<1>5. Reached \in Nat /\ Reached <= pieces /\ Reached' \in Nat /\ Reached <= Reached'
  BY ReachedWritten, MovesOn
<1>6. createdTime # 0 => createdTime \in 1..newest
  BY <1>2, <1>3
<1>7. ASSUME ~Beyond, ~Beyond', first' = first
      PROVE  Since'
  BY <1>3, <1>5, <1>7 DEF Since
<1>8. ASSUME UNCHANGED <<log, pieces, createdTime, filePosition, done, data, first>>
      PROVE  Since'
  <2>1. newest' = newest /\ Size(createdTime)' = Size(createdTime)
    BY <1>8 DEF newest, Size
  <2>2. Reached' = Reached /\ (Beyond' <=> Beyond)
    BY <1>8, <2>1 DEF Reached, Beyond
  <2>. QED  BY <1>8, <2>2 DEF Since
<1>9. CASE WritePiece
  <2>1. UNCHANGED <<createdTime, filePosition, first, log>> /\ newest' = newest
    BY <1>1, <1>2, <1>9, OnlyNewestGrows DEF WritePiece, reading
  <2>2. PICK c : c = createdTime /\ c = createdTime'
    BY <2>1
  <2>3. c # 0 => /\ c \in 1..newest /\ Size(c) \in Nat /\ log[c] \in Nat
                 /\ Size(c)' = IF c = newest THEN Size(c) + 1 ELSE Size(c)
    BY <1>1, <1>6, <1>9, <2>2, OnlyNewestGrows
  <2>4. Beyond' <=> c # 0 /\ c = newest /\ filePosition > Size(c)'
    BY <2>1, <2>2 DEF Beyond
  <2>5. Beyond <=> c # 0 /\ c = newest /\ filePosition > Size(c)
    BY <2>2 DEF Beyond
  <2>6. CASE Beyond'
    <3>1. Beyond /\ first = log[c] + filePosition
      BY <1>3, <2>2, <2>3, <2>4, <2>5, <2>6 DEF Since
    <3>. QED  BY <2>1, <2>2, <2>6, <3>1 DEF Since
  <2>7. CASE ~Beyond' /\ Beyond
    <3>1. c # 0 /\ first = log[c] + filePosition /\ filePosition <= Size(c)'
      BY <1>3, <2>2, <2>3, <2>4, <2>5, <2>7 DEF Since
    <3>2. Reached' = log[c] + filePosition
      BY <2>1, <2>2, <3>1 DEF Reached
    <3>. QED  BY <1>5, <2>1, <2>7, <3>1, <3>2 DEF Since
  <2>8. CASE ~Beyond' /\ ~Beyond
    BY <1>7, <2>1, <2>8
  <2>. QED  BY <2>6, <2>7, <2>8
<1>10. CASE NewFile
  <2>1. newest' = newest + 1 /\ createdTime' = createdTime
        /\ first' = IF first > pieces THEN pieces ELSE first
    BY <1>1, <1>2, <1>10, OthersKept DEF NewFile, reading
  <2>2. ~Beyond'
    BY <1>2, <1>3, <2>1 DEF Beyond
  <2>3. Reached' = Reached
    <3>1. UNCHANGED filePosition /\ \A f \in 1..newest : log'[f] = log[f] /\ Size(f)' = Size(f)
      BY <1>1, <1>10, OthersKept DEF NewFile, reading
    <3>2. PICK c : c = createdTime /\ c = createdTime'
      BY <2>1
    <3>3. c # 0 => log'[c] = log[c] /\ Size(c)' = Size(c)
      BY <1>6, <3>1, <3>2
    <3>. QED  BY <3>1, <3>2, <3>3 DEF Reached
  <2>4. CASE Beyond
    <3>1. PICK c \in 1..newest : c = createdTime /\ c # 0 /\ c = newest
      BY <1>2, <2>4 DEF Beyond
    <3>2. filePosition > Size(c) /\ log[c] + Size(c) = pieces
      BY <1>4, <2>4, <3>1 DEF Beyond
    <3>3. first = log[c] + filePosition /\ Reached = log[c] + Size(c)
      BY <1>3, <1>4, <2>4, <3>1, <3>2 DEF Since, Reached
    <3>4. first > pieces /\ Reached = pieces
      BY <1>2, <1>3, <1>4, <3>1, <3>2, <3>3
    <3>. QED  BY <1>2, <2>1, <2>2, <2>3, <3>4 DEF Since
  <2>5. CASE ~Beyond
    <3>1. first <= Reached
      BY <2>5 DEF Since
    <3>. QED  BY <1>2, <1>3, <1>5, <2>1, <2>2, <2>3, <3>1 DEF Since
  <2>. QED  BY <2>4, <2>5
<1>11. CASE Restart
  <2>1. /\ UNCHANGED <<log, pieces>> /\ createdTime' = newest /\ filePosition' = End(newest)
        /\ first' = log[newest] + End(newest)
    BY <1>11 DEF Restart, files
  <2>2. PICK c \in 1..newest : c = newest
    BY <1>2
  <2>3. c # 0 /\ createdTime' = c /\ log' = log /\ newest' = c /\ Size(c)' \in Nat
        /\ filePosition' \in Nat
    <3>1. newest' = newest /\ Size(c)' = Size(c)
      BY <2>1, SizesSame
    <3>2. End(newest) \in Nat
      BY <1>1, <1>2, Ends
    <3>. QED  BY <1>2, <1>4, <2>1, <2>2, <3>1, <3>2
  <2>4. Beyond' <=> filePosition' > Size(c)'
    BY <2>3 DEF Beyond
  <2>5. ~Beyond' => Reached' = log[c] + filePosition'
    <3>1. ~Beyond' => filePosition' <= Size(c)'
      BY <2>3, <2>4
    <3>2. Reached' = log[c] + IF filePosition' <= Size(c)' THEN filePosition' ELSE Size(c)'
      BY <2>3 DEF Reached
    <3>. QED  BY <3>1, <3>2
  <2>6. first' = log'[createdTime'] + filePosition'
    BY <2>1, <2>2, <2>3
  <2>7. ~Beyond' => first' <= Reached'
    BY <1>5, <2>1, <2>2, <2>3, <2>5
  <2>. QED  BY <2>6, <2>7 DEF Since
<1>12. CASE Open
  <2>1. PICK c \in 1..newest : c = createdTime /\ c = File(filename) /\ c # 0
    <3>1. createdTime = File(filename)
      BY <1>1, <1>12, FileNamed DEF Open, Follows, Place
    <3>2. createdTime # 0
      BY <1>12, <3>1 DEF Open
    <3>. QED  BY <1>6, <3>1, <3>2
  <2>2. initLogFile(c, filePosition) /\ UNCHANGED <<log, pieces, data, first>>
    BY <1>12, <2>1 DEF Open, files
  <2>3. /\ createdTime' = c /\ filePosition' \in Nat
        /\ filePosition' = filePosition \/ (filePosition = 0 /\ filePosition' <= Size(c))
    BY <1>1, <1>3, <2>2, OpenTyped
  <2>4. newest' = newest /\ Size(c)' = Size(c) /\ log' = log
    BY <2>2, SizesSame
  <2>5. Beyond' => filePosition' = filePosition
    BY <1>4, <2>1, <2>3, <2>4 DEF Beyond
  <2>6. Beyond => filePosition' = filePosition
    BY <1>4, <2>1, <2>3 DEF Beyond
  <2>7. Beyond' <=> Beyond
    BY <2>1, <2>3, <2>4, <2>5, <2>6 DEF Beyond
  <2>8. CASE Beyond
    <3>1. first = log[c] + filePosition
      BY <2>1, <2>8 DEF Since
    <3>. QED  BY <2>2, <2>3, <2>4, <2>6, <2>7, <2>8, <3>1 DEF Since
  <2>9. CASE ~Beyond
    BY <1>7, <2>2, <2>7, <2>9
  <2>. QED  BY <2>8, <2>9
<1>13. CASE ReadPiece
  <2>1. PICK c \in 1..newest : c = createdTime /\ c # 0 /\ createdTime' = c
    <3>1. createdTime # 0
      BY <1>1, <1>13 DEF ReadPiece, Place
    <3>. QED  BY <1>6, <1>13, <3>1 DEF ReadPiece
  <2>2. UNCHANGED <<log, pieces, first>> /\ filePosition' = filePosition + 1
        /\ Size(c)' = Size(c) /\ Size(c) \in Nat
    BY <1>4, <1>13, SizesSame DEF ReadPiece, files
  <2>3. filePosition < Size(c) /\ filePosition' \in Nat /\ filePosition' <= Size(c)
    BY <1>3, <1>13, <2>1, <2>2 DEF ReadPiece, AtEnd
  <2>4. ~Beyond /\ ~Beyond'
    BY <1>3, <2>1, <2>2, <2>3 DEF Beyond
  <2>. QED  BY <1>7, <2>2, <2>4
<1>14. CASE EndOfRotated \/ (Search /\ newest # createdTime)
  <2>1. createdTime # newest /\ createdTime' = newest /\ filePosition' \in Nat
        /\ UNCHANGED <<log, pieces, first>>
        /\ (filePosition' = 0 \/ filePosition' <= Size(newest))
    <3>1. CASE EndOfRotated
      BY <1>2, <3>1 DEF EndOfRotated, Follows, files
    <3>2. CASE Search /\ newest # createdTime
      <4>1. initLogFile(newest, 0) /\ UNCHANGED <<log, pieces, first>>
        BY <3>2 DEF Search, files
      <4>. QED  BY <1>1, <1>2, <3>2, <4>1, OpenTyped
    <3>. QED  BY <1>14, <3>1, <3>2
  <2>2. newest' = newest /\ Size(newest)' = Size(newest)
    BY <2>1, SizesSame
  <2>3. ~Beyond
    BY <2>1 DEF Beyond
  <2>4. ~Beyond'
    <3>1. PICK c \in 1..newest : c = newest
      BY <1>2
    <3>2. Size(c)' \in Nat /\ filePosition' <= Size(c)' /\ createdTime' = c
      BY <1>4, <2>1, <2>2, <3>1, SizesSame
    <3>. QED  BY <2>1, <3>2 DEF Beyond
  <2>. QED  BY <1>7, <2>1, <2>3, <2>4
<1>15. CASE \/ Rename \/ NetworkFails \/ NetworkWorks \/ Wait \/ Resume \/ Stat \/ Look
            \/ EndOfFile \/ (Search /\ newest = createdTime) \/ Wake
            \/ RestartFails \/ OpenFails \/ SearchFails \/ UNCHANGED vars
  <2>1. UNCHANGED <<log, pieces, createdTime, filePosition, done, data, first>>
    BY <1>15 DEF Rename, NetworkFails, NetworkWorks, Wait, Resume, Stat, Look, EndOfFile, Search,
                 Wake, RestartFails, OpenFails, SearchFails, initLogFileFails, vars, reading,
                 files
  <2>. QED  BY <1>8, <2>1
<1>. QED
  BY <1>9, <1>10, <1>11, <1>12, <1>13, <1>14, <1>15 DEF Next, Environment, Watcher

\* After each step all is taken.
LEMMA TakenAllStep ==
  Shape /\ Following /\ BeginsOnce /\ TakenAll /\ [Next]_vars => TakenAll'
<1> SUFFICES ASSUME Shape, Following, BeginsOnce, TakenAll, [Next]_vars, ~raced', outages' = 0
             PROVE  AllTaken'
  BY Zenon DEF TakenAll
<1>1. ~raced /\ outages = 0
  BY Remembered DEF Shape
<1>2. Follows
  BY <1>1 DEF Following
<1>3. /\ Since /\ Behind(DOMAIN done)
      /\ Taken = (first + 1)..Reached
      /\ data = << >> \/ (data = <<Reached>> /\ Reached % 2 = 1)
  BY <1>1 DEF TakenAll, AllTaken
<1>4. done \in Seq(Done) /\ data \in Seq(Nat) /\ first \in Nat /\ first' \in Nat
  BY ShapeStep DEF Shape, Fields
<1>5. Reached \in Nat
  BY ReachedWritten
<1>6. Reached' \in Nat
  BY <1>2, MovesOn
<1>7. PICK D \in SUBSET DOMAIN done : D = DOMAIN done
  OBVIOUS
<1>8. Behind(D)
  BY <1>3, <1>7
<1>9. Still \/ Begins \/ Passes \/ Skips \/ Reads
  BY <1>2, Moves
<1>10. ASSUME UNCHANGED <<done, data>>, Reached <= Reached'
       PROVE  Behind(DOMAIN done)' /\ Taken' = Taken
  <2>1. Behind(D)'
    BY <1>4, <1>5, <1>6, <1>8, <1>10, BehindAsBefore
  <2>2. DOMAIN done' = D
    BY <1>7, <1>10
  <2>. QED  BY <1>10, <2>1, <2>2 DEF Behind, Taken
<1>11. Since'
  <2>1. pc = "restart" => createdTime = 0
    BY <1>1 DEF BeginsOnce
  <2>. QED  BY <1>2, <1>3, <2>1, SinceStep
<1>12. CASE Still
  <2>1. UNCHANGED <<done, data>> /\ Reached' = Reached /\ Reached <= Reached'
        /\ (first' = first \/ (Reached <= first /\ Reached <= first'))
    BY <1>5, <1>12 DEF Still
  <2>2. (first' + 1)..Reached' = (first + 1)..Reached
    BY <1>4, <1>5, <2>1
  <2>. QED  BY <1>3, <1>10, <1>11, <2>1, <2>2 DEF AllTaken
<1>13. CASE Begins \/ Passes
  <2>1. UNCHANGED <<done, data>> /\ Reached <= Reached' /\ Reached' <= first'
        /\ Taken = {} /\ data = << >>
    <3>1. CASE Begins
      <4>1. createdTime = 0 /\ done = << >> /\ data = << >>
        BY <1>1, <3>1 DEF Begins, BeginsOnce
      <4>2. Taken = {}
        BY <4>1 DEF Taken, Pieces
      <4>. QED  BY <3>1, <4>1, <4>2 DEF Begins
    <3>2. CASE Passes
      <4>1. first = log[createdTime] + filePosition /\ createdTime # 0
            /\ filePosition > Size(createdTime)
            /\ createdTime \in 0..newest /\ filePosition \in Nat
        BY <1>3, <3>2 DEF Passes, Since, Beyond, Shape, Fields, Place
      <4>2. Files /\ newest \in Nat
        BY NewestIsThere DEF Shape
      <4>3. createdTime \in 1..newest
        BY <4>1, <4>2
      <4>4. log[createdTime] \in Nat /\ Size(createdTime) \in Nat
        BY <4>2, <4>3, Sizes
      <4>5. Reached = log[createdTime] + Size(createdTime)
        BY <4>1, <4>4 DEF Reached
      <4>6. Reached + 1 <= first
        BY <4>1, <4>4, <4>5
      <4>7. Taken = {}
        BY <1>3, <1>4, <1>5, <4>6
      <4>8. data # <<Reached>>
        BY <4>7 DEF Taken, Pieces
      <4>. QED  BY <1>3, <1>5, <3>2, <4>6, <4>7, <4>8 DEF Passes
    <3>. QED  BY <1>13, <3>1, <3>2
  <2>2. (first' + 1)..Reached' = {}
    <3>1. PICK r \in Nat, f \in Nat : r = Reached' /\ f = first' /\ r <= f
      BY <1>4, <1>6, <2>1
    <3>2. r <= f
      BY <3>1
    <3>3. (f + 1)..r = {}
      BY <3>2
    <3>. QED  BY <3>1, <3>3
  <2>. QED  BY <1>10, <1>11, <2>1, <2>2 DEF AllTaken
<1>14. CASE Skips
  <2>1. PICK d \in Done : /\ \A i \in DOMAIN d.line : d.line[i] = Reached + i
                          /\ Reached' = Reached + Len(d.line) /\ done' = Append(done, d)
    BY <1>14 DEF Skips
  <2>2. data' = data /\ first' = first /\ data = << >>
    BY <1>3, <1>14 DEF Skips
  <2>3. PICK k : k = Len(done) + 1
    OBVIOUS
  <2>4. Behind(D \cup {k})'
    BY <1>4, <1>5, <1>8, <2>1, <2>2, <2>3, BehindSkips
  <2>5. DOMAIN done' = D \cup {k}
    BY <1>4, <1>7, <2>1, <2>3, LinesKept
  <2>6. Behind(DOMAIN done)'
    BY <2>4, <2>5 DEF Behind
  <2>7. PICK n \in Nat : n = Len(d.line) /\ DOMAIN d.line = 1..n
    <3>1. d.line \in Seq(Nat)
      BY DEF Done
    <3>. QED  BY <3>1
  <2>8. Pieces(d.line) = (Reached + 1)..Reached'
    <3>1. Pieces(d.line) = {Reached + i : i \in 1..n}
      BY <2>1, <2>7 DEF Pieces
    <3>2. {Reached + i : i \in 1..n} = (Reached + 1)..(Reached + n)
      <4>1. \A x \in (Reached + 1)..(Reached + n) : x - Reached \in 1..n /\ x = Reached + (x - Reached)
        BY <1>5
      <4>2. \A i \in 1..n : Reached + i \in (Reached + 1)..(Reached + n)
        BY <1>5
      <4>. QED  BY <4>1, <4>2
    <3>. QED  BY <2>1, <2>7, <3>1, <3>2
  <2>9. Taken' = Taken \cup (Reached + 1)..Reached'
    <3>1. Taken' = (UNION {Pieces(done[i].line) : i \in DOMAIN done})
                     \cup Pieces(d.line) \cup Pieces(data')
      BY <1>4, <2>1, TakenMore
    <3>2. Pieces(data') = Pieces(data)
      BY <2>2
    <3>. QED  BY <2>8, <3>1, <3>2 DEF Taken
  <2>10. first <= Reached
    BY <1>3, <1>14 DEF Skips, Since
  <2>11. (first + 1)..Reached \cup (Reached + 1)..Reached' = (first + 1)..Reached'
    BY <1>4, <1>5, <2>1, <2>7, <2>10
  <2>. QED  BY <1>3, <1>11, <2>2, <2>6, <2>9, <2>11 DEF AllTaken
<1>15. CASE Reads
  <2>1. Reached' = Reached + 1 /\ first' = first
    BY <1>15 DEF Reads
  <2>2. (first + 1)..Reached \cup {Reached'} = (first + 1)..Reached'
    <3>1. first <= Reached
      BY <1>3, <1>15 DEF Reads, Since
    <3>. QED  BY <1>4, <1>5, <2>1, <3>1
  <2>3. Pieces(Append(data, Reached')) = Pieces(data) \cup {Reached'}
    BY <1>4, <1>6, PiecesOf
  <2>4. ASSUME Reached' % 2 = 1, data' = Append(data, Reached'), done' = done
        PROVE  AllTaken'
    <3>1. Behind(D)'
      BY <1>4, <1>5, <1>8, <2>1, <2>4, BehindKeeps
    <3>2. DOMAIN done' = D
      BY <1>7, <2>4
    <3>3. Behind(DOMAIN done)'
      BY <3>1, <3>2 DEF Behind
    <3>4. Taken' = Taken \cup {Reached'}
      <4>1. Pieces(data') = Pieces(data) \cup {Reached'}
        BY <2>3, <2>4
      <4>2. Taken' = (UNION {Pieces(done[i].line) : i \in DOMAIN done}) \cup Pieces(data')
        BY <2>4 DEF Taken
      <4>. QED  BY <4>1, <4>2 DEF Taken
    <3>5. data = << >>
      BY <1>3, <1>5, <2>1, <2>4
    <3>6. data' = <<Reached'>>
      BY <2>4, <3>5
    <3>. QED  BY <1>3, <1>11, <2>1, <2>2, <2>4, <3>3, <3>4, <3>6 DEF AllTaken
  <2>5. ASSUME data' = << >>, NEW d \in Done, d.line = Append(data, Reached'),
               done' = Append(done, d)
        PROVE  AllTaken'
    <3>1. PICK k : k = Len(done) + 1
      OBVIOUS
    <3>2. Behind(D \cup {k})'
      BY <1>4, <1>5, <1>8, <2>1, <2>5, <3>1, BehindReads
    <3>3. DOMAIN done' = D \cup {k}
      BY <1>4, <1>7, <2>5, <3>1, LinesKept
    <3>4. Behind(DOMAIN done)'
      BY <3>2, <3>3 DEF Behind
    <3>5. Taken' = Taken \cup {Reached'}
      <4>1. Taken' = (UNION {Pieces(done[i].line) : i \in DOMAIN done})
                       \cup Pieces(d.line) \cup Pieces(data')
        BY <1>4, <2>5, TakenMore
      <4>2. Pieces(data') = {}
        BY <2>5 DEF Pieces
      <4>3. Pieces(d.line) = Pieces(data) \cup {Reached'}
        BY <2>3, <2>5
      <4>. QED  BY <4>1, <4>2, <4>3 DEF Taken
    <3>. QED  BY <1>3, <1>11, <2>1, <2>2, <2>5, <3>4, <3>5 DEF AllTaken
  <2>. QED  BY <1>15, <2>4, <2>5 DEF Reads
<1>. QED  BY <1>9, <1>12, <1>13, <1>14, <1>15

\* From one file to the next nothing is repeated or out of order, also after an outage, and
\* if the network works nothing is left out between first and the place the thread has
\* reached, in any state and also where it ends: for any Block and any number of files, lines
\* and outages, as long as new files do not come faster than the thread looks for them. What
\* comes before first is what was there when the thread began and, of a UNICODE log that was
\* longer than Block, what is written up to the place beyond the end where it begins.
THEOREM NothingLeftOut == Spec => []LinesInOrder
<1>1. Init => KeptBehind /\ BeginsOnce /\ TakenAll
  BY KeptBehindInit, BeginsOnceInit, TakenAllInit
<1>2. (/\ Shape /\ Following /\ KeptBehind /\ BeginsOnce /\ TakenAll /\ [Next]_vars)
        => KeptBehind' /\ BeginsOnce' /\ TakenAll'
  BY KeptBehindStep, BeginsOnceStep, TakenAllStep
<1>3. Shape /\ KeptBehind /\ TakenAll => LinesInOrder
  <2> SUFFICES ASSUME Shape, KeptBehind, TakenAll, ~raced
               PROVE  Ordered /\ (outages = 0 => Complete)
    BY DEF LinesInOrder
  <2>1. Ordered
    BY DEF KeptBehind, Behind, Kept, Ordered
  <2>2. ASSUME outages = 0 PROVE Complete
    <3>1. InOrder(DOMAIN done) /\ Taken = (first + 1)..Reached
      BY <2>2 DEF TakenAll, AllTaken, Behind
    <3>2. pieces \in Nat /\ Reached \in Nat /\ Reached <= pieces
      BY ReachedWritten DEF Shape, Files
    <3>3. Reached \in 0..pieces
      BY <3>2
    <3>. QED  BY <3>1, <3>3 DEF Complete
  <2>. QED  BY <2>1, <2>2
<1>. QED  BY <1>1, <1>2, <1>3, ShapeAlways, FollowingAlways, PTL DEF Spec
-----------------------------------------------------------------------------
(* The first lines of a file.                                              *)

Begun(f) == <<f, "begun">> \in late

Ignores == SettingsPtr.ignoreFirstLines /\ ~SettingsPtr.ConfirmedUnicodeFormat

\* A thread that reads at the start of a file has found the file without its first line.
AtStart ==
  Runs /\ (~Rotates \/ pc = "read") /\ filePosition = 0 => Begun(createdTime)

\* A line begun that is the first of a file: the file was found without it.
LineBegun ==
  /\ UpTo(data, pieces)
  /\ \A f \in 1..newest : data # << >> /\ data[1] = log[f] + 1 /\ Size(f) >= 1 => Begun(f)

\* ... and so for the lines that were read to their end.
LinesBegun ==
  \A i \in Kept :
    /\ done[i].file \in 1..newest /\ Size(done[i].file) >= 1
    /\ Len(done[i].line) = 2 /\ done[i].line[1] = log[done[i].file] + 1 => Begun(done[i].file)

FirstLines == Ignores => AtStart /\ LineBegun /\ LinesBegun

\* It holds at first.
LEMMA FirstLinesInit == Init => FirstLines
<1> SUFFICES ASSUME Init PROVE AtStart /\ LineBegun /\ LinesBegun
  BY DEF FirstLines
<1>1. data = << >> /\ done = << >> /\ pc = "restart" /\ DOMAIN data = {} /\ DOMAIN done = {}
  BY DEF Init
<1>. QED  BY <1>1 DEF AtStart, LineBegun, LinesBegun, Kept, UpTo, Runs

\* That a file was found without its first line is not forgotten, nor are the settings.
LEMMA BegunRemembered ==
  ASSUME [Next]_vars
  PROVE  late \subseteq late' /\ SettingsPtr' = SettingsPtr
BY DEF Next, Environment, Watcher, WritePiece, Rename, NewFile, NetworkFails, NetworkWorks,
       Restart, Wait, Resume, Stat, Look, Open, ReadPiece, EndOfFile, EndOfRotated, Search, Wake,
       RestartFails, OpenFails, SearchFails, initLogFileFails, vars, files, initLogFile

\* While the files, the line begun and the lines that are kept stay, so do these two.
LEMMA LinesBegunSame ==
  ASSUME Shape, LineBegun, LinesBegun, late \subseteq late', UNCHANGED <<log, pieces, data>>,
         \/ done' = done
         \/ \E d \in Done : d.as = "skipped" /\ done' = Append(done, d)
  PROVE  LineBegun' /\ LinesBegun'
<1>1. newest' = newest /\ \A f : Size(f)' = Size(f)
  BY SizesSame
<1>2. LineBegun'
  BY <1>1 DEF LineBegun, Begun, UpTo
<1>3. done \in Seq(Done)
  BY DEF Shape, Fields
<1>4. Kept' = Kept /\ \A i \in Kept : done'[i] = done[i]
  <2>1. CASE done' = done
    BY <2>1 DEF Kept
  <2>2. ASSUME NEW d \in Done, d.as = "skipped", done' = Append(done, d)
        PROVE  Kept' = Kept /\ \A i \in Kept : done'[i] = done[i]
    BY <1>3, <2>2, KeptSo, LinesKept DEF Kept
  <2>. QED  BY <2>1, <2>2
<1>5. LinesBegun'
  BY <1>1, <1>4 DEF LinesBegun, Begun
<1>. QED  BY <1>2, <1>5

\* What opening a file adds to done is skipped. If the lines to be ignored are looked for, the
\* thread is past the start of the file or there is no line.
LEMMA OpenSkips ==
  ASSUME Shape, NEW f \in 1..newest, NEW position \in Nat, initLogFile(f, position)
  PROVE  /\ \/ done' = done
            \/ \E d \in Done : d.as = "skipped" /\ done' = Append(done, d)
         /\ Ignores /\ filePosition' = 0 => Begun(f)'
<1>1. Files /\ Fields
  BY DEF Shape
<1>2. /\ Skipped(f, position) \in Seq(Nat) /\ Len(Skipped(f, position)) \in Nat
      /\ Skipped(f, position) = << >> <=> Len(Skipped(f, position)) = 0
  BY <1>1, SkippedFits
<1>3. f \in Nat /\ Size(f) \in Nat
  BY <1>1, Sizes
<1>4. Codes(f) \in Int \X Int
  BY <1>1, <1>3, CodesTyped
<1>5. \/ done' = done
      \/ \E d \in Done : d.as = "skipped" /\ done' = Append(done, d)
  <2>1. CASE Skipped(f, position) = << >>
    BY <2>1 DEF initLogFile
  <2>2. CASE Skipped(f, position) # << >>
    <3>1. [line |-> Skipped(f, position), file |-> f, as |-> "skipped",
           codes |-> Codes(f)] \in Done
      BY <1>2, <1>3, <1>4 DEF Done
    <3>2. done' = Append(done, [line |-> Skipped(f, position), file |-> f, as |-> "skipped",
                                codes |-> Codes(f)])
      BY <2>2 DEF initLogFile
    <3>. QED  BY <3>1, <3>2
  <2>. QED  BY <2>1, <2>2
<1>6. ASSUME Ignores, filePosition' = 0 PROVE Begun(f)'
  <2>1. position = 0 /\ Len(Skipped(f, position)) = 0
    BY <1>2, <1>6 DEF initLogFile
  <2>2. Skipped(f, position) = [i \in 1..IF Size(f) < 2 THEN Size(f) ELSE 2 |-> log[f] + i]
    BY <1>6, <2>1 DEF Skipped, Ignores
  <2>3. Size(f) < 2
    <3>1. CASE Size(f) >= 2
      <4>1. Len(Skipped(f, position)) = 2
        BY <1>3, <2>2, <3>1
      <4>. QED  BY <2>1, <4>1
    <3>. QED  BY <1>3, <3>1
  <2>4. late' = late \cup {<<f, "begun">>}
    BY <2>1, <2>3 DEF initLogFile
  <2>. QED  BY <2>4 DEF Begun
<1>. QED  BY <1>5, <1>6

\* A piece is in one file.
LEMMA FileOfPiece ==
  ASSUME Files, NEW c \in 1..newest, NEW f \in 1..newest, NEW n \in Nat,
         log[c] < n, n <= log[c] + Size(c), log[f] < n, n <= log[f] + Size(f)
  PROVE  f = c
<1>1. newest \in Nat
  BY Sizes
<1>2. ASSUME NEW g \in 1..newest, NEW h \in 1..newest, g < h
      PROVE  log[g] + Size(g) <= log[h]
  <2>1. g + 1 \in 1..newest /\ g # newest /\ (g + 1 = h \/ g + 1 < h)
    BY <1>1, <1>2
  <2>2. log[g] + Size(g) = log[g + 1] /\ log[h] \in Nat
    BY <2>1, Sizes
  <2>3. log[g + 1] <= log[h]
    BY <1>2, <2>1, <2>2 DEF Files
  <2>. QED  BY <2>2, <2>3
<1>3. log[c] \in Nat /\ log[f] \in Nat /\ Size(c) \in Nat /\ Size(f) \in Nat
  BY Sizes
<1>4. f < c => n <= log[c]
  BY <1>2, <1>3
<1>5. c < f => n <= log[f]
  BY <1>2, <1>3
<1>. QED  BY <1>1, <1>3, <1>4, <1>5

\* After each step the first lines are not sent.
LEMMA FirstLinesStep == Shape /\ FirstLines /\ [Next]_vars => FirstLines'
<1> SUFFICES ASSUME Shape, AtStart, LineBegun, LinesBegun, [Next]_vars, Ignores
             PROVE  AtStart' /\ LineBegun' /\ LinesBegun'
  BY BegunRemembered DEF FirstLines, Ignores
<1>1. Files /\ Fields /\ Place
  BY DEF Shape
<1>2. newest \in Nat /\ newest >= 1 /\ newest \in 1..newest
  BY <1>1, NewestIsThere
<1>3. createdTime \in 0..newest /\ filePosition \in Nat /\ createdTime \in Nat
  BY <1>1 DEF Fields, Place
<1>4. late \subseteq late' /\ SettingsPtr' = SettingsPtr
  BY BegunRemembered
<1>5. data \in Seq(Nat) /\ done \in Seq(Done) /\ pieces \in Nat
  BY <1>1 DEF Fields, Files
<1>6. CASE WritePiece
  <2>1. \A f \in 1..newest :
          /\ newest' = newest /\ log' = log /\ Size(f) \in Nat /\ log[f] \in Nat
          /\ Size(f)' = IF f = newest THEN Size(f) + 1 ELSE Size(f)
    BY <1>1, <1>6, OnlyNewestGrows
  <2>2. pieces' = pieces + 1 /\ data' = data /\ done' = done
    BY <1>6 DEF WritePiece
  <2>3. AtStart'
    BY <1>4, <1>6 DEF AtStart, Begun, WritePiece, reading, Rotates, Runs
  <2>4. UpTo(data', pieces')
    BY <1>5, <2>2, StaysBehind DEF LineBegun
  <2>5. ASSUME NEW f \in 1..newest, data # << >>, data[1] = log[f] + 1, Size(f)' >= 1
        PROVE  Begun(f)'
    <3>1. data[1] <= pieces
      BY <1>5, <2>5 DEF LineBegun, UpTo
    <3>2. Size(f) >= 1
      <4>1. log[f] + Size(f) = pieces \/ f # newest
        BY <1>1, Sizes
      <4>2. CASE f # newest
        BY <2>1, <2>5, <4>2
      <4>. QED  BY <1>5, <2>1, <2>5, <3>1, <4>1, <4>2
    <3>. QED  BY <1>4, <2>5, <3>2 DEF LineBegun, Begun
  <2>6. LineBegun'
    BY <2>1, <2>2, <2>4, <2>5, <1>2 DEF LineBegun
  <2>7. LinesBegun'
    BY <1>2, <1>4, <2>1, <2>2 DEF LinesBegun, Kept, Begun
  <2>. QED  BY <2>3, <2>6, <2>7
<1>7. CASE NewFile
  <2>1. \A f \in 1..newest :
          /\ newest' = newest + 1 /\ log'[f] = log[f] /\ Size(f)' = Size(f)
          /\ Size(f) \in Nat /\ log[f] \in Nat
    BY <1>1, <1>7, OthersKept
  <2>2. data' = data /\ done' = done /\ pieces' = pieces
    BY <1>7 DEF NewFile
  <2>3. AtStart'
    BY <1>4, <1>7 DEF AtStart, Begun, NewFile, reading, Rotates, Runs
  <2>4. ASSUME NEW f \in 1..newest', f \notin 1..newest PROVE Size(f)' = 0
    <3>1. Files' /\ newest' = newest + 1 /\ log'[newest + 1] = pieces
      BY <1>1, <1>7, FileBegins DEF NewFile
    <3>2. f = newest' /\ f = newest + 1
      BY <1>2, <2>1, <2>4
    <3>3. Size(f)' = pieces' - log'[f]
      BY <3>2 DEF Size
    <3>. QED  BY <1>5, <2>2, <3>1, <3>2, <3>3
  <2>5. LineBegun'
    BY <1>4, <2>1, <2>2, <2>4 DEF LineBegun, Begun
  <2>6. LinesBegun'
    BY <1>2, <1>4, <2>1, <2>2 DEF LinesBegun, Kept, Begun
  <2>. QED  BY <2>3, <2>5, <2>6
<1>8. CASE ReadPiece
  <2>1. createdTime \in 1..newest
    BY <1>1, <1>2, <1>8 DEF Place, ReadPiece
  <2>2. /\ log[createdTime] \in Nat /\ Size(createdTime) \in Nat
        /\ log[createdTime] + Size(createdTime) <= pieces
    BY <1>1, <2>1, Sizes
  <2>3. filePosition' = filePosition + 1 /\ filePosition < Size(createdTime)
    BY <1>3, <1>8, <2>2 DEF ReadPiece, AtEnd
  <2>4. newest' = newest /\ log' = log /\ pieces' = pieces /\ \A f : Size(f)' = Size(f)
    BY <1>8, SizesSame DEF ReadPiece, files
  <2>5. AtStart'
    BY <1>3, <2>3 DEF AtStart
  <2>6. PICK piece \in Nat : piece = log[createdTime] + filePosition'
    BY <1>3, <2>2, <2>3
  <2>7. PICK line : line = Append(data, piece) /\ line \in Seq(Nat)
    <3>1. Append(data, piece) \in Seq(Nat)
      BY <1>5
    <3>. QED  BY <3>1
  <2>8. IF piece % 2 = 0 THEN ReadLine(line) /\ data' = << >>
                         ELSE data' = line /\ UNCHANGED <<done, fieldCodes>>
    BY <1>8, <2>6, <2>7 DEF ReadPiece
  <2>9. createdTime' = createdTime /\ piece <= pieces
    BY <1>3, <1>5, <1>8, <2>2, <2>3, <2>6 DEF ReadPiece
  <2>10. ASSUME NEW f \in 1..newest, line[1] = log[f] + 1, Size(f) >= 1
         PROVE  Begun(f)
    <3>1. CASE data # << >>
      <4>1. line[1] = data[1]
        BY <1>5, <2>6, <2>7, <3>1
      <4>. QED  BY <2>10, <3>1, <4>1 DEF LineBegun
    <3>2. CASE data = << >>
      <4>1. piece = log[f] + 1
        BY <2>7, <2>10, <3>2
      <4>2. log[f] \in Nat /\ Size(f) \in Nat
        BY <1>1, Sizes
      <4>3. /\ log[f] < piece /\ piece <= log[f] + Size(f)
            /\ log[createdTime] < piece /\ piece <= log[createdTime] + Size(createdTime)
        BY <1>3, <2>2, <2>3, <2>6, <2>10, <4>1, <4>2
      <4>4. f = createdTime
        BY <1>1, <2>1, <4>3, FileOfPiece
      <4>5. filePosition = 0
        BY <1>3, <2>2, <2>3, <2>6, <4>1, <4>4
      <4>. QED  BY <1>8, <4>4, <4>5 DEF AtStart, ReadPiece, Runs
    <3>. QED  BY <3>1, <3>2
  <2>11. CASE piece % 2 = 0
    <3>1. ReadLine(line) /\ data' = << >>
      BY <2>8, <2>11
    <3>2. LineBegun'
      BY <3>1 DEF LineBegun, UpTo
    <3>3. PICK d \in Done : /\ d.as # "skipped" /\ d.line = line /\ d.file = createdTime
                            /\ done' = Append(done, d)
      <4>1. PICK as \in {"sent", "ignored", "sent as it is"} :
              done' = Append(done, [line |-> line, file |-> createdTime, as |-> as,
                                    codes |-> fieldCodes])
        BY <3>1 DEF ReadLine
      <4>2. fieldCodes \in Int \X Int
        BY <1>1 DEF Fields
      <4>3. [line |-> line, file |-> createdTime, as |-> as, codes |-> fieldCodes] \in Done
        BY <1>3, <2>7, <4>2 DEF Done
      <4>. QED  BY <4>1, <4>3
    <3>4. PICK k : k = Len(done) + 1
      OBVIOUS
    <3>5. /\ Kept' = Kept \cup {k} /\ done'[k] = d
          /\ \A i \in Kept : done'[i] = done[i] /\ i # k
      BY <1>5, <3>3, <3>4, KeptSo, LinesKept DEF Kept
    <3>6. /\ d.file \in 1..newest /\ Size(d.file) >= 1
          /\ Len(d.line) = 2 /\ d.line[1] = log[d.file] + 1 => Begun(d.file)
      BY <1>3, <2>1, <2>2, <2>3, <2>10, <3>3
    <3>7. LinesBegun'
      BY <1>4, <2>4, <3>5, <3>6 DEF LinesBegun, Begun
    <3>. QED  BY <2>5, <3>2, <3>7
  <2>12. CASE piece % 2 # 0
    <3>1. data' = line /\ done' = done
      BY <2>8, <2>12
    <3>2. UpTo(line, pieces)
      <4> SUFFICES ASSUME NEW i \in DOMAIN line PROVE line[i] <= pieces
        BY DEF UpTo
      <4>1. PICK n \in Nat : n = Len(data) /\ DOMAIN data = 1..n
        BY <1>5
      <4>2. CASE i \in 1..n
        BY <1>5, <2>6, <2>7, <4>1, <4>2 DEF LineBegun, UpTo
      <4>3. CASE i = n + 1
        BY <1>5, <2>6, <2>7, <2>9, <4>1, <4>3
      <4>4. i \in 1..(n + 1)
        BY <1>5, <2>6, <2>7, <4>1
      <4>. QED  BY <4>2, <4>3, <4>4
    <3>3. LineBegun'
      BY <1>4, <2>4, <2>10, <3>1, <3>2 DEF LineBegun, Begun
    <3>4. LinesBegun'
      BY <1>4, <2>4, <3>1 DEF LinesBegun, Kept, Begun
    <3>. QED  BY <2>5, <3>3, <3>4
  <2>. QED  BY <2>11, <2>12
<1>9. CASE Open
  <2>1. PICK f \in 1..newest : f = File(filename)
    <3>1. File(filename) \in 0..newest /\ File(filename) # 0
      BY <1>1, <1>9, FileNamed DEF Open
    <3>2. File(filename) \in 1..newest
      BY <1>2, <3>1
    <3>. QED  BY <3>2
  <2>2. initLogFile(f, filePosition)
    BY <1>9, <2>1 DEF Open
  <2>3. /\ \/ done' = done
           \/ \E d \in Done : d.as = "skipped" /\ done' = Append(done, d)
        /\ filePosition' = 0 => Begun(f)'
    BY <1>3, <2>2, OpenSkips
  <2>4. createdTime' = f
    BY <2>2 DEF initLogFile
  <2>5. AtStart'
    BY <2>3, <2>4 DEF AtStart, Begun
  <2>6. UNCHANGED <<log, pieces, data>>
    BY <1>9 DEF Open, files
  <2>. QED  BY <1>4, <2>3, <2>5, <2>6, LinesBegunSame
<1>10. CASE Search
  <2>1. UNCHANGED <<log, pieces, data>>
    BY <1>10 DEF Search, files
  <2>2. CASE newest = createdTime
    <3>1. createdTime' = createdTime /\ filePosition' = filePosition /\ done' = done
      BY <1>10, <2>2 DEF Search
    <3>2. pc = "search" /\ pc' = "sleep"
      BY <1>10 DEF Search
    <3>3. AtStart'
      BY <1>4, <3>1, <3>2 DEF AtStart, Begun, Rotates, Runs
    <3>. QED  BY <1>4, <2>1, <3>1, <3>3, LinesBegunSame
  <2>3. CASE newest # createdTime
    <3>1. initLogFile(newest, 0)
      BY <1>10, <2>3 DEF Search
    <3>2. PICK f \in 1..newest : f = newest
      BY <1>2
    <3>3. /\ \/ done' = done
             \/ \E d \in Done : d.as = "skipped" /\ done' = Append(done, d)
          /\ filePosition' = 0 => Begun(f)'
      BY <3>1, <3>2, OpenSkips
    <3>4. createdTime' = f
      BY <3>1, <3>2 DEF initLogFile
    <3>5. AtStart'
      BY <3>3, <3>4 DEF AtStart, Begun
    <3>. QED  BY <1>4, <2>1, <3>3, <3>5, LinesBegunSame
  <2>. QED  BY <2>2, <2>3
<1>11. CASE Restart
  <2>1. createdTime' = newest /\ filePosition' = Size(newest)
        /\ (Size(newest) = 0 => late' = late \cup {<<newest, "begun">>})
    BY <1>1, <1>2, <1>11, Ends DEF Restart, Ignores
  <2>2. AtStart'
    BY <2>1 DEF AtStart, Begun
  <2>3. UNCHANGED <<log, pieces, data, done>>
    BY <1>11 DEF Restart, files
  <2>. QED  BY <1>4, <2>2, <2>3, LinesBegunSame
<1>12. CASE EndOfRotated
  <2>1. Rotates /\ pc' = "look"
    BY <1>1, <1>12 DEF EndOfRotated, Place
  <2>2. AtStart'
    BY <1>4, <2>1 DEF AtStart, Rotates
  <2>3. UNCHANGED <<log, pieces, data, done>>
    BY <1>12 DEF EndOfRotated, files
  <2>. QED  BY <1>4, <2>2, <2>3, LinesBegunSame
<1>13. CASE Stat
  <2>1. Rotates /\ pc' = "open"
    BY <1>13 DEF Stat
  <2>2. AtStart'
    BY <1>4, <2>1 DEF AtStart, Rotates
  <2>3. UNCHANGED <<log, pieces, data, done>>
    BY <1>13 DEF Stat, files
  <2>. QED  BY <1>4, <2>2, <2>3, LinesBegunSame
<1>14. CASE NetworkFails
  <2>1. AtStart'
    BY <1>4, <1>14 DEF AtStart, Begun, Rotates, Runs, NetworkFails, reading
  <2>. QED  BY <1>4, <1>14, <2>1, LinesBegunSame DEF NetworkFails, files
<1>15. CASE NetworkWorks
  <2>1. AtStart'
    BY <1>4, <1>15 DEF AtStart, Begun, Rotates, Runs, NetworkWorks, reading
  <2>. QED  BY <1>4, <1>15, <2>1, LinesBegunSame DEF NetworkWorks, files
<1>16. CASE Wait
  <2>1. AtStart'
    BY <1>4, <1>16 DEF AtStart, Begun, Rotates, Runs, Wait
  <2>. QED  BY <1>4, <1>16, <2>1, LinesBegunSame DEF Wait, files
<1>17. CASE Resume
  <2>1. AtStart'
    BY <1>17 DEF AtStart, Resume, Runs
  <2>. QED  BY <1>4, <1>17, <2>1, LinesBegunSame DEF Resume, files
<1>18. CASE Look
  <2>1. AtStart'
    BY <1>4, <1>18 DEF AtStart, Begun, Rotates, Runs, Look, reading
  <2>. QED  BY <1>4, <1>18, <2>1, LinesBegunSame DEF Look, files
<1>19. CASE EndOfFile
  <2>1. AtStart'
    BY <1>4, <1>19 DEF AtStart, Begun, Rotates, Runs, EndOfFile
  <2>. QED  BY <1>4, <1>19, <2>1, LinesBegunSame DEF EndOfFile, files
<1>20. CASE Wake
  <2>1. AtStart'
    BY <1>4, <1>20 DEF AtStart, Begun, Rotates, Runs, Wake, reading
  <2>. QED  BY <1>4, <1>20, <2>1, LinesBegunSame DEF Wake, files
<1>21. CASE Rename
  <2>1. AtStart'
    BY <1>4, <1>21 DEF AtStart, Begun, Rotates, Runs, Rename, reading
  <2>. QED  BY <1>4, <1>21, <2>1, LinesBegunSame DEF Rename
<1>22. CASE RestartFails \/ OpenFails \/ SearchFails
  <2>1. pc' = "ended" /\ UNCHANGED <<log, pieces, data, done>>
    BY <1>22 DEF RestartFails, OpenFails, SearchFails, initLogFileFails, files
  <2>2. AtStart'
    BY <2>1 DEF AtStart, Runs
  <2>. QED  BY <1>4, <2>1, <2>2, LinesBegunSame
<1>23. CASE UNCHANGED vars
  <2>1. AtStart'
    BY <1>4, <1>23 DEF AtStart, Begun, Rotates, Runs, vars, files, reading
  <2>. QED  BY <1>4, <1>23, <2>1, LinesBegunSame DEF vars, files
<1>. QED
  BY <1>6, <1>7, <1>8, <1>9, <1>10, <1>11, <1>12, <1>13, <1>14, <1>15, <1>16, <1>17, <1>18,
     <1>19, <1>20, <1>21, <1>22, <1>23 DEF Next, Environment, Watcher

\* The lines to be ignored at the start of a file are not sent if they were there when it was
\* opened: however often new files come, the network fails and the thread begins again.
THEOREM FirstLinesNotSent == Spec => []FirstLinesIgnored
<1>1. Init => FirstLines
  BY FirstLinesInit
<1>2. Shape /\ FirstLines /\ [Next]_vars => FirstLines'
  BY FirstLinesStep
<1>3. FirstLines => FirstLinesIgnored
  BY DEF FirstLines, FirstLinesIgnored, Ignores, LinesBegun, Kept, Begun, Whole
<1>. QED  BY <1>1, <1>2, <1>3, ShapeAlways, PTL DEF Spec
-----------------------------------------------------------------------------
(* The headers.                                                            *)

Half(f) == <<f, "half">> \in late

\* The header of the file is missed.
Missed(f) == Half(f) \/ (Begun(f) /\ Misses)

\* Without headers there are no codes.
NoCodes ==
  ~SettingsPtr.headers =>
    fieldCodes = <<0, 0>> /\ \A i \in DOMAIN done : done[i].codes = <<0, 0>>

\* The thread has opened the file it has in mind; one that rotates it opens again.
Known == Runs /\ (~Rotates \/ pc = "read")

\* The codes are those of the file that is open, or will be before the first line that is
\* sent, or the header is missed.
CodesOf(f) ==
  /\ fieldCodes = <<f, f>> \/ Missed(f) \/ (Begun(f) /\ filePosition < 2)
  /\ Size(f) < 2 => Begun(f) \/ Half(f)

\* What will be of the codes as the file is opened again, or the header is read.
CodesToBe(f) ==
  /\ filePosition >= 1 /\ Size(f) = 1 => Begun(f) \/ Half(f)
  /\ data = << >> /\ filePosition = 1 => Missed(f)

CodesSent ==
  \A i \in DOMAIN done :
    done[i].as = "sent" =>
      /\ done[i].file \in 1..newest
      /\ Len(done[i].line) = 2 /\ done[i].line[1] > log[done[i].file]
           => done[i].codes = <<done[i].file, done[i].file>> \/ Missed(done[i].file)

Headers ==
  /\ Known => CodesOf(createdTime)
  /\ Runs => CodesToBe(createdTime)
  /\ CodesSent

HeadersRead == outages = 0 /\ ~raced /\ SettingsPtr.headers => Headers

\* There are no codes at first, and nothing is sent.
LEMMA HeadersInit == Init => NoCodes /\ HeadersRead
<1> SUFFICES ASSUME Init PROVE NoCodes /\ HeadersRead
  OBVIOUS
<1>1. done = << >> /\ fieldCodes = <<0, 0>> /\ pc = "restart" /\ DOMAIN done = {}
  BY DEF Init
<1>. QED  BY <1>1 DEF NoCodes, HeadersRead, Headers, Known, CodesSent, Runs

\* Without headers no step brings codes.
LEMMA NoCodesStep == Shape /\ NoCodes /\ [Next]_vars => NoCodes'
<1> SUFFICES ASSUME Shape, [Next]_vars, ~SettingsPtr.headers, fieldCodes = <<0, 0>>,
                    \A i \in DOMAIN done : done[i].codes = <<0, 0>>
             PROVE  fieldCodes' = <<0, 0>> /\ \A i \in DOMAIN done' : done'[i].codes = <<0, 0>>
  BY BegunRemembered DEF NoCodes
<1>1. \A f : Codes(f) = <<0, 0>>
  BY DEF Codes
<1>2. done \in Seq(Done)
  BY DEF Shape, Fields
<1>3. ASSUME NEW f, NEW position, initLogFile(f, position)
      PROVE  /\ fieldCodes' = <<0, 0>>
             /\ done' = done \/ \E d : d.codes = <<0, 0>> /\ done' = Append(done, d)
  BY <1>1, <1>3 DEF initLogFile
<1>4. ASSUME NEW line, ReadLine(line)
      PROVE  /\ fieldCodes' = <<0, 0>>
             /\ done' = done \/ \E d : d.codes = <<0, 0>> /\ done' = Append(done, d)
  BY <1>4 DEF ReadLine, Header
<1>5. /\ fieldCodes' = <<0, 0>>
      /\ done' = done \/ \E d : d.codes = <<0, 0>> /\ done' = Append(done, d)
  <2>1. CASE Restart
    BY <1>1, <2>1 DEF Restart
  <2>2. CASE Open
    BY <1>3, <2>2 DEF Open
  <2>3. CASE Search
    BY <1>3, <2>3 DEF Search
  <2>4. CASE ReadPiece
    BY <1>4, <2>4 DEF ReadPiece
  <2>5. CASE \/ WritePiece \/ Rename \/ NewFile \/ NetworkFails \/ NetworkWorks \/ Wait \/ Resume
             \/ Stat \/ Look \/ EndOfFile \/ EndOfRotated \/ Wake
             \/ RestartFails \/ OpenFails \/ SearchFails \/ UNCHANGED vars
    BY <2>5 DEF WritePiece, Rename, NewFile, NetworkFails, NetworkWorks, Wait, Resume, Stat, Look,
                EndOfFile, EndOfRotated, Wake, RestartFails, OpenFails, SearchFails,
                initLogFileFails, vars, reading
  <2>. QED  BY <2>1, <2>2, <2>3, <2>4, <2>5 DEF Next, Environment, Watcher
<1>6. ASSUME NEW d, d.codes = <<0, 0>>, done' = Append(done, d)
      PROVE  \A i \in DOMAIN done' : done'[i].codes = <<0, 0>>
  <2>1. PICK n \in Nat : n = Len(done) /\ DOMAIN done = 1..n
    BY <1>2
  <2>2. /\ DOMAIN done' = 1..(n + 1) /\ done'[n + 1] = d
        /\ \A i \in 1..n : done'[i] = done[i]
    BY <1>2, <1>6, <2>1
  <2>3. \A i \in 1..(n + 1) : i \in 1..n \/ i = n + 1
    OBVIOUS
  <2>. QED  BY <1>6, <2>1, <2>2, <2>3
<1>. QED  BY <1>5, <1>6

\* Of what was sent nothing changes.
LEMMA CodesSentSame ==
  ASSUME Shape, CodesSent, late \subseteq late', SettingsPtr' = SettingsPtr,
         \A f \in 1..newest : f \in 1..newest' /\ log'[f] = log[f],
         \/ done' = done
         \/ \E d \in Done : d.as = "skipped" /\ done' = Append(done, d)
  PROVE  CodesSent'
<1>1. done \in Seq(Done)
  BY DEF Shape, Fields
<1>2. \A f : Missed(f) => Missed(f)'
  BY DEF Missed, Half, Begun, Misses
<1>3. CASE done' = done
  BY <1>2, <1>3 DEF CodesSent
<1>4. ASSUME NEW d \in Done, d.as = "skipped", done' = Append(done, d) PROVE CodesSent'
  <2>1. PICK k : /\ DOMAIN done' = DOMAIN done \cup {k} /\ done'[k] = d
                 /\ \A i \in DOMAIN done : done'[i] = done[i]
    BY <1>1, <1>4, LinesKept
  <2>2. \A i \in DOMAIN done' : done'[i].as = "sent" => i \in DOMAIN done
    BY <1>4, <2>1
  <2>. QED  BY <1>2, <2>1, <2>2 DEF CodesSent
<1>. QED  BY <1>3, <1>4

\* Where nothing is opened or read, nothing changes.
LEMMA HeadersSame ==
  ASSUME Shape, Headers, late \subseteq late', SettingsPtr' = SettingsPtr,
         UNCHANGED <<log, pieces, createdTime, filePosition, fieldCodes, data, done>>,
         Runs' => Runs, Known' => Known
  PROVE  Headers'
<1>1. newest' = newest /\ \A f : Size(f)' = Size(f)
  BY SizesSame
<1>2. \A f : Missed(f) => Missed(f)'
  BY DEF Missed, Half, Begun, Misses
<1>3. Known' => CodesOf(createdTime)'
  BY <1>1, <1>2 DEF Headers, CodesOf, Begun, Half
<1>4. Runs' => CodesToBe(createdTime)'
  BY <1>1, <1>2 DEF Headers, CodesToBe, Begun, Half
<1>5. CodesSent'
  BY <1>1, CodesSentSame DEF Headers
<1>. QED  BY <1>3, <1>4, <1>5 DEF Headers

\* Opening a file finds its header, or not all of it is there.
LEMMA HeaderFound ==
  ASSUME Shape, SettingsPtr.headers, UNCHANGED <<SettingsPtr, log, pieces, data>>,
         NEW f \in 1..newest, NEW position \in Nat, initLogFile(f, position),
         position <= Size(f),
         position >= 1 /\ Size(f) = 1 => Begun(f) \/ Half(f),
         data = << >> /\ position = 1 => Missed(f)
  PROVE  CodesOf(f)' /\ CodesToBe(f)'
<1>1. Files
  BY DEF Shape
<1>2. Size(f)' = Size(f) /\ Size(f) \in Nat
  BY <1>1, Sizes, SizesSame
<1>3. PICK n \in Nat : /\ n = Len(Skipped(f, position)) /\ n <= Size(f)
                       /\ position # 0 => n = 0
  BY <1>1, SkippedFits
<1>4. filePosition' = position + n /\ fieldCodes' = Codes(f) /\ late \subseteq late'
      /\ (position = 0 /\ Size(f) < 2 => Begun(f)')
  BY <1>3 DEF initLogFile, Begun
<1>5. (Begun(f) => Begun(f)') /\ (Half(f) => Half(f)') /\ (Missed(f) => Missed(f)')
  BY <1>4 DEF Begun, Half, Missed, Misses
<1>6. Size(f) < 2 => Begun(f)' \/ Half(f)'
  BY <1>2, <1>4, <1>5
<1>7. Size(f) < 2 => filePosition' < 2
  BY <1>2, <1>3, <1>4
<1>8. Size(f) >= 2 => fieldCodes' = <<f, f>>
  BY <1>2, <1>4 DEF Codes
<1>9. Half(f)' => Missed(f)'
  BY DEF Missed
<1>10. CodesOf(f)'
  BY <1>2, <1>6, <1>7, <1>8, <1>9 DEF CodesOf
<1>11. ASSUME data = << >>, filePosition' = 1 PROVE Missed(f)'
  <2>1. CASE position = 1
    BY <1>5, <1>11, <2>1
  <2>2. CASE position # 1
    <3>1. position = 0 /\ n = 1
      BY <1>3, <1>4, <1>11, <2>2
    <3>2. SettingsPtr.ignoreFirstLines
      BY <1>3, <3>1 DEF Skipped
    <3>3. Size(f) < 2
      <4>1. CASE Size(f) >= 2
        <5>1. Skipped(f, position) = << >> \/ Skipped(f, position) = [i \in 1..2 |-> log[f] + i]
          BY <1>2, <4>1 DEF Skipped
        <5>2. Len(Skipped(f, position)) = 0 \/ Len(Skipped(f, position)) = 2
          BY <5>1
        <5>. QED  BY <1>3, <3>1, <5>2
      <4>. QED  BY <1>2, <4>1
    <3>. QED  BY <1>4, <3>1, <3>2, <3>3 DEF Missed, Misses
  <2>. QED  BY <2>1, <2>2
<1>12. CodesToBe(f)'
  BY <1>2, <1>6, <1>11 DEF CodesToBe
<1>. QED  BY <1>10, <1>12

\* The codes are right after each step.
LEMMA HeadersStep ==
  (/\ Shape /\ Following /\ BeginsOnce /\ TakenAll /\ HeadersRead /\ [Next]_vars)
    => HeadersRead'
<1> SUFFICES ASSUME Shape, Following, BeginsOnce, TakenAll, HeadersRead, [Next]_vars,
                    outages' = 0, ~raced', SettingsPtr'.headers
             PROVE  Headers'
  BY Zenon DEF HeadersRead
<1>1. outages = 0 /\ ~raced
  BY Remembered DEF Shape
<1>2. late \subseteq late' /\ SettingsPtr' = SettingsPtr /\ SettingsPtr.headers
  BY BegunRemembered
<1>3. Headers /\ Follows
  BY <1>1, <1>2 DEF HeadersRead, Following
<1>4. /\ pc # "waiting" /\ (pc = "restart" => data = << >> /\ done = << >>)
      /\ data = << >> \/ data = <<Reached>>
  BY <1>1 DEF BeginsOnce, TakenAll, AllTaken
<1>5. Files /\ Fields /\ Place
  BY DEF Shape
<1>6. newest \in Nat /\ newest >= 1 /\ newest \in 1..newest
  BY <1>5, NewestIsThere
<1>7. createdTime \in 0..newest /\ filePosition \in Nat /\ createdTime \in Nat
  BY <1>5 DEF Fields, Place
<1>8. Runs => createdTime \in 1..newest /\ filePosition <= Size(createdTime)
  <2>1. ~SettingsPtr.ConfirmedUnicodeFormat
    BY <1>2, <1>5 DEF Place
  <2>2. \A f \in 1..newest : Bytes(f) = Size(f)
    BY <1>5, <2>1, Ends
  <2>. QED  BY <1>3, <1>5, <1>6, <1>7, <2>2 DEF Place, Follows, Runs
<1>9. \A f \in 1..newest : log[f] \in Nat /\ Size(f) \in Nat
  BY <1>5, Sizes
<1>10. (Known => CodesOf(createdTime)) /\ (Runs => CodesToBe(createdTime)) /\ CodesSent
  BY <1>3 DEF Headers
<1>11. \A f : (Begun(f) => Begun(f)') /\ (Half(f) => Half(f)') /\ (Missed(f) => Missed(f)')
  BY <1>2 DEF Begun, Half, Missed, Misses
<1>12. CASE WritePiece
  <2>1. \A f \in 1..newest :
          /\ newest' = newest /\ log' = log
          /\ Size(f)' = IF f = newest THEN Size(f) + 1 ELSE Size(f)
    BY <1>5, <1>12, OnlyNewestGrows
  <2>2. /\ createdTime' = createdTime /\ filePosition' = filePosition /\ fieldCodes' = fieldCodes
        /\ data' = data /\ done' = done /\ pc' = pc
    BY <1>12 DEF WritePiece, reading
  <2>3. Known' => Known
    BY <1>2, <2>2 DEF Known, Rotates, Runs
  <2>4. PICK c : c = createdTime /\ c = createdTime'
    BY <2>2
  <2>5. ASSUME Known PROVE CodesOf(c)'
    <3>1. c \in 1..newest /\ Size(c) \in Nat /\ CodesOf(c)
      BY <1>8, <1>9, <1>10, <2>4, <2>5 DEF Known
    <3>2. Size(c)' < 2 => Size(c) < 2
      BY <2>1, <3>1
    <3>. QED  BY <1>11, <2>2, <3>1, <3>2 DEF CodesOf
  <2>6. ASSUME Runs PROVE CodesToBe(c)'
    <3>1. c \in 1..newest /\ Size(c) \in Nat /\ CodesToBe(c) /\ filePosition <= Size(c)
      BY <1>8, <1>9, <1>10, <2>4, <2>6
    <3>2. filePosition >= 1 /\ Size(c)' = 1 => Size(c) = 1
      BY <1>7, <2>1, <3>1
    <3>. QED  BY <1>11, <2>2, <3>1, <3>2 DEF CodesToBe
  <2>7. CodesSent'
    BY <1>2, <1>6, <1>10, <2>1, <2>2, CodesSentSame
  <2>8. (Known' => CodesOf(createdTime)') /\ (Runs' => CodesToBe(createdTime)')
    BY <2>2, <2>3, <2>4, <2>5, <2>6 DEF CodesOf, CodesToBe, Begun, Half, Missed, Size, Runs
  <2>. QED  BY <2>7, <2>8 DEF Headers
<1>13. CASE NewFile
  <2>1. \A f \in 1..newest :
          newest' = newest + 1 /\ log'[f] = log[f] /\ Size(f)' = Size(f)
    BY <1>5, <1>13, OthersKept
  <2>2. /\ createdTime' = createdTime /\ filePosition' = filePosition /\ fieldCodes' = fieldCodes
        /\ data' = data /\ done' = done /\ pc' = pc
    BY <1>13 DEF NewFile, reading
  <2>3. Known' => Known
    BY <1>2, <2>2 DEF Known, Rotates, Runs
  <2>4. PICK c : c = createdTime /\ c = createdTime'
    BY <2>2
  <2>5. Runs => c \in 1..newest /\ Size(c)' = Size(c)
    BY <1>8, <2>1, <2>4
  <2>6. ASSUME Known PROVE CodesOf(c)'
    BY <1>10, <1>11, <2>2, <2>4, <2>5, <2>6 DEF CodesOf, Known
  <2>7. ASSUME Runs PROVE CodesToBe(c)'
    BY <1>10, <1>11, <2>2, <2>4, <2>5, <2>7 DEF CodesToBe
  <2>8. CodesSent'
    <3>1. \A f \in 1..newest : f \in 1..newest' /\ log'[f] = log[f]
      BY <1>6, <2>1
    <3>. QED  BY <1>2, <1>10, <2>2, <3>1, CodesSentSame
  <2>9. (Known' => CodesOf(createdTime)') /\ (Runs' => CodesToBe(createdTime)')
    BY <2>2, <2>3, <2>4, <2>6, <2>7 DEF CodesOf, CodesToBe, Begun, Half, Missed, Size, Runs
  <2>. QED  BY <2>8, <2>9 DEF Headers
<1>14. CASE Restart
  <2>1. /\ createdTime' = newest /\ filePosition' = Size(newest) /\ fieldCodes' = Codes(newest)
        /\ data' = << >> /\ done' = << >>
        /\ Size(newest) = 0 => late' = late \cup {<<newest, "begun">>}
        /\ Size(newest) = 1 => late' = late \cup {<<newest, "half">>}
    <3>1. ~SettingsPtr.ConfirmedUnicodeFormat
      BY <1>2, <1>5 DEF Place
    <3>2. End(newest) = Size(newest)
      BY <1>5, <1>6, <3>1, Ends
    <3>. QED  BY <1>4, <1>14, <3>2 DEF Restart
  <2>2. PICK c \in 1..newest : c = newest
    BY <1>6
  <2>3. Size(c)' = Size(c) /\ Size(c) \in Nat
    BY <1>9, <1>14, SizesSame DEF Restart, files
  <2>4. (Size(c) = 0 => Begun(c)') /\ (Size(c) = 1 => Half(c)')
    BY <2>1, <2>2 DEF Begun, Half
  <2>5. Half(c)' => Missed(c)'
    BY DEF Missed
  <2>6. Size(c) >= 2 => fieldCodes' = <<c, c>>
    BY <1>2, <2>1, <2>2, <2>3 DEF Codes
  <2>7. filePosition' = Size(c)
    BY <2>1, <2>2
  <2>8. CodesOf(c)'
    BY <2>3, <2>4, <2>5, <2>6, <2>7 DEF CodesOf
  <2>9. CodesToBe(c)'
    BY <2>3, <2>4, <2>5, <2>7 DEF CodesToBe
  <2>10. CodesSent'
    <3>1. DOMAIN done' = {}
      BY <2>1
    <3>. QED  BY <3>1 DEF CodesSent
  <2>. QED  BY <2>1, <2>2, <2>8, <2>9, <2>10 DEF Headers, CodesOf, CodesToBe, Begun, Half,
                                               Missed, Size
<1>15. CASE Open
  <2>1. createdTime = File(filename) /\ createdTime \in 1..newest
    BY <1>3, <1>5, <1>8, <1>15, FileNamed DEF Open, Place, Follows, Runs
  <2>2. PICK f \in 1..newest : f = createdTime
    BY <2>1
  <2>3. initLogFile(f, filePosition) /\ UNCHANGED <<SettingsPtr, log, pieces, data>>
    BY <1>15, <2>1, <2>2 DEF Open, files
  <2>4. filePosition <= Size(f) /\ CodesToBe(f)
    BY <1>8, <1>10, <1>15, <2>2 DEF Open, Runs
  <2>5. CodesOf(f)' /\ CodesToBe(f)'
    BY <1>2, <1>7, <2>3, <2>4, HeaderFound DEF CodesToBe
  <2>6. createdTime' = f
    BY <2>3 DEF initLogFile
  <2>7. CodesSent'
    <3>1. \/ done' = done
          \/ \E d \in Done : d.as = "skipped" /\ done' = Append(done, d)
      BY <1>7, <2>3, OpenSkips
    <3>2. newest' = newest /\ log' = log
      BY <2>3 DEF newest
    <3>. QED  BY <1>2, <1>10, <3>1, <3>2, CodesSentSame
  <2>. QED  BY <2>5, <2>6, <2>7 DEF Headers, CodesOf, CodesToBe, Begun, Half, Missed, Size
<1>16. CASE Search
  <2>1. CASE newest = createdTime
    <3>1. Known' => Known
      BY <1>2, <1>16 DEF Known, Runs, Rotates, Search
    <3>2. Runs
      BY <1>16 DEF Runs, Search
    <3>. QED  BY <1>2, <1>3, <1>16, <2>1, <3>1, <3>2, HeadersSame DEF Search, files
  <2>2. CASE newest # createdTime
    <3>1. PICK f \in 1..newest : f = newest
      BY <1>6
    <3>2. initLogFile(f, 0) /\ UNCHANGED <<SettingsPtr, log, pieces, data>>
      BY <1>16, <2>2, <3>1 DEF Search, files
    <3>3. CodesOf(f)' /\ CodesToBe(f)'
      <4>1. 0 \in Nat /\ 0 <= Size(f)
        BY <1>9
      <4>. QED  BY <1>2, <3>2, <4>1, HeaderFound
    <3>4. createdTime' = f
      BY <3>2 DEF initLogFile
    <3>5. CodesSent'
      <4>1. \/ done' = done
            \/ \E d \in Done : d.as = "skipped" /\ done' = Append(done, d)
        BY <3>2, OpenSkips
      <4>2. newest' = newest /\ log' = log
        BY <3>2 DEF newest
      <4>. QED  BY <1>2, <1>10, <4>1, <4>2, CodesSentSame
    <3>. QED  BY <3>3, <3>4, <3>5 DEF Headers, CodesOf, CodesToBe, Begun, Half, Missed, Size
  <2>. QED  BY <2>1, <2>2
<1>17. CASE ReadPiece
  <2>1. PICK c \in 1..newest : /\ c = createdTime /\ c = createdTime' /\ CodesOf(c)
                               /\ CodesToBe(c) /\ Known
    BY <1>8, <1>10, <1>17 DEF ReadPiece, Known, Runs
  <2>2. PICK p \in Nat : p = filePosition /\ filePosition' = p + 1
    BY <1>7, <1>17 DEF ReadPiece
  <2>3. log[c] \in Nat /\ log[c] % 2 = 0 /\ Size(c) \in Nat /\ p < Size(c)
    BY <1>5, <1>9, <1>17, <2>1, <2>2 DEF ReadPiece, AtEnd, Files
  <2>4. newest' = newest /\ log' = log /\ Size(c)' = Size(c)
    BY <1>17, SizesSame DEF ReadPiece, files
  <2>5. PICK piece \in Nat : piece = log[c] + (p + 1)
    BY <2>3
  <2>6. PICK line : line = Append(data, piece)
    OBVIOUS
  <2>7. IF piece % 2 = 0 THEN ReadLine(line) /\ data' = << >>
                         ELSE data' = line /\ UNCHANGED <<done, fieldCodes>>
    BY <1>17, <2>1, <2>2, <2>5, <2>6 DEF ReadPiece
  <2>8. Size(c) < 2 => Begun(c) \/ Half(c)
    BY <2>1 DEF CodesOf
  <2>9. data = << >> \/ data = <<log[c] + p>>
    <3>1. p <= Size(c) /\ c # 0
      BY <1>6, <2>3
    <3>2. Reached = log[c] + p
      BY <2>1, <2>2, <3>1 DEF Reached
    <3>. QED  BY <1>4, <3>2
  <2>10. CASE piece % 2 # 0
    <3>1. p = 0 \/ p >= 2
      BY <2>2, <2>3, <2>5, <2>10
    <3>2. data' # << >>
      <4>1. data \in Seq(Nat) /\ data' = Append(data, piece)
        BY <1>5, <2>6, <2>7, <2>10 DEF Fields
      <4>. QED  BY <4>1
    <3>3. fieldCodes' = fieldCodes /\ done' = done
      BY <2>7, <2>10
    <3>4. fieldCodes = <<c, c>> \/ Missed(c) \/ (Begun(c) /\ p + 1 < 2)
      BY <2>1, <2>2, <3>1 DEF CodesOf
    <3>5. CodesOf(c)'
      BY <1>11, <2>2, <2>4, <2>8, <3>3, <3>4 DEF CodesOf
    <3>6. CodesToBe(c)'
      BY <1>11, <2>2, <2>4, <2>8, <3>2 DEF CodesToBe
    <3>7. CodesSent'
      BY <1>2, <1>10, <2>4, <3>3, CodesSentSame
    <3>. QED  BY <2>1, <3>5, <3>6, <3>7 DEF Headers, CodesOf, CodesToBe, Begun, Half, Missed, Size
  <2>11. CASE piece % 2 = 0
    <3>1. p >= 1 /\ (p = 1 \/ p >= 3)
      BY <2>2, <2>3, <2>5, <2>11
    <3>2. ReadLine(line) /\ data' = << >>
      BY <2>7, <2>11
    <3>3. data # << >> => line[1] = log[c] + p
      <4>1. data # << >> => data \in Seq(Nat) /\ Len(data) = 1 /\ data[1] = log[c] + p
        BY <1>5, <2>9 DEF Fields
      <4>2. data # << >> => line[1] = data[1]
        BY <2>6, <4>1
      <4>. QED  BY <4>1, <4>2
    <3>4. data = << >> => Len(line) = 1
      BY <2>6
    <3>5. Header(line) <=> line[1] = log[c] + 1
      BY <1>2, <2>1 DEF Header
    <3>6. fieldCodes' = IF Header(line) /\ SettingsPtr.ignorePrefixLines
                          THEN <<c, c>> ELSE fieldCodes
      BY <2>1, <3>2 DEF ReadLine
    <3>7. fieldCodes' = <<c, c>> \/ Missed(c)
      <4>1. CASE p = 1
        <5>1. CASE data = << >>
          BY <2>1, <2>2, <4>1, <5>1 DEF CodesToBe
        <5>2. CASE data # << >>
          <6>1. Header(line)
            BY <2>3, <3>3, <3>5, <4>1, <5>2
          <6>2. CASE SettingsPtr.ignorePrefixLines
            BY <3>6, <6>1, <6>2
          <6>3. CASE ~SettingsPtr.ignorePrefixLines
            <7>1. fieldCodes' = fieldCodes
              BY <3>6, <6>3
            <7>2. fieldCodes = <<c, c>> \/ Missed(c) \/ Begun(c)
              BY <2>1 DEF CodesOf
            <7>. QED  BY <6>3, <7>1, <7>2 DEF Missed, Misses
          <6>. QED  BY <6>2, <6>3
        <5>. QED  BY <5>1, <5>2
      <4>2. CASE p >= 3
        <5>1. fieldCodes = <<c, c>> \/ Missed(c)
          BY <2>1, <2>2, <4>2 DEF CodesOf
        <5>. QED  BY <3>6, <5>1
      <4>. QED  BY <3>1, <4>1, <4>2
    <3>8. CodesOf(c)'
      BY <1>11, <2>4, <2>8, <3>7 DEF CodesOf
    <3>9. CodesToBe(c)'
      <4>1. filePosition' # 1
        BY <2>2, <3>1
      <4>. QED  BY <1>11, <2>4, <2>8, <4>1 DEF CodesToBe
    <3>10. PICK d \in Done :
             /\ d.line = line /\ d.file = c /\ d.codes = fieldCodes
             /\ d.as = "sent" => ~Header(line)
             /\ done' = Append(done, d)
      <4>1. fieldCodes \in Int \X Int /\ c \in Nat
        BY <1>5, <1>7, <2>1 DEF Fields
      <4>2. line \in Seq(Nat)
        <5>1. data \in Seq(Nat)
          BY <1>5 DEF Fields
        <5>. QED  BY <2>6, <5>1
      <4>3. PICK as \in {"sent", "ignored", "sent as it is"} :
              /\ as = "sent" => ~Header(line)
              /\ done' = Append(done, [line |-> line, file |-> c, as |-> as,
                                       codes |-> fieldCodes])
        BY <2>1, <3>2 DEF ReadLine
      <4>4. [line |-> line, file |-> c, as |-> as, codes |-> fieldCodes] \in Done
        BY <4>1, <4>2 DEF Done
      <4>. QED  BY <4>3, <4>4
    <3>11. ASSUME d.as = "sent", Len(d.line) = 2, d.line[1] > log[c]
           PROVE  d.codes = <<c, c>> \/ Missed(c)
      <4>1. line[1] = log[c] + p
        BY <3>3, <3>4, <3>10, <3>11
      <4>2. p # 1
        BY <3>5, <3>10, <3>11, <4>1
      <4>3. p >= 3
        BY <3>1, <4>2
      <4>. QED  BY <2>1, <2>2, <3>10, <4>3 DEF CodesOf
    <3>12. CodesSent'
      <4>1. done \in Seq(Done)
        BY <1>5 DEF Fields
      <4>2. PICK k : /\ DOMAIN done' = DOMAIN done \cup {k} /\ done'[k] = d
                     /\ \A i \in DOMAIN done : done'[i] = done[i]
        BY <3>10, <4>1, LinesKept
      <4>. QED  BY <1>10, <1>11, <2>4, <3>10, <3>11, <4>2 DEF CodesSent
    <3>. QED  BY <2>1, <3>8, <3>9, <3>12 DEF Headers, CodesOf, CodesToBe, Begun, Half, Missed, Size
  <2>. QED  BY <2>10, <2>11
<1>18. CASE EndOfRotated
  <2>1. Rotates /\ pc' = "look" /\ filePosition' = 0
    BY <1>5, <1>18 DEF EndOfRotated, Place
  <2>2. ~Known'
    BY <1>2, <2>1 DEF Known, Rotates
  <2>3. CodesToBe(createdTime)'
    BY <2>1 DEF CodesToBe
  <2>4. CodesSent'
    <3>1. newest' = newest /\ log' = log /\ done' = done
      BY <1>18 DEF EndOfRotated, files, newest
    <3>. QED  BY <1>2, <1>10, <3>1, CodesSentSame
  <2>. QED  BY <2>2, <2>3, <2>4 DEF Headers
<1>19. CASE NetworkFails
  <2>1. (Known' => Known) /\ (Runs' => Runs)
    BY <1>2, <1>19 DEF Known, Runs, Rotates, NetworkFails
  <2>. QED  BY <1>2, <1>3, <1>19, <2>1, HeadersSame DEF NetworkFails, files, reading
<1>20. CASE NetworkWorks
  <2>1. (Known' => Known) /\ (Runs' => Runs)
    BY <1>2, <1>20 DEF Known, Runs, Rotates, NetworkWorks
  <2>. QED  BY <1>2, <1>3, <1>20, <2>1, HeadersSame DEF NetworkWorks, files, reading
<1>21. CASE Wait
  <2>1. (Known' => Known) /\ (Runs' => Runs)
    BY <1>2, <1>21 DEF Known, Runs, Rotates, Wait
  <2>. QED  BY <1>2, <1>3, <1>21, <2>1, HeadersSame DEF Wait, files
<1>22. CASE Stat
  <2>1. (Known' => Known) /\ (Runs' => Runs)
    BY <1>2, <1>22 DEF Known, Runs, Rotates, Stat
  <2>. QED  BY <1>2, <1>3, <1>22, <2>1, HeadersSame DEF Stat, files
<1>23. CASE Look
  <2>1. (Known' => Known) /\ (Runs' => Runs)
    BY <1>2, <1>23 DEF Known, Runs, Rotates, Look
  <2>. QED  BY <1>2, <1>3, <1>23, <2>1, HeadersSame DEF Look, files, reading
<1>24. CASE EndOfFile
  <2>1. (Known' => Known) /\ (Runs' => Runs)
    BY <1>2, <1>24 DEF Known, Runs, Rotates, EndOfFile
  <2>. QED  BY <1>2, <1>3, <1>24, <2>1, HeadersSame DEF EndOfFile, files
<1>25. CASE Wake
  <2>1. (Known' => Known) /\ (Runs' => Runs)
    BY <1>2, <1>25 DEF Known, Runs, Rotates, Wake
  <2>. QED  BY <1>2, <1>3, <1>25, <2>1, HeadersSame DEF Wake, files, reading
<1>26. CASE Rename
  <2>1. (Known' => Known) /\ (Runs' => Runs)
    BY <1>2, <1>26 DEF Known, Runs, Rotates, Rename
  <2>. QED  BY <1>2, <1>3, <1>26, <2>1, HeadersSame DEF Rename, reading
<1>27. CASE Resume
  BY <1>4, <1>27 DEF Resume
<1>28. CASE RestartFails \/ OpenFails \/ SearchFails
  <2>1. /\ UNCHANGED <<log, pieces, createdTime, filePosition, fieldCodes, data, done>>
        /\ pc' = "ended"
    BY <1>28 DEF RestartFails, OpenFails, SearchFails, initLogFileFails, files
  <2>2. ~Known' /\ ~Runs'
    BY <2>1 DEF Known, Runs
  <2>. QED  BY <1>2, <1>3, <2>1, <2>2, HeadersSame
<1>29. CASE UNCHANGED vars
  <2>1. (Known' => Known) /\ (Runs' => Runs)
    BY <1>2, <1>29 DEF Known, Runs, Rotates, vars
  <2>. QED  BY <1>2, <1>3, <1>29, <2>1, HeadersSame DEF vars, files, reading
<1>. QED
  BY <1>12, <1>13, <1>14, <1>15, <1>16, <1>17, <1>18, <1>19, <1>20, <1>21, <1>22, <1>23, <1>24,
     <1>25, <1>26, <1>27, <1>28, <1>29 DEF Next, Environment, Watcher

\* Each line that is sent is parsed by the header of its own file, and without codes if there
\* are no headers: for any number of files and lines, as long as the network works, new files
\* do not come too fast and the thread does not miss the header.
THEOREM OwnHeader == Spec => []HeaderKept
<1>1. Init => BeginsOnce /\ TakenAll /\ NoCodes /\ HeadersRead
  BY BeginsOnceInit, TakenAllInit, HeadersInit
<1>2. (/\ Shape /\ Following
       /\ BeginsOnce /\ TakenAll /\ NoCodes /\ HeadersRead /\ [Next]_vars)
        => BeginsOnce' /\ TakenAll' /\ NoCodes' /\ HeadersRead'
  BY BeginsOnceStep, TakenAllStep, NoCodesStep, HeadersStep
<1>3. Shape /\ NoCodes /\ HeadersRead => HeaderKept
  <2> SUFFICES ASSUME Shape, NoCodes, HeadersRead, ~raced, outages = 0, NEW i \in DOMAIN done,
                      done[i].as = "sent", Whole(done[i]), NEW f, f = done[i].file
               PROVE  \/ done[i].codes = IF SettingsPtr.headers THEN <<f, f>> ELSE <<0, 0>>
                      \/ Half(f)
                      \/ Begun(f) /\ Misses
    BY DEF HeaderKept, Half, Begun
  <2>1. CASE ~SettingsPtr.headers
    BY <2>1 DEF NoCodes
  <2>2. CASE SettingsPtr.headers
    <3>1. /\ f \in 1..newest
          /\ Len(done[i].line) = 2 /\ done[i].line[1] > log[f] => done[i].codes = <<f, f>> \/ Missed(f)
      BY <2>2 DEF HeadersRead, Headers, CodesSent
    <3>2. Len(done[i].line) = 2 /\ done[i].line[1] - log[f] \in 1..Size(f)
      BY DEF Whole
    <3>3. log[f] \in Nat /\ Size(f) \in Nat
      BY <3>1, Sizes DEF Shape
    <3>4. done[i].line[1] \in Nat
      <4>1. done[i] \in Done
        BY DEF Shape, Fields
      <4>2. done[i].line \in Seq(Nat)
        BY <4>1 DEF Done
      <4>. QED  BY <3>2, <4>2
    <3>5. done[i].line[1] > log[f]
      BY <3>2, <3>3, <3>4
    <3>. QED  BY <2>2, <3>1, <3>2, <3>5 DEF Missed
  <2>. QED  BY <2>1, <2>2
<1>. QED  BY <1>1, <1>2, <1>3, ShapeAlways, FollowingAlways, PTL DEF Spec

\* Every variable has its type; if new files do not come too fast and the network works, at
\* most one piece waits for the other.
THEOREM TypeCorrect == Spec => []TypeOK
<1>1. Init => BeginsOnce /\ TakenAll
  BY BeginsOnceInit, TakenAllInit
<1>2. Shape /\ Following /\ BeginsOnce /\ TakenAll /\ [Next]_vars
        => BeginsOnce' /\ TakenAll'
  BY BeginsOnceStep, TakenAllStep
<1>3. Shape /\ TakenAll => TypeOK
  <2> SUFFICES ASSUME Shape, TakenAll PROVE TypeOK
    OBVIOUS
  <2>1. newest \in Nat /\ pieces \in Nat
    BY DEF Shape, Files, newest
  <2>2. ~raced /\ outages = 0 => Len(data) <= 1
    <3>1. CASE data = << >>
      BY <3>1
    <3>2. ASSUME NEW n, data = <<n>> PROVE Len(data) <= 1
      <4>1. Len(data) = 1
        BY <3>2
      <4>. QED  BY <4>1
    <3>. QED  BY <3>1, <3>2 DEF TakenAll, AllTaken
  <2>. QED  BY <2>1, <2>2 DEF TypeOK, Shape, Fields
<1>. QED  BY <1>1, <1>2, <1>3, ShapeAlways, FollowingAlways, PTL DEF Spec
=============================================================================
