---------------------------- MODULE FilesProofs ----------------------------
(***************************************************************************)
(* Proofs about Files, for any directory and image, any number of slots,   *)
(* descriptors and terminals and any commands.                             *)
(***************************************************************************)
EXTENDS Files, ImageProofs

----------------------------------------------------------------------------
(***************************************************************************)
(* The smallest number of a set.                                           *)
(***************************************************************************)
LEMMA MinIs ==
    ASSUME NEW S, S \subseteq Nat, S # {}
    PROVE  Min(S) \in S /\ \A x \in S : Min(S) <= x
  <1>1. \E x \in S : \A y \in S : x <= y
    BY LeastNumber
  <1> QED  BY <1>1 DEF Min

\* The smallest number is the one that no other is below.
LEMMA MinIsThe ==
    ASSUME NEW S, S \subseteq Nat, NEW m \in S, \A x \in S : m <= x
    PROVE  Min(S) = m
  <1>1. Min(S) \in S /\ \A x \in S : Min(S) <= x
    BY MinIs
  <1>2. Min(S) <= m /\ m <= Min(S) /\ Min(S) \in Nat /\ m \in Nat
    BY <1>1
  <1> QED  BY <1>2

\* Of two numbers it is the smaller.
LEMMA MinOfTwo ==
    ASSUME NEW a \in Nat, NEW b \in Nat
    PROVE  Min({a, b}) = IF a <= b THEN a ELSE b
  <1>1. CASE a <= b
    <2>1. {a, b} \subseteq Nat /\ a \in {a, b} /\ \A x \in {a, b} : a <= x
      BY <1>1
    <2> QED  BY <1>1, <2>1, MinIsThe
  <1>2. CASE ~(a <= b)
    <2>1. {a, b} \subseteq Nat /\ b \in {a, b} /\ \A x \in {a, b} : b <= x
      BY <1>2
    <2> QED  BY <1>2, <2>1, MinIsThe
  <1> QED  BY <1>1, <1>2

----------------------------------------------------------------------------
(***************************************************************************)
(* How execute takes a command apart.                                      *)
(***************************************************************************)
\* The first character of some kind, when the end of the string is of that kind.
LEMMA FirstIs ==
    ASSUME NEW line \in Seq(STRING), NEW i \in 1 .. Len(line) + 1, NEW chars, NUL \in chars
    PROVE  /\ FirstFrom(line, i, chars) \in i .. Len(line) + 1
           /\ \A m \in i .. Len(line) + 1 :
                  /\ CharAt(line, m) \in chars
                  /\ \A k \in i .. m - 1 : CharAt(line, k) \notin chars
                  => FirstFrom(line, i, chars) = m
  <1> DEFINE S == {k \in i .. Len(line) + 1 : CharAt(line, k) \in chars}
  <1>1. Len(line) \in Nat /\ S \subseteq Nat /\ S \subseteq i .. Len(line) + 1
    OBVIOUS
  <1>2. CharAt(line, Len(line) + 1) = NUL
    BY <1>1 DEF CharAt
  <1>3. Len(line) + 1 \in S
    BY <1>1, <1>2
  <1>4. Min(S) \in S
    <2> HIDE DEF S
    <2> QED  BY <1>1, <1>3, MinIs
  <1>5. FirstFrom(line, i, chars) = Min(S)
    BY DEF FirstFrom
  <1>6. ASSUME NEW m \in i .. Len(line) + 1, CharAt(line, m) \in chars,
               \A k \in i .. m - 1 : CharAt(line, k) \notin chars
        PROVE  Min(S) = m
    <2>1. m \in S /\ \A x \in S : m <= x
      BY <1>1, <1>6
    <2> HIDE DEF S
    <2> QED  BY <1>1, <2>1, MinIsThe
  <1> QED  BY <1>1, <1>4, <1>5, <1>6

\* The first character that is not a space.
LEMMA SkipIs ==
    ASSUME NEW line \in Seq(STRING), NEW i \in 1 .. Len(line) + 1
    PROVE  /\ SkipSpaces(line, i) \in i .. Len(line) + 1
           /\ \A m \in i .. Len(line) + 1 :
                  /\ CharAt(line, m) # SPACE
                  /\ \A k \in i .. m - 1 : CharAt(line, k) = SPACE
                  => SkipSpaces(line, i) = m
  <1> DEFINE S == {k \in i .. Len(line) + 1 : CharAt(line, k) # SPACE}
  <1>1. Len(line) \in Nat /\ S \subseteq Nat /\ S \subseteq i .. Len(line) + 1
    OBVIOUS
  <1>2. CharAt(line, Len(line) + 1) # SPACE
    <2>1. CharAt(line, Len(line) + 1) = NUL
      BY <1>1 DEF CharAt
    <2>2. NUL # SPACE
      BY DEF NUL, SPACE
    <2> QED  BY <2>1, <2>2
  <1>3. Len(line) + 1 \in S
    BY <1>1, <1>2
  <1>4. Min(S) \in S
    <2> HIDE DEF S
    <2> QED  BY <1>1, <1>3, MinIs
  <1>5. SkipSpaces(line, i) = Min(S)
    BY DEF SkipSpaces
  <1>6. ASSUME NEW m \in i .. Len(line) + 1, CharAt(line, m) # SPACE,
               \A k \in i .. m - 1 : CharAt(line, k) = SPACE
        PROVE  Min(S) = m
    <2>1. m \in S /\ \A x \in S : m <= x
      BY <1>1, <1>6
    <2> HIDE DEF S
    <2> QED  BY <1>1, <2>1, MinIsThe
  <1> QED  BY <1>1, <1>4, <1>5, <1>6

\* The name is text of the line, and the argument as much as cmd_length allows.
LEMMA CommandTypes ==
    ASSUME NEW line \in Seq(STRING)
    PROVE  /\ FileName(line) \in Seq(STRING)
           /\ Argument(line) \in Seq(STRING) /\ Len(Argument(line)) <= cmd_length
  <1> DEFINE n == NameStart(line)
             e == NameEnd(line)
             i == SkipSpaces(line, e)
             f == FirstFrom(line, i, Ends)
             m == Min({f - 1, cmd_length})
  <1>0. NUL \in Ends /\ NUL \in Ends \cup {SPACE}
    BY DEF Ends
  <1>1. Len(line) \in Nat /\ 1 \in 1 .. Len(line) + 1
    OBVIOUS
  <1>2. n \in 1 .. Len(line) + 1
    BY <1>1, SkipIs DEF NameStart
  <1>3. e \in n .. Len(line) + 1
    <2> HIDE DEF n
    <2>1. FirstFrom(line, n, Ends \cup {SPACE}) \in n .. Len(line) + 1
      BY <1>0, <1>2, FirstIs
    <2> QED  BY <2>1 DEF NameEnd, n
  <1> HIDE DEF n, e
  <1>4. e \in 1 .. Len(line) + 1
    BY <1>1, <1>2, <1>3
  <1>5. i \in e .. Len(line) + 1
    BY <1>4, SkipIs
  <1> HIDE DEF i
  <1>6. i \in 1 .. Len(line) + 1
    BY <1>1, <1>4, <1>5
  <1>7. f \in i .. Len(line) + 1
    BY <1>0, <1>6, FirstIs
  <1> HIDE DEF f
  <1>8. m \in Nat /\ m <= f - 1 /\ m <= cmd_length
    <2>1. f - 1 \in Nat /\ cmd_length \in Nat
      BY <1>1, <1>6, <1>7, CommandAssumption
    <2> QED  BY <2>1, MinOfTwo
  <1> HIDE DEF m
  <1>9. FileName(line) = SubSeq(line, n, e - 1)
    BY DEF FileName, n, e
  <1>10. Argument(line) = SubSeq(line, i, m)
    BY DEF Argument, i, e, f, m
  <1>11. SubSeq(line, n, e - 1) \in Seq(STRING)
    <2>1. \A k \in n .. e - 1 : k \in 1 .. Len(line)
      BY <1>1, <1>2, <1>3
    <2> QED  BY <1>1, <1>2, <1>3, <2>1, SubSeqProperties
  <1>12. SubSeq(line, i, m) \in Seq(STRING) /\ Len(SubSeq(line, i, m)) <= cmd_length
    <2>1. \A k \in i .. m : k \in 1 .. Len(line)
      BY <1>1, <1>6, <1>7, <1>8
    <2>2. i \in Int /\ m \in Int
      BY <1>1, <1>6, <1>8
    <2>3. /\ SubSeq(line, i, m) \in Seq(STRING)
          /\ Len(SubSeq(line, i, m)) = IF i <= m THEN m - i + 1 ELSE 0
      BY <1>1, <1>6, <1>7, <1>8, <2>1, <2>2, SubSeqProperties
    <2> QED  BY <1>6, <1>8, <2>2, <2>3, CommandAssumption
  <1> QED  BY <1>9, <1>10, <1>11, <1>12

\* The characters of a part of a line.
LEMMA PartIs ==
    ASSUME NEW line \in Seq(STRING), NEW part \in Seq(STRING), NEW i \in 1 .. Len(line) + 1,
           i + Len(part) <= Len(line) + 1, part = SubSeq(line, i, i + Len(part) - 1)
    PROVE  \A h \in 1 .. Len(part) : part[h] = line[i + h - 1]
  <1>1. Len(line) \in Nat /\ Len(part) \in Nat /\ i \in Int /\ i + Len(part) - 1 \in Int
    OBVIOUS
  <1>2. \A k \in i .. i + Len(part) - 1 : line[k] \in STRING
    BY <1>1
  <1>3. \A h \in 1 .. (i + Len(part) - 1) - i + 1 :
            SubSeq(line, i, i + Len(part) - 1)[h] = line[i + h - 1]
    BY <1>1, <1>2, SubSeqProperties
  <1>4. (i + Len(part) - 1) - i + 1 = Len(part)
    BY <1>1
  <1> QED  BY <1>3, <1>4

\* execute finds the parts that a command was put together from: the name, if
\* there is one, and the argument, if the line is not too long.
LEMMA CommandTakenApart ==
    ASSUME NEW line \in Seq(STRING), NEW name \in Seq(STRING), NEW argument \in Seq(STRING),
           Consists(line, name, argument), WellFormed(line)
    PROVE  /\ FileName(line) = name
           /\ Len(line) <= cmd_length => Argument(line) = argument
  <1>1. PICK n \in 1 .. Len(line) + 1, a \in 1 .. Len(line) + 1 :
            /\ n + Len(name) <= a /\ a + Len(argument) <= Len(line) + 1
            /\ name = SubSeq(line, n, n + Len(name) - 1)
            /\ argument = SubSeq(line, a, a + Len(argument) - 1)
            /\ \A k \in (1 .. n - 1) \cup (n + Len(name) .. a - 1) : line[k] = SPACE
            /\ CharAt(line, a + Len(argument)) \in Ends
            /\ \A k \in DOMAIN name : name[k] \notin Ends \cup {SPACE}
            /\ \A k \in DOMAIN argument : argument[k] \notin Ends
            /\ argument # <<>> => name # <<>> /\ n + Len(name) < a /\ argument[1] # SPACE
    BY Zenon DEF Consists
  <1>2. NUL \in Ends /\ NUL \in Ends \cup {SPACE} /\ SPACE \notin Ends
    BY DEF Ends, NUL, SPACE
  <1>3. Len(line) \in Nat /\ Len(name) \in Nat /\ Len(argument) \in Nat /\ n \in Nat /\ a \in Nat
        /\ n >= 1 /\ a >= 1
    OBVIOUS
  <1>4. \A k \in (1 .. n - 1) \cup (n + Len(name) .. a - 1) : CharAt(line, k) = SPACE
    <2> SUFFICES ASSUME NEW k \in (1 .. n - 1) \cup (n + Len(name) .. a - 1)
                 PROVE  CharAt(line, k) = SPACE
      OBVIOUS
    <2>1. k <= Len(line)
      BY <1>1, <1>3
    <2> QED  BY <1>1, <2>1 DEF CharAt
  <1>5. \A k \in n .. n + Len(name) - 1 : CharAt(line, k) \notin Ends \cup {SPACE}
    <2> SUFFICES ASSUME NEW k \in n .. n + Len(name) - 1
                 PROVE  CharAt(line, k) \notin Ends \cup {SPACE}
      OBVIOUS
    <2>1. k <= Len(line) /\ k - n + 1 \in 1 .. Len(name) /\ n + (k - n + 1) - 1 = k
      BY <1>1, <1>3
    <2>2. \A h \in 1 .. Len(name) : name[h] = line[n + h - 1]
      <3>1. n + Len(name) <= Len(line) + 1 /\ name = SubSeq(line, n, n + Len(name) - 1)
        BY <1>1, <1>3
      <3> QED  BY ONLY <3>1, line \in Seq(STRING), name \in Seq(STRING),
                       n \in 1 .. Len(line) + 1, PartIs
    <2>3. line[k] = name[k - n + 1] /\ k - n + 1 \in DOMAIN name
      <3>1. DOMAIN name = 1 .. Len(name)
        OBVIOUS
      <3> QED  BY ONLY <2>1, <2>2, <3>1
    <2>4. CharAt(line, k) = line[k]
      BY <2>1 DEF CharAt
    <2> QED  BY <1>1, <2>3, <2>4
  <1>6. \A k \in a .. a + Len(argument) - 1 :
            CharAt(line, k) \notin Ends /\ (k = a => CharAt(line, k) # SPACE)
    <2> SUFFICES ASSUME NEW k \in a .. a + Len(argument) - 1
                 PROVE  CharAt(line, k) \notin Ends /\ (k = a => CharAt(line, k) # SPACE)
      OBVIOUS
    <2>1. k <= Len(line) /\ k - a + 1 \in 1 .. Len(argument) /\ a + (k - a + 1) - 1 = k
      BY <1>1, <1>3
    <2>2. \A h \in 1 .. Len(argument) : argument[h] = line[a + h - 1]
      <3>1. a + Len(argument) <= Len(line) + 1 /\ argument = SubSeq(line, a, a + Len(argument) - 1)
        BY <1>1, <1>3
      <3> QED  BY ONLY <3>1, line \in Seq(STRING), argument \in Seq(STRING),
                       a \in 1 .. Len(line) + 1, PartIs
    <2>3. line[k] = argument[k - a + 1] /\ k - a + 1 \in DOMAIN argument
      <3>1. DOMAIN argument = 1 .. Len(argument)
        OBVIOUS
      <3> QED  BY ONLY <2>1, <2>2, <3>1
    <2>4. CharAt(line, k) = line[k]
      BY <2>1 DEF CharAt
    <2>5. k = a => k - a + 1 = 1
      BY <1>3
    <2>6. argument # <<>>
      BY <2>1
    <2> QED  BY <1>1, <2>3, <2>4, <2>5, <2>6
  <1>7. n + Len(name) \in 1 .. Len(line) + 1 /\ a + Len(argument) \in 1 .. Len(line) + 1
    BY <1>1, <1>3
  <1>8. name # <<>>
    <2> SUFFICES ASSUME name = <<>> PROVE FALSE
      OBVIOUS
    <2>1. argument = <<>> /\ Len(name) = 0
      BY <1>1
    <2>2. CharAt(line, a) \in Ends /\ CharAt(line, a) # SPACE
      <3>1. a + Len(argument) = a
        BY <1>3, <2>1
      <3> QED  BY <1>1, <1>2, <3>1
    <2>3. \A k \in 1 .. a - 1 : CharAt(line, k) = SPACE
      BY <1>3, <1>4, <2>1
    <2>4. SkipSpaces(line, 1) = a
      <3>1. 1 \in 1 .. Len(line) + 1
        BY <1>3
      <3> QED  BY <2>2, <2>3, <3>1, SkipIs
    <2> QED  BY <2>2, <2>4 DEF WellFormed, NameStart
  <1>9. Len(name) >= 1
    BY <1>3, <1>8
  <1>10. NameStart(line) = n
    <2>1. 1 \in 1 .. Len(line) + 1
      BY <1>3
    <2>2. CharAt(line, n) # SPACE
      BY <1>3, <1>5, <1>9
    <2>3. \A k \in 1 .. n - 1 : CharAt(line, k) = SPACE
      BY <1>4
    <2> QED  BY <2>1, <2>2, <2>3, SkipIs DEF NameStart
  <1>11. CharAt(line, n + Len(name)) \in Ends \cup {SPACE}
    <2>1. CASE n + Len(name) < a
      <3>1. n + Len(name) \in n + Len(name) .. a - 1
        BY <1>3, <2>1
      <3> QED  BY <1>4, <3>1
    <2>2. CASE n + Len(name) = a
      <3>1. argument = <<>>
        BY <1>1, <1>3, <2>2
      <3>2. a + Len(argument) = a
        BY <1>3, <3>1
      <3> QED  BY <1>1, <2>2, <3>2
    <2>3. n + Len(name) <= a
      BY <1>1
    <2>4. n + Len(name) < a \/ n + Len(name) = a
      BY ONLY <1>3, <2>3
    <2> QED  BY ONLY <2>1, <2>2, <2>4
  <1>12. NameEnd(line) = n + Len(name)
    <2> DEFINE chars == Ends \cup {SPACE}
    <2>1. NUL \in chars /\ CharAt(line, n + Len(name)) \in chars
      BY <1>2, <1>11
    <2>2. \A k \in n .. (n + Len(name)) - 1 : CharAt(line, k) \notin chars
      BY <1>5
    <2>3. n + Len(name) \in n .. Len(line) + 1
      BY <1>3, <1>7
    <2>4. NameEnd(line) = FirstFrom(line, n, chars)
      BY <1>10 DEF NameEnd
    <2> HIDE DEF chars
    <2> QED  BY <2>1, <2>2, <2>3, <2>4, FirstIs
  <1>13. FileName(line) = name
    BY <1>1, <1>10, <1>12 DEF FileName
  <1>14. SkipSpaces(line, NameEnd(line)) = a
    <2>1. CharAt(line, a) # SPACE
      <3>1. CASE argument = <<>>
        <4>1. a + Len(argument) = a
          BY <1>3, <3>1
        <4> QED  BY <1>1, <1>2, <4>1
      <3>2. CASE argument # <<>>
        <4>1. a \in a .. a + Len(argument) - 1
          BY <1>3, <3>2
        <4> QED  BY <1>6, <4>1
      <3> QED  BY <3>1, <3>2
    <2>2. \A k \in n + Len(name) .. a - 1 : CharAt(line, k) = SPACE
      BY <1>4
    <2>3. a \in n + Len(name) .. Len(line) + 1
      BY <1>1, <1>3
    <2> QED  BY <1>7, <1>12, <2>1, <2>2, <2>3, SkipIs
  <1>15. FirstFrom(line, a, Ends) = a + Len(argument)
    <2>1. a + Len(argument) \in a .. Len(line) + 1
      BY <1>3, <1>7
    <2>2. \A k \in a .. (a + Len(argument)) - 1 : CharAt(line, k) \notin Ends
      BY <1>6
    <2>3. CharAt(line, a + Len(argument)) \in Ends
      BY <1>1
    <2> QED  BY <1>2, <2>1, <2>2, <2>3, FirstIs
  <1>16. ASSUME Len(line) <= cmd_length PROVE Argument(line) = argument
    <2>1. a + Len(argument) - 1 \in Nat /\ cmd_length \in Nat /\ a + Len(argument) - 1 <= cmd_length
      BY <1>1, <1>3, <1>16, CommandAssumption
    <2>2. Min({a + Len(argument) - 1, cmd_length}) = a + Len(argument) - 1
      BY <2>1, MinOfTwo
    <2>3. Argument(line) = SubSeq(line, a, a + Len(argument) - 1)
      <3> DEFINE f == FirstFrom(line, a, Ends) - 1
      <3>1. f = a + Len(argument) - 1
        BY <1>15
      <3>2. Argument(line) = SubSeq(line, a, Min({f, cmd_length}))
        BY <1>14 DEF Argument
      <3> HIDE DEF f
      <3> QED  BY <2>2, <3>1, <3>2
    <2> QED  BY <1>1, <2>3
  <1> QED  BY <1>13, <1>16

----------------------------------------------------------------------------
(***************************************************************************)
(* Looking up names.                                                       *)
(***************************************************************************)
LEMMA DirectoryTypes ==
    /\ Directory \in Seq([name : Seq(STRING), type : {"rtc", "dir", "file"}, inode : Nat])
    /\ Len(Directory) \in Nat /\ DOMAIN Directory = 1 .. Len(Directory)
    /\ \A i \in DOMAIN Directory :
          /\ Directory[i].name \in Seq(STRING) /\ Len(Directory[i].name) \in 1 .. FILENAME_MAX
          /\ Directory[i].type \in {"rtc", "dir", "file"} /\ Directory[i].inode \in Nat
          /\ Directory[i].type = "file" => Directory[i].inode \in DOMAIN length_in_b
  <1>1. Directory \in Seq([name : Seq(STRING), type : {"rtc", "dir", "file"}, inode : Nat])
    BY DirectoryAssumption
  <1> DEFINE Entry == [name : Seq(STRING), type : {"rtc", "dir", "file"}, inode : Nat]
  <1>2. /\ Len(Directory) \in Nat /\ DOMAIN Directory = 1 .. Len(Directory)
        /\ \A i \in DOMAIN Directory : Directory[i] \in Entry
    <2>1. Directory \in Seq(Entry)
      BY <1>1
    <2> HIDE DEF Entry
    <2> QED  BY <2>1
  <1>3. \A i \in DOMAIN Directory :
            /\ Len(Directory[i].name) \in 1 .. FILENAME_MAX
            /\ Directory[i].type = "file" => Directory[i].inode \in DOMAIN length_in_b
    BY DirectoryAssumption
  <1> QED  BY <1>1, <1>2, <1>3

\* read_dentry_by_name finds an entry of the directory.
LEMMA FoundEntry ==
    ASSUME NEW name, NEW length, Found(name, length) # {}
    PROVE  Min(Found(name, length)) \in DOMAIN Directory
  <1>1. Found(name, length) \subseteq Nat /\ Found(name, length) \subseteq DOMAIN Directory
    BY DirectoryTypes DEF Found
  <1> QED  BY <1>1, MinIs

\* With the length of its own name it finds the entries of that name and no
\* others: one that is shorter has a NUL where the name has a character, also
\* when strncmp compares as many bytes as a name can have.
LEMMA FoundIsNamed ==
    ASSUME NEW name, IsText(name)
    PROVE  \A i \in DOMAIN Directory :
               i \in Found(name, Len(name)) <=> Directory[i].name = name
  <1> SUFFICES ASSUME NEW i \in DOMAIN Directory
               PROVE  i \in Found(name, Len(name)) <=> Directory[i].name = name
    OBVIOUS
  <1> DEFINE d == Directory[i].name
  <1>1. /\ name \in Seq(STRING) /\ Len(name) \in Nat /\ DOMAIN name = 1 .. Len(name)
        /\ \A k \in 1 .. Len(name) : name[k] # NUL
    BY DEF IsText
  <1>2. d \in Seq(STRING) /\ Len(d) \in Nat /\ Len(d) <= FILENAME_MAX /\ FILENAME_MAX \in Nat
    BY DirectoryTypes, NBytesAssumption
  <1>3. i \in Found(name, Len(name)) <=>
            /\ Len(name) = Len(d) \/ Len(name) = FILENAME_MAX
            /\ \A k \in 1 .. Len(name) : CharAt(name, k) = CharAt(d, k)
    BY DEF Found, Matches, CharsMatch
  <1> HIDE DEF d
  <1>4. ASSUME d = name PROVE i \in Found(name, Len(name))
    BY <1>3, <1>4
  <1>5. ASSUME Len(name) = Len(d) \/ Len(name) = FILENAME_MAX,
               \A k \in 1 .. Len(name) : CharAt(name, k) = CharAt(d, k)
        PROVE  d = name
    <2>1. \A k \in 1 .. Len(name) : CharAt(name, k) = name[k]
      BY <1>1 DEF CharAt
    <2>2. ASSUME Len(d) < Len(name) PROVE FALSE
      <3>1. Len(d) + 1 \in 1 .. Len(name) /\ CharAt(d, Len(d) + 1) = NUL
        BY <1>1, <1>2, <2>2 DEF CharAt
      <3> QED  BY <1>1, <1>5, <2>1, <3>1
    <2>3. Len(d) = Len(name)
      <3>1. CASE Len(name) = FILENAME_MAX
        BY <1>1, <1>2, <2>2, <3>1
      <3> QED  BY <1>5, <3>1
    <2>4. \A k \in 1 .. Len(name) : CharAt(d, k) = d[k]
      BY <1>1, <2>3 DEF CharAt
    <2>5. \A k \in 1 .. Len(name) : d[k] = name[k]
      BY <1>5, <2>1, <2>4
    <2> QED  BY <1>1, <1>2, <2>3, <2>5, SeqEqual
  <1> QED  BY <1>3, <1>4, <1>5 DEF d

----------------------------------------------------------------------------
(***************************************************************************)
(* The inductive invariant.  No slot is in two places of the chains, so    *)
(* that a call changes the table of the running process of its terminal    *)
(* and of no other; the entry that a call in progress works on stays as    *)
(* the call found it; and every open entry of every slot, in use or not,   *)
(* is at the offset it was read to, since halt leaves entries open that    *)
(* the next process in the slot takes over.                                *)
(***************************************************************************)
Entries == [f_op : {"none", "stdin", "stdout", "rtc", "dir", "file"},
            inode : Nat, f_offset : Nat, active : {0, 1}]

CallRecords == [stage : {"none", "open", "measured", "copied"}, fd : Fds \cup {NULL},
                name : Seq(STRING), n : Nat, dentry : Seq(STRING \cup {NUL})]

Types ==
    /\ chain \in [Terminals -> Seq(Pids)]
    /\ \A t \in Terminals : chain[t] # <<>>
    /\ fds \in [Pids -> [Fds -> Entries]]
    /\ fname_length \in Nat
    /\ call \in [Terminals -> CallRecords]
    /\ arg \in [Pids -> Seq(STRING)]
    /\ \A p \in Pids : Len(arg[p]) <= cmd_length
    /\ delivered \in [Pids -> [Fds -> Nat]]
    /\ given \in [Pids -> Seq(STRING)]

Apart ==
    \A t, u \in Terminals : \A i \in DOMAIN chain[t], j \in DOMAIN chain[u] :
        chain[t][i] = chain[u][j] => t = u /\ i = j

\* An open entry from which d bytes or names were read.
EntryInOrder(e, d) ==
    /\ e.active = 1 /\ e.f_op = "file" =>
           e.f_offset = d /\ e.inode \in DOMAIN length_in_b /\ e.f_offset <= length_in_b[e.inode]
    /\ e.active = 1 /\ e.f_op = "dir" => e.f_offset = d /\ e.f_offset <= Len(Directory)

InOrder == \A p \in Pids, fd \in Fds : EntryInOrder(fds[p][fd], delivered[p][fd])

\* A call in progress, and the table of its process.
InCall(c, table) ==
    /\ c.stage = "open" => /\ c.fd \in Fds /\ table[c.fd].active = 0
                           /\ IsText(c.name) /\ Len(c.name) \in 1 .. FILENAME_MAX
    /\ c.stage \in {"measured", "copied"} =>
           c.fd \in Fds /\ table[c.fd].active = 1 /\ table[c.fd].f_op = "dir"

CallsInProgress == \A t \in Terminals : InCall(call[t], fds[Running(t)])

IInv == Types /\ Apart /\ InOrder /\ CallsInProgress

----------------------------------------------------------------------------
(***************************************************************************)
(* Chains.                                                                 *)
(***************************************************************************)
LEMMA Runs ==
    ASSUME Types, NEW t \in Terminals
    PROVE  /\ Len(chain[t]) \in Nat /\ Len(chain[t]) >= 1 /\ DOMAIN chain[t] = 1 .. Len(chain[t])
           /\ Len(chain[t]) \in DOMAIN chain[t]
           /\ \A i \in DOMAIN chain[t] : chain[t][i] \in Pids
           /\ Running(t) \in Pids
  <1>1. chain[t] \in Seq(Pids) /\ chain[t] # <<>>
    BY DEF Types
  <1>2. Len(chain[t]) \in Nat /\ Len(chain[t]) >= 1 /\ DOMAIN chain[t] = 1 .. Len(chain[t])
        /\ \A i \in DOMAIN chain[t] : chain[t][i] \in Pids
    <2> HIDE DEF Pids
    <2> QED  BY <1>1
  <1> QED  BY <1>2 DEF Running

\* The slots in use are those of the chains.
LEMMA InUseIs ==
    \A p : p \in InUse <=> \E t \in Terminals : \E i \in DOMAIN chain[t] : p = chain[t][i]
  BY DEF InUse

\* The process that runs at a terminal is in use, is not one that waits, and is
\* no other terminal's.
LEMMA RunningApart ==
    ASSUME Types, Apart, NEW t \in Terminals
    PROVE  /\ Running(t) \in InUse
           /\ \A u \in Terminals : Running(t) = Running(u) => t = u
           /\ \A p \in Waiting : p # Running(t) /\ p \in InUse
  <1>1. Len(chain[t]) \in DOMAIN chain[t] /\ Running(t) = chain[t][Len(chain[t])]
    BY Runs DEF Running
  <1>2. Running(t) \in InUse
    BY <1>1, InUseIs
  <1>3. ASSUME NEW u \in Terminals, Running(t) = Running(u) PROVE t = u
    <2>1. Len(chain[u]) \in DOMAIN chain[u] /\ Running(u) = chain[u][Len(chain[u])]
      BY Runs DEF Running
    <2> QED  BY <1>1, <1>3, <2>1 DEF Apart
  <1>4. ASSUME NEW p \in Waiting PROVE p # Running(t) /\ p \in InUse
    <2>0. PICK u \in Terminals : \E i \in 1 .. Len(chain[u]) - 1 : p = chain[u][i]
      BY DEF Waiting
    <2>1. PICK i \in 1 .. Len(chain[u]) - 1 : p = chain[u][i]
      BY <2>0
    <2>2. Len(chain[u]) \in Nat /\ DOMAIN chain[u] = 1 .. Len(chain[u])
      BY Runs
    <2>3. i \in DOMAIN chain[u] /\ i # Len(chain[u])
      BY <2>2
    <2>4. p \in InUse
      BY <2>1, <2>3, InUseIs
    <2>5. ASSUME p = Running(t) PROVE FALSE
      <3>1. t = u /\ i = Len(chain[t])
        <4>1. Len(chain[t]) \in DOMAIN chain[t] /\ chain[t][Len(chain[t])] = chain[u][i]
          BY <1>1, <2>1, <2>5
        <4> QED  BY <2>3, <4>1, Zenon DEF Apart
      <3> QED  BY <2>3, <3>1
    <2> QED  BY <2>4, <2>5
  <1> QED  BY <1>2, <1>3, <1>4

\* What another terminal's process has, a step on this terminal's table or on a
\* slot that is free leaves alone.
LEMMA OthersKeep ==
    ASSUME Types, Apart, CallsInProgress, NEW t \in Terminals,
           NEW q, q = Running(t) \/ q \notin InUse,
           \A u \in Terminals \ {t} : chain'[u] = chain[u] /\ call'[u] = call[u],
           \A p \in Pids : p # q => fds'[p] = fds[p],
           InCall(call'[t], fds'[Running(t)'])
    PROVE  CallsInProgress'
  <1> SUFFICES ASSUME NEW u \in Terminals
               PROVE  InCall(call'[u], fds'[Running(u)'])
    BY DEF CallsInProgress, InCall
  <1>1. CASE u # t
    <2>1. Running(u) \in Pids /\ Running(u) # q
      BY <1>1, Runs, RunningApart
    <2>2. Running(u)' = Running(u)
      BY <1>1 DEF Running
    <2> QED  BY <1>1, <2>1, <2>2 DEF CallsInProgress
  <1> QED  BY <1>1

----------------------------------------------------------------------------
(***************************************************************************)
(* The steps.                                                              *)
(***************************************************************************)
LEMMA FdTypes == FD_MAX \in Nat /\ FD_MAX >= 2 /\ 0 \in Fds /\ 1 \in Fds /\ Fds \subseteq Nat
  BY FdsAssumption DEF Fds

\* A terminal without a call in progress.
LEMMA NoneIs == None \in CallRecords /\ None.stage = "none"
  BY DEF None, CallRecords

\* Entries 0 and 1 of a new process are open, and no file or directory.
LEMMA WithStandardIs ==
    ASSUME NEW table \in [Fds -> Entries]
    PROVE  /\ WithStandard(table) \in [Fds -> Entries]
           /\ \A fd \in Fds : \/ WithStandard(table)[fd] = table[fd]
                              \/ WithStandard(table)[fd].f_op \in {"stdin", "stdout"}
  <1> DEFINE a == [table[0] EXCEPT !.f_op = "stdin", !.active = 1]
             b == [table[1] EXCEPT !.f_op = "stdout", !.active = 1]
  <1>1. table[0] \in Entries /\ table[1] \in Entries
    BY FdTypes
  <1>2. a \in Entries /\ b \in Entries /\ a.f_op = "stdin" /\ b.f_op = "stdout"
    BY <1>1 DEF Entries
  <1>3. WithStandard(table) = [table EXCEPT ![0] = a, ![1] = b]
    BY FdTypes DEF WithStandard
  <1> HIDE DEF a, b
  <1> QED  BY <1>2, <1>3, FdTypes

\* At boot each shell has its two standard entries open, and nothing is called.
LEMMA InitInv == Init => IInv
  <1> SUFFICES ASSUME Init PROVE IInv
    OBVIOUS
  <1> DEFINE empty == [fd \in Fds |-> Closed]
  <1>0. Terminals \subseteq Pids
    BY PidsAssumption
  <1>1. Closed \in Entries /\ Closed.active = 0
    BY DEF Closed, Entries
  <1>2. empty \in [Fds -> Entries]
    BY <1>1
  <1>3. WithStandard(empty) \in [Fds -> Entries]
        /\ \A fd \in Fds : \/ WithStandard(empty)[fd] = empty[fd]
                           \/ WithStandard(empty)[fd].f_op \in {"stdin", "stdout"}
    BY <1>2, WithStandardIs
  <1>4. fds = [p \in Pids |-> IF p \in Terminals THEN WithStandard(empty) ELSE empty]
    BY DEF Init
  <1>5. Types
    <2>1. /\ chain \in [Terminals -> Seq(Pids)] /\ \A t \in Terminals : chain[t] # <<>>
      BY <1>0 DEF Init
    <2>2. fds \in [Pids -> [Fds -> Entries]]
      <3> HIDE DEF empty
      <3> QED  BY <1>2, <1>3, <1>4
    <2>3. call \in [Terminals -> CallRecords]
      BY NoneIs DEF Init
    <2>4. arg \in [Pids -> Seq(STRING)] /\ given \in [Pids -> Seq(STRING)]
          /\ \A p \in Pids : Len(arg[p]) <= cmd_length
      BY CommandAssumption DEF Init
    <2>5. delivered \in [Pids -> [Fds -> Nat]] /\ fname_length \in Nat
      BY DEF Init
    <2> QED  BY <2>1, <2>2, <2>3, <2>4, <2>5 DEF Types
  <1>6. Apart
    BY DEF Init, Apart
  <1>7. InOrder
    <2> SUFFICES ASSUME NEW p \in Pids, NEW fd \in Fds
                 PROVE  EntryInOrder(fds[p][fd], delivered[p][fd])
      BY DEF InOrder
    <2>1. fds[p][fd] = empty[fd] \/ fds[p][fd].f_op \in {"stdin", "stdout"}
      <3> HIDE DEF empty
      <3> QED  BY <1>3, <1>4
    <2>2. fds[p][fd].active = 0 \/ fds[p][fd].f_op \in {"stdin", "stdout"}
      BY <1>1, <2>1
    <2> QED  BY <2>2 DEF EntryInOrder
  <1>8. CallsInProgress
    BY NoneIs DEF Init, CallsInProgress, InCall
  <1> QED  BY <1>5, <1>6, <1>7, <1>8 DEF IInv

\* One entry of one table changes.
LEMMA OneEntry ==
    ASSUME NEW A, NEW B, NEW S, NEW f \in [A -> [B -> S]], NEW p \in A, NEW x \in B, NEW v \in S,
           NEW g, g = [f EXCEPT ![p][x] = v]
    PROVE  /\ g \in [A -> [B -> S]]
           /\ \A q \in A : q # p => g[q] = f[q]
           /\ \A y \in B : y # x => g[p][y] = f[p][y]
           /\ g[p][x] = v
  <1> DEFINE row == [f[p] EXCEPT ![x] = v]
  <1>1. f[p] \in [B -> S]
    OBVIOUS
  <1>2. row \in [B -> S] /\ row[x] = v /\ \A y \in B : y # x => row[y] = f[p][y]
    BY <1>1
  <1>3. g = [f EXCEPT ![p] = row]
    OBVIOUS
  <1> HIDE DEF row
  <1> QED  BY <1>2, <1>3

\* A call that ends, having changed one entry of its process or none.
LEMMA EntryStep ==
    ASSUME IInv, NEW t \in Terminals, NEW fd \in Fds, NEW e \in Entries, NEW d \in Nat,
           EntryInOrder(e, d), UNCHANGED <<chain, arg, given>>, fname_length' = fname_length,
           call' = [call EXCEPT ![t] = None],
           fds' = [fds EXCEPT ![Running(t)][fd] = e],
           delivered' = [delivered EXCEPT ![Running(t)][fd] = d]
    PROVE  IInv'
  <1> DEFINE p == Running(t)
  <1>0. Types /\ Apart /\ InOrder /\ CallsInProgress
    BY DEF IInv
  <1>1. p \in Pids
    BY <1>0, Runs
  <1>2. fds \in [Pids -> [Fds -> Entries]] /\ delivered \in [Pids -> [Fds -> Nat]]
        /\ call \in [Terminals -> CallRecords]
    BY <1>0 DEF Types
  <1> HIDE DEF p
  <1>3. fds' = [fds EXCEPT ![p][fd] = e] /\ delivered' = [delivered EXCEPT ![p][fd] = d]
    BY DEF p
  <1>4. /\ fds' \in [Pids -> [Fds -> Entries]] /\ delivered' \in [Pids -> [Fds -> Nat]]
        /\ \A q \in Pids : q # p => fds'[q] = fds[q] /\ delivered'[q] = delivered[q]
        /\ \A f \in Fds : f # fd => fds'[p][f] = fds[p][f] /\ delivered'[p][f] = delivered[p][f]
        /\ fds'[p][fd] = e /\ delivered'[p][fd] = d
    <2>1. /\ fds' \in [Pids -> [Fds -> Entries]]
          /\ \A q \in Pids : q # p => fds'[q] = fds[q]
          /\ \A f \in Fds : f # fd => fds'[p][f] = fds[p][f]
          /\ fds'[p][fd] = e
      BY ONLY <1>1, <1>2, <1>3, fd \in Fds, e \in Entries, OneEntry, Zenon
    <2>2. /\ delivered' \in [Pids -> [Fds -> Nat]]
          /\ \A q \in Pids : q # p => delivered'[q] = delivered[q]
          /\ \A f \in Fds : f # fd => delivered'[p][f] = delivered[p][f]
          /\ delivered'[p][fd] = d
      BY ONLY <1>1, <1>2, <1>3, fd \in Fds, d \in Nat, OneEntry, Zenon
    <2> QED  BY <2>1, <2>2
  <1>5. Types'
    <2>1. call' \in [Terminals -> CallRecords]
      BY <1>2, NoneIs
    <2> QED  BY <1>0, <1>4, <2>1 DEF Types
  <1>6. Apart'
    BY <1>0 DEF Apart
  <1>7. InOrder'
    <2> SUFFICES ASSUME NEW q \in Pids, NEW f \in Fds
                 PROVE  EntryInOrder(fds'[q][f], delivered'[q][f])
      BY DEF InOrder, EntryInOrder
    <2>1. CASE q = p /\ f = fd
      BY <1>4, <2>1
    <2>2. CASE ~(q = p /\ f = fd)
      <3>1. fds'[q][f] = fds[q][f] /\ delivered'[q][f] = delivered[q][f]
        BY <1>4, <2>2
      <3> QED  BY <1>0, <3>1 DEF InOrder
    <2> QED  BY <2>1, <2>2
  <1>8. CallsInProgress'
    <2>1. InCall(call'[t], fds'[Running(t)'])
      BY <1>2, NoneIs DEF InCall
    <2>2. \A u \in Terminals \ {t} : chain'[u] = chain[u] /\ call'[u] = call[u]
      BY <1>2
    <2> QED  BY <1>0, <1>4, <2>1, <2>2, OthersKeep DEF p
  <1> QED  BY <1>5, <1>6, <1>7, <1>8 DEF IInv

\* A call that begins or goes on.
LEMMA CallStep ==
    ASSUME IInv, NEW t \in Terminals, NEW c \in CallRecords,
           InCall(c, fds[Running(t)]), fname_length' \in Nat,
           UNCHANGED <<chain, fds, arg, delivered, given>>,
           call' = [call EXCEPT ![t] = c]
    PROVE  IInv'
  <1>0. Types /\ Apart /\ InOrder /\ CallsInProgress
    BY DEF IInv
  <1>1. call \in [Terminals -> CallRecords]
    BY <1>0 DEF Types
  <1>2. call' \in [Terminals -> CallRecords] /\ call'[t] = c
        /\ \A u \in Terminals \ {t} : call'[u] = call[u]
    BY <1>1
  <1>3. Types' /\ Apart'
    BY <1>0, <1>2 DEF Types, Apart
  <1>4. InOrder'
    BY <1>0 DEF InOrder
  <1>5. CallsInProgress'
    <2>1. Running(t)' = Running(t)
      BY DEF Running
    <2>2. InCall(call'[t], fds'[Running(t)'])
      BY <1>2, <2>1
    <2> QED  BY <1>0, <1>2, <2>2, OthersKeep
  <1> QED  BY <1>3, <1>4, <1>5 DEF IInv

\* What a step that may change a process's table knows of it.
LEMMA EntryTypes ==
    ASSUME Types, NEW t \in Terminals, NEW fd \in Fds
    PROVE  /\ fds[Running(t)][fd] \in Entries /\ fds[Running(t)][fd].f_offset \in Nat
           /\ fds[Running(t)][fd].active \in {0, 1} /\ fds[Running(t)][fd].inode \in Nat
           /\ delivered[Running(t)][fd] \in Nat
  <1>1. Running(t) \in Pids
    BY Runs
  <1>2. fds[Running(t)][fd] \in Entries /\ delivered[Running(t)][fd] \in Nat
    BY <1>1 DEF Types
  <1> QED  BY <1>2 DEF Entries

\* An execute that fails leaves at most another fname_length.
LEMMA ExecuteFailsInv == ASSUME IInv, NEW t \in Terminals, ExecuteFails(t) PROVE IInv'
  <1>0. Types /\ Apart /\ InOrder /\ CallsInProgress
    BY DEF IInv
  <1>1. UNCHANGED <<chain, fds, call, arg, delivered, given>>
    BY DEF ExecuteFails
  <1>2. fname_length' \in Nat
    <2>1. PICK c \in Commands : \/ fname_length' = fname_length
                                \/ fname_length' = Len(FileName(c.line))
      BY DEF ExecuteFails
    <2>2. c.line \in Seq(STRING)
      BY CommandsAssumption DEF IsText
    <2>3. FileName(c.line) \in Seq(STRING)
      BY <2>2, CommandTypes
    <2> QED  BY <1>0, <2>1, <2>3 DEF Types
  <1>3. CallsInProgress'
    BY <1>0, <1>1 DEF CallsInProgress, InCall, Running
  <1> QED  BY <1>0, <1>1, <1>2, <1>3 DEF IInv, Types, Apart, InOrder, EntryInOrder

\* getargs changes nothing but what it returns.
LEMMA getargsInv == ASSUME IInv, NEW t \in Terminals, getargs(t) PROVE IInv'
  <1>1. UNCHANGED <<chain, fds, fname_length, call, arg, delivered, given>>
    BY DEF getargs
  <1> QED  BY <1>1 DEF IInv, Types, Apart, InOrder, EntryInOrder, CallsInProgress, InCall, Running

\* open works on an entry that is closed, with a name that is not too long.
LEMMA OpenStartInv == ASSUME IInv, NEW t \in Terminals, OpenStart(t) PROVE IInv'
  <1>0. Types
    BY DEF IInv
  <1> DEFINE free == Inactive(Running(t))
  <1>1. PICK name \in Names :
            /\ fname_length' = Len(name)
            /\ call' = [call EXCEPT ![t] =
                           IF Len(name) = 0 \/ Len(name) > FILENAME_MAX THEN None
                           ELSE [None EXCEPT !.stage = "open", !.name = name, !.fd = Min(free)]]
    BY DEF OpenStart
  <1>2. IsText(name) /\ name \in Seq(STRING) /\ Len(name) \in Nat
    BY NamesAssumption DEF IsText
  <1>3. free # {} /\ UNCHANGED <<chain, fds, arg, delivered, given>>
    BY DEF OpenStart
  <1>4. free \subseteq Fds /\ \A fd \in free : fds[Running(t)][fd].active = 0
    BY DEF Inactive
  <1> HIDE DEF free
  <1>5. Min(free) \in free
    BY <1>3, <1>4, FdTypes, MinIs
  <1> DEFINE c == IF Len(name) = 0 \/ Len(name) > FILENAME_MAX THEN None
                  ELSE [None EXCEPT !.stage = "open", !.name = name, !.fd = Min(free)]
  <1>6. c \in CallRecords /\ InCall(c, fds[Running(t)])
    <2>1. CASE Len(name) = 0 \/ Len(name) > FILENAME_MAX
      <3>1. c = None
        BY <2>1
      <3> QED  BY <3>1, NoneIs DEF InCall
    <2>2. CASE ~(Len(name) = 0 \/ Len(name) > FILENAME_MAX)
      <3> DEFINE m == Min(free)
      <3>0. m \in Fds /\ fds[Running(t)][m].active = 0
        BY <1>4, <1>5
      <3>1. c = [None EXCEPT !.stage = "open", !.name = name, !.fd = m]
        BY <2>2
      <3> HIDE DEF c, m
      <3>2. c = [stage |-> "open", fd |-> m, name |-> name, n |-> 0, dentry |-> <<>>]
        BY <3>1 DEF None
      <3>3. c \in CallRecords
        BY <1>2, <3>0, <3>2 DEF CallRecords
      <3>4. Len(name) \in 1 .. FILENAME_MAX
        BY <1>2, <2>2, NBytesAssumption
      <3> QED  BY <1>2, <3>0, <3>2, <3>3, <3>4 DEF InCall
    <2> QED  BY <2>1, <2>2
  <1>7. call' = [call EXCEPT ![t] = c] /\ fname_length' \in Nat
    BY <1>1, <1>2
  <1> HIDE DEF c
  <1> QED  BY <1>3, <1>6, <1>7, CallStep

\* open ends: an entry of the directory is open from its start, or nothing is.
LEMMA OpenFindInv == ASSUME IInv, NEW t \in Terminals, OpenFind(t) PROVE IInv'
  <1> DEFINE fd == call[t].fd
             found == Found(call[t].name, fname_length)
  <1>0. Types /\ CallsInProgress /\ InOrder
    BY DEF IInv
  <1>1. /\ call[t].stage = "open" /\ UNCHANGED <<chain, fname_length, arg, given>>
        /\ call' = [call EXCEPT ![t] = None]
    BY DEF OpenFind
  <1>2. fd \in Fds
    BY <1>0, <1>1 DEF CallsInProgress, InCall
  <1>3. fds \in [Pids -> [Fds -> Entries]] /\ delivered \in [Pids -> [Fds -> Nat]] /\ Running(t) \in Pids
    BY <1>0, Runs DEF Types
  <1>4. CASE found = {}
    <2> DEFINE e == fds[Running(t)][fd]
               d == delivered[Running(t)][fd]
    <2>1. UNCHANGED <<fds, delivered>>
      BY <1>4 DEF OpenFind
    <2>2. e \in Entries /\ d \in Nat /\ EntryInOrder(e, d)
      BY <1>0, <1>2, <1>3, EntryTypes DEF InOrder
    <2>3. fds' = [fds EXCEPT ![Running(t)][fd] = e] /\ delivered' = [delivered EXCEPT ![Running(t)][fd] = d]
      BY <1>2, <1>3, <2>1
    <2> HIDE DEF e, d, fd
    <2> QED  BY <1>1, <1>2, <2>2, <2>3, EntryStep
  <1>5. CASE found # {}
    <2> DEFINE i == Min(found)
               e == Opened(fds[Running(t)][fd], Directory[i])
    <2>1. i \in DOMAIN Directory
      BY <1>5, FoundEntry
    <2>2. /\ fds' = [fds EXCEPT ![Running(t)][fd] = Opened(@, Directory[i])]
          /\ delivered' = [delivered EXCEPT ![Running(t)][fd] = 0]
      BY <1>5 DEF OpenFind
    <2> HIDE DEF i, fd
    <2>3. e = [f_op |-> Directory[i].type, f_offset |-> 0, active |-> 1,
               inode |-> IF Directory[i].type = "file" THEN Directory[i].inode ELSE 0]
      BY DEF Opened
    <2>4. /\ Directory[i].type \in {"rtc", "dir", "file"} /\ Directory[i].inode \in Nat
          /\ Directory[i].type = "file" => Directory[i].inode \in DOMAIN length_in_b
          /\ Len(Directory) \in Nat
      BY <2>1, DirectoryTypes
    <2>5. e \in Entries
      BY <2>3, <2>4 DEF Entries
    <2>6. EntryInOrder(e, 0)
      <3>1. e.f_op = "file" => e.inode \in DOMAIN length_in_b
        BY <2>3, <2>4
      <3>2. e.f_op = "file" => 0 <= length_in_b[e.inode]
        BY <3>1, InodeAssumption
      <3> QED  BY <2>3, <2>4, <3>1, <3>2 DEF EntryInOrder
    <2>7. fds' = [fds EXCEPT ![Running(t)][fd] = e]
      BY <2>2
    <2> HIDE DEF e
    <2> QED  BY <1>1, <1>2, <2>2, <2>5, <2>6, <2>7, EntryStep
  <1> QED  BY <1>4, <1>5

\* A closed entry is at no offset.
LEMMA CloseInv == ASSUME IInv, NEW t \in Terminals, Close(t) PROVE IInv'
  <1>0. Types
    BY DEF IInv
  <1>1. PICK fd \in 2 .. FD_MAX : fds' = [fds EXCEPT ![Running(t)][fd].active = 0]
    BY DEF Close
  <1>2. fd \in Fds
    BY FdTypes DEF Fds
  <1>3. call[t] = None /\ UNCHANGED <<chain, fname_length, call, arg, delivered, given>>
    BY DEF Close, Calls
  <1>4. /\ fds \in [Pids -> [Fds -> Entries]] /\ delivered \in [Pids -> [Fds -> Nat]]
        /\ call \in [Terminals -> CallRecords] /\ Running(t) \in Pids
    BY <1>0, Runs DEF Types
  <1> DEFINE e == [fds[Running(t)][fd] EXCEPT !.active = 0]
             d == delivered[Running(t)][fd]
  <1>5. e \in Entries /\ e.active = 0 /\ d \in Nat
    <2>1. fds[Running(t)][fd] \in Entries /\ d \in Nat
      BY <1>2, <1>4
    <2> QED  BY <2>1 DEF Entries
  <1>6. /\ fds' = [fds EXCEPT ![Running(t)][fd] = e]
        /\ delivered' = [delivered EXCEPT ![Running(t)][fd] = d]
        /\ call' = [call EXCEPT ![t] = None]
    BY <1>1, <1>2, <1>3, <1>4
  <1> HIDE DEF e, d
  <1>7. EntryInOrder(e, d)
    BY <1>5 DEF EntryInOrder
  <1> QED  BY <1>2, <1>3, <1>5, <1>6, <1>7, EntryStep

\* A read takes the offset on by what it delivers, at most to the end.
LEMMA ReadFileInv == ASSUME IInv, NEW t \in Terminals, ReadFile(t) PROVE IInv'
  <1>0. Types /\ InOrder
    BY DEF IInv
  <1> DEFINE p == Running(t)
             Bytes(fd, n) == Data(fds[p][fd].inode, fds[p][fd].f_offset, n).bytes
  <1>1. PICK fd \in Fds, n \in NBytes :
            /\ fds[p][fd].active = 1 /\ fds[p][fd].f_op = "file"
            /\ fds' = [fds EXCEPT ![p][fd].f_offset = @ + Len(Bytes(fd, n))]
            /\ delivered' = [delivered EXCEPT ![p][fd] = @ + Len(Bytes(fd, n))]
    BY DEF ReadFile
  <1>2. n \in Nat
    BY NBytesAssumption
  <1>3. call[t] = None /\ UNCHANGED <<chain, fname_length, call, arg, given>>
    BY DEF ReadFile, Calls
  <1>4. /\ fds \in [Pids -> [Fds -> Entries]] /\ delivered \in [Pids -> [Fds -> Nat]]
        /\ call \in [Terminals -> CallRecords] /\ p \in Pids
    BY <1>0, Runs DEF Types
  <1> DEFINE old == fds[p][fd]
             l == Len(Bytes(fd, n))
             e == [old EXCEPT !.f_offset = old.f_offset + l]
             d == delivered[p][fd] + l
  <1>5. old \in Entries /\ delivered[p][fd] \in Nat /\ old.f_offset \in Nat
        /\ EntryInOrder(old, delivered[p][fd]) /\ old.active = 1 /\ old.f_op = "file"
    BY <1>0, <1>1, <1>4, EntryTypes DEF InOrder
  <1>6. /\ fds' = [fds EXCEPT ![p][fd] = e] /\ delivered' = [delivered EXCEPT ![p][fd] = d]
        /\ call' = [call EXCEPT ![t] = None]
    BY <1>1, <1>3, <1>4
  <1>7. old.inode \in DOMAIN length_in_b /\ old.f_offset <= length_in_b[old.inode]
        /\ old.f_offset = delivered[p][fd]
    <2> HIDE DEF old
    <2> QED  BY <1>5 DEF EntryInOrder
  <1>8. l \in Nat /\ old.f_offset + l <= length_in_b[old.inode]
    <2>1. Bytes(fd, n) = read_data(old.inode, old.f_offset, n)
      BY DEF Data
    <2> HIDE DEF old, Bytes
    <2>2. l = ReadSize(old.inode, old.f_offset, n)
      <3>1. PICK i : i = old.inode
        OBVIOUS
      <3>2. PICK o : o = old.f_offset
        OBVIOUS
      <3>3. i \in DOMAIN length_in_b /\ o \in Nat /\ n \in Nat
        BY <1>2, <1>5, <1>7, <3>1, <3>2
      <3>4. Len(read_data(i, o, n)) = ReadSize(i, o, n)
        BY ONLY <3>3, ReadLength
      <3> QED  BY <2>1, <3>1, <3>2, <3>4
    <2> HIDE DEF l
    <2> QED  BY <1>2, <1>5, <1>7, <2>2, ReadLength
  <1> HIDE DEF old, l, p
  <1>9. e \in Entries /\ d \in Nat /\ EntryInOrder(e, d)
    <2>1. e \in Entries /\ d \in Nat
      BY <1>5, <1>8 DEF Entries
    <2>2. e.f_offset = old.f_offset + l /\ e.inode = old.inode /\ e.f_op = "file" /\ e.active = 1
      BY <1>5 DEF Entries
    <2> QED  BY <1>7, <1>8, <2>1, <2>2 DEF EntryInOrder
  <1> HIDE DEF e, d
  <1> QED  BY <1>3, <1>6, <1>9, EntryStep DEF p

\* The name of an entry is a string of the directory, or empty after the last one.
LEMMA NameAtIs ==
    ASSUME NEW offset \in Nat
    PROVE  /\ NameAt(offset) \in Seq(STRING) /\ Len(NameAt(offset)) \in Nat
           /\ Len(NameAt(offset)) <= FILENAME_MAX
           /\ offset < Len(Directory) =>
                  offset + 1 \in DOMAIN Directory /\ NameAt(offset) = Directory[offset + 1].name
  <1>1. CASE offset < Len(Directory)
    <2>1. NameAt(offset) = Directory[offset + 1].name
      BY <1>1 DEF NameAt
    <2>2. offset + 1 \in DOMAIN Directory
      BY <1>1, DirectoryTypes
    <2> DEFINE name == Directory[offset + 1].name
    <2>3. name \in Seq(STRING) /\ Len(name) \in 1 .. FILENAME_MAX
      BY <2>2, DirectoryTypes
    <2>4. NameAt(offset) = name
      BY <2>1
    <2>5. Len(name) \in Nat /\ Len(name) <= FILENAME_MAX
      BY <2>3, NBytesAssumption
    <2> HIDE DEF name
    <2>6. NameAt(offset) \in Seq(STRING) /\ Len(NameAt(offset)) \in Nat
          /\ Len(NameAt(offset)) <= FILENAME_MAX
      BY <2>3, <2>4, <2>5
    <2> QED  BY <2>1, <2>2, <2>6
  <1>2. CASE ~(offset < Len(Directory))
    <2>1. NameAt(offset) = <<>>
      BY <1>2 DEF NameAt
    <2> QED  BY <1>2, <2>1, NBytesAssumption
  <1> QED  BY <1>1, <1>2

\* A directory read works on an open directory.
LEMMA DirStartInv == ASSUME IInv, NEW t \in Terminals, DirStart(t) PROVE IInv'
  <1>0. Types
    BY DEF IInv
  <1>1. PICK fd \in Fds, n \in NBytes :
            /\ fds[Running(t)][fd].active = 1 /\ fds[Running(t)][fd].f_op = "dir"
            /\ fname_length' = Min({Len(NameAt(fds[Running(t)][fd].f_offset)), FILENAME_MAX})
            /\ call' = [call EXCEPT ![t] = [None EXCEPT !.stage = "measured", !.fd = fd, !.n = n]]
    BY DEF DirStart
  <1>2. UNCHANGED <<chain, fds, arg, delivered, given>>
    BY DEF DirStart
  <1> DEFINE c == [None EXCEPT !.stage = "measured", !.fd = fd, !.n = n]
  <1>3. call' = [call EXCEPT ![t] = c]
    BY <1>1
  <1>4. c = [None EXCEPT !.stage = "measured", !.fd = fd, !.n = n]
    OBVIOUS
  <1> HIDE DEF c
  <1>5. c = [stage |-> "measured", fd |-> fd, name |-> <<>>, n |-> n, dentry |-> <<>>]
    BY <1>4 DEF None
  <1>6. c \in CallRecords
    <2>1. fd \in Fds \cup {NULL} /\ n \in Nat /\ <<>> \in Seq(STRING) /\ <<>> \in Seq(STRING \cup {NUL})
      BY NBytesAssumption
    <2> QED  BY <1>5, <2>1 DEF CallRecords
  <1>7. InCall(c, fds[Running(t)])
    BY <1>1, <1>5 DEF InCall
  <1>8. fname_length' \in Nat
    <2> DEFINE l == Len(NameAt(fds[Running(t)][fd].f_offset))
    <2>1. fds[Running(t)][fd].f_offset \in Nat
      BY <1>0, EntryTypes
    <2>2. l \in Nat /\ FILENAME_MAX \in Nat
      BY <2>1, NameAtIs, NBytesAssumption
    <2>3. fname_length' = Min({l, FILENAME_MAX})
      BY <1>1
    <2> HIDE DEF l
    <2> QED  BY <2>2, <2>3, MinOfTwo
  <1> QED  BY <1>2, <1>6, <1>3, <1>7, <1>8, CallStep

\* A string cut or filled with NULs.
LEMMA CutIs ==
    ASSUME NEW name \in Seq(STRING), NEW l \in Nat
    PROVE  /\ [i \in 1 .. l |-> CharAt(name, i)] \in Seq(STRING \cup {NUL})
           /\ l = Len(name) => [i \in 1 .. l |-> CharAt(name, i)] = name
  <1>1. \A i \in 1 .. l : CharAt(name, i) \in STRING \cup {NUL}
    <2> SUFFICES ASSUME NEW i \in 1 .. l PROVE CharAt(name, i) \in STRING \cup {NUL}
      OBVIOUS
    <2>1. CASE i <= Len(name)
      <3>1. i \in 1 .. Len(name) /\ CharAt(name, i) = name[i]
        BY <2>1 DEF CharAt
      <3> QED  BY <3>1
    <2>2. CASE ~(i <= Len(name))
      <3>1. CharAt(name, i) = NUL
        BY <2>2 DEF CharAt
      <3> QED  BY <3>1
    <2> QED  BY <2>1, <2>2
  <1>2. [i \in 1 .. l |-> CharAt(name, i)] \in [1 .. l -> STRING \cup {NUL}]
    BY <1>1
  <1>3. ASSUME l = Len(name) PROVE [i \in 1 .. l |-> CharAt(name, i)] = name
    <2>1. \A i \in 1 .. l : CharAt(name, i) = name[i]
      BY <1>3 DEF CharAt
    <2>2. name = [i \in 1 .. l |-> name[i]]
      BY <1>3
    <2> QED  BY <2>1, <2>2
  <1> QED  BY <1>2, <1>3

\* Copying a name changes only the call.
LEMMA DirCopyInv == ASSUME IInv, NEW t \in Terminals, DirCopy(t) PROVE IInv'
  <1>0. Types /\ CallsInProgress
    BY DEF IInv
  <1> DEFINE name == NameAt(fds[Running(t)][call[t].fd].f_offset)
             copy == [i \in 1 .. fname_length |-> CharAt(name, i)]
             c == [call[t] EXCEPT !.stage = "copied", !.dentry = copy]
  <1>1. /\ call[t].stage = "measured" /\ UNCHANGED <<chain, fds, fname_length, arg, delivered, given>>
        /\ call' = [call EXCEPT ![t].stage = "copied", ![t].dentry = copy]
    BY DEF DirCopy
  <1>2. call \in [Terminals -> CallRecords] /\ call[t] \in CallRecords /\ fname_length \in Nat
    BY <1>0 DEF Types
  <1>3. InCall(call[t], fds[Running(t)]) /\ call[t].fd \in Fds
    BY <1>0, <1>1 DEF CallsInProgress, InCall
  <1>4. fds[Running(t)][call[t].fd].f_offset \in Nat
    BY <1>0, <1>3, EntryTypes
  <1>5. name \in Seq(STRING)
    BY <1>4, NameAtIs
  <1> HIDE DEF name
  <1>6. copy \in Seq(STRING \cup {NUL})
    BY <1>2, <1>5, CutIs
  <1> HIDE DEF copy
  <1>7. c \in CallRecords /\ c.fd = call[t].fd /\ c.stage = "copied"
    BY <1>2, <1>6 DEF CallRecords
  <1>8. call' = [call EXCEPT ![t] = c]
    BY <1>1, <1>2
  <1> HIDE DEF c
  <1>9. InCall(c, fds[Running(t)])
    BY <1>1, <1>3, <1>7 DEF InCall
  <1>10. fname_length' \in Nat
    BY <1>1, <1>2
  <1> QED  BY <1>1, <1>7, <1>8, <1>9, <1>10, CallStep

\* A directory read takes the offset on by one name, at most to the last.
LEMMA DirReturnInv == ASSUME IInv, NEW t \in Terminals, DirReturn(t) PROVE IInv'
  <1>0. Types /\ CallsInProgress /\ InOrder
    BY DEF IInv
  <1> DEFINE p == Running(t)
             fd == call[t].fd
             old == fds[p][fd]
             d == delivered[p][fd]
  <1>1. /\ call[t].stage = "copied" /\ UNCHANGED <<chain, fname_length, arg, given>>
        /\ call' = [call EXCEPT ![t] = None]
    BY DEF DirReturn
  <1>2. fd \in Fds /\ old.active = 1 /\ old.f_op = "dir"
    BY <1>0, <1>1 DEF CallsInProgress, InCall
  <1>3. /\ fds \in [Pids -> [Fds -> Entries]] /\ delivered \in [Pids -> [Fds -> Nat]] /\ p \in Pids
    BY <1>0, Runs DEF Types
  <1>4. old \in Entries /\ d \in Nat /\ old.f_offset \in Nat /\ EntryInOrder(old, d)
    BY <1>0, <1>2, <1>3, EntryTypes DEF InOrder
  <1>5. CASE old.f_offset >= Len(Directory)
    <2>1. UNCHANGED <<fds, delivered>>
      BY <1>5 DEF DirReturn
    <2>2. fds' = [fds EXCEPT ![p][fd] = old] /\ delivered' = [delivered EXCEPT ![p][fd] = d]
      BY <1>2, <1>3, <2>1
    <2> HIDE DEF old, d, fd
    <2> QED  BY <1>1, <1>2, <1>4, <2>2, EntryStep
  <1>6. CASE ~(old.f_offset >= Len(Directory))
    <2> DEFINE e == [old EXCEPT !.f_offset = old.f_offset + 1]
    <2>1. /\ fds' = [fds EXCEPT ![p][fd].f_offset = @ + 1]
          /\ delivered' = [delivered EXCEPT ![p][fd] = @ + 1]
      BY <1>6 DEF DirReturn
    <2>2. fds' = [fds EXCEPT ![p][fd] = e] /\ delivered' = [delivered EXCEPT ![p][fd] = d + 1]
      BY <1>2, <1>3, <2>1
    <2> HIDE DEF old, d, fd
    <2>3. e \in Entries /\ e.f_offset = old.f_offset + 1 /\ e.f_op = "dir" /\ e.active = 1
      BY <1>2, <1>4 DEF Entries
    <2>4. old.f_offset = d
      BY <1>2, <1>4 DEF EntryInOrder
    <2> HIDE DEF e
    <2>5. EntryInOrder(e, d + 1)
      BY <1>4, <1>6, <2>3, <2>4, DirectoryTypes DEF EntryInOrder
    <2>6. d + 1 \in Nat
      BY <1>4
    <2> QED  BY <1>1, <1>2, <2>2, <2>3, <2>5, <2>6, EntryStep
  <1> QED  BY <1>5, <1>6

\* The slot of a new process is in no chain.
LEMMA FreeSlotIs ==
    ASSUME FreeSlots # {}
    PROVE  Min(FreeSlots) \in Pids /\ Min(FreeSlots) \notin InUse
  <1>1. PROCESS_MAX \in Nat
    BY PidsAssumption
  <1>2. Pids \subseteq Nat /\ FreeSlots \subseteq Pids /\ FreeSlots \cap InUse = {}
    BY <1>1 DEF Pids, FreeSlots
  <1>3. FreeSlots \subseteq Nat
    BY <1>2
  <1>4. Min(FreeSlots) \in FreeSlots
    BY <1>3, MinIs
  <1> QED  BY <1>2, <1>4

\* A chain gets longer by a slot.
LEMMA ChainGrows ==
    ASSUME Types, Apart, NEW t \in Terminals, NEW p \in Pids, p \notin InUse,
           chain' = [chain EXCEPT ![t] = Append(@, p)]
    PROVE  /\ chain' \in [Terminals -> Seq(Pids)] /\ \A u \in Terminals : chain'[u] # <<>>
           /\ \A u \in Terminals \ {t} : chain'[u] = chain[u]
           /\ Len(chain'[t]) = Len(chain[t]) + 1
           /\ Running(t)' = p /\ InUse' = InUse \cup {p} /\ Apart'
  <1>1. chain \in [Terminals -> Seq(Pids)] /\ chain[t] \in Seq(Pids)
    BY DEF Types
  <1>2. \A u \in Terminals : DOMAIN chain[u] = 1 .. Len(chain[u]) /\ Len(chain[u]) \in Nat
    BY Runs
  <1>3. chain'[t] = Append(chain[t], p) /\ \A u \in Terminals \ {t} : chain'[u] = chain[u]
    BY <1>1
  <1> DEFINE n == Len(chain[t]) + 1
  <1>4. /\ chain'[t] \in Seq(Pids) /\ Len(chain'[t]) = n /\ DOMAIN chain'[t] = 1 .. n
        /\ chain'[t][n] = p /\ \A i \in DOMAIN chain[t] : chain'[t][i] = chain[t][i]
    <2>1. chain'[t] \in Seq(Pids) /\ Len(chain'[t]) = n
      BY <1>1, <1>3, AppendProperties
    <2>2. chain'[t][n] = p /\ \A i \in 1 .. Len(chain[t]) : chain'[t][i] = chain[t][i]
      BY <1>1, <1>3, AppendProperties
    <2> QED  BY <1>2, <2>1, <2>2
  <1>5. n \in Nat /\ n >= 1 /\ n \notin DOMAIN chain[t] /\ 1 .. n = DOMAIN chain[t] \cup {n}
    BY <1>2
  <1> HIDE DEF n
  <1>6. chain' \in [Terminals -> Seq(Pids)]
    <2>1. chain' = [u \in Terminals |-> chain'[u]]
      BY <1>1
    <2>2. \A u \in Terminals : chain'[u] \in Seq(Pids)
      BY <1>1, <1>3, <1>4
    <2> QED  BY <2>1, <2>2
  <1>7. \A u \in Terminals : chain'[u] # <<>>
    <2> SUFFICES ASSUME NEW u \in Terminals PROVE chain'[u] # <<>>
      OBVIOUS
    <2>1. CASE u = t
      BY <1>4, <1>5, <2>1
    <2>2. CASE u # t
      BY <1>3, <2>2 DEF Types
    <2> QED  BY <2>1, <2>2
  <1>8. Running(t)' = p
    BY <1>4 DEF Running
  <1>9. \A q : q \in InUse' <=> q \in InUse \/ q = p
    <2>1. \A q : q \in InUse' <=> \E u \in Terminals : \E i \in DOMAIN chain'[u] : q = chain'[u][i]
      BY DEF InUse
    <2>2. ASSUME NEW q, q \in InUse' PROVE q \in InUse \/ q = p
      <3>1. PICK u \in Terminals : \E i \in DOMAIN chain'[u] : q = chain'[u][i]
        BY <2>1, <2>2
      <3>2. PICK i \in DOMAIN chain'[u] : q = chain'[u][i]
        BY <3>1
      <3>3. CASE u # t
        BY <1>3, <3>2, <3>3, InUseIs
      <3>4. CASE u = t /\ i = n
        BY <1>4, <3>2, <3>4
      <3>5. CASE u = t /\ i # n
        <4>1. i \in DOMAIN chain[t] /\ q = chain[t][i]
          BY <1>4, <1>5, <3>2, <3>5
        <4> QED  BY <4>1, InUseIs
      <3> QED  BY <3>3, <3>4, <3>5
    <2>3. ASSUME NEW q, q \in InUse \/ q = p PROVE q \in InUse'
      <3>1. CASE q = p
        BY <1>4, <1>5, <2>1, <3>1
      <3>2. CASE q \in InUse
        <4>1. PICK u \in Terminals : \E i \in DOMAIN chain[u] : q = chain[u][i]
          BY <3>2, InUseIs
        <4>2. PICK i \in DOMAIN chain[u] : q = chain[u][i]
          BY <4>1
        <4>3. i \in DOMAIN chain'[u] /\ q = chain'[u][i]
          BY <1>3, <1>4, <1>5, <4>2
        <4> QED  BY <2>1, <4>3
      <3> QED  BY <2>3, <3>1, <3>2
    <2> QED  BY <2>2, <2>3
  <1>10. Apart'
    <2> SUFFICES ASSUME NEW u \in Terminals, NEW v \in Terminals,
                        NEW i \in DOMAIN chain'[u], NEW j \in DOMAIN chain'[v],
                        chain'[u][i] = chain'[v][j]
                 PROVE  u = v /\ i = j
      BY DEF Apart
    <2>1. \A w \in Terminals : \A k : k \in DOMAIN chain'[w] =>
              \/ w = t /\ k = n /\ chain'[w][k] = p
              \/ k \in DOMAIN chain[w] /\ chain'[w][k] = chain[w][k] /\ chain[w][k] # p
      <3> SUFFICES ASSUME NEW w \in Terminals, NEW k, k \in DOMAIN chain'[w], ~(w = t /\ k = n)
                   PROVE  k \in DOMAIN chain[w] /\ chain'[w][k] = chain[w][k] /\ chain[w][k] # p
        BY <1>4
      <3>1. k \in DOMAIN chain[w] /\ chain'[w][k] = chain[w][k]
        BY <1>3, <1>4, <1>5
      <3>2. chain[w][k] \in InUse
        BY <3>1, InUseIs
      <3> QED  BY <3>1, <3>2
    <2>2. CASE chain'[u][i] = p
      BY <2>1, <2>2
    <2>3. CASE chain'[u][i] # p
      <3>1. /\ i \in DOMAIN chain[u] /\ chain'[u][i] = chain[u][i]
            /\ j \in DOMAIN chain[v] /\ chain'[v][j] = chain[v][j]
        BY <2>1, <2>3
      <3> QED  BY <3>1 DEF Apart
    <2> QED  BY <2>2, <2>3
  <1> QED  BY <1>3, <1>4, <1>6, <1>7, <1>8, <1>9, <1>10 DEF n

\* execute opens two standard entries in a slot that nobody has, and leaves the
\* others there as they are.
LEMMA ExecuteInv == ASSUME IInv, NEW t \in Terminals, Execute(t) PROVE IInv'
  <1>0. Types /\ Apart /\ InOrder /\ CallsInProgress
    BY DEF IInv
  <1> DEFINE p == Min(FreeSlots)
  <1>1. PICK c \in Commands :
            /\ fname_length' = Len(FileName(c.line))
            /\ chain' = [chain EXCEPT ![t] = Append(@, p)]
            /\ fds' = [fds EXCEPT ![p] = WithStandard(@)]
            /\ arg' = [arg EXCEPT ![p] = Argument(c.line)]
            /\ given' = [given EXCEPT ![p] = c.arg]
    BY DEF Execute
  <1>2. FreeSlots # {} /\ call[t] = None /\ UNCHANGED <<call, delivered>>
    BY DEF Execute, Calls
  <1>3. p \in Pids /\ p \notin InUse
    BY <1>2, FreeSlotIs
  <1> HIDE DEF p
  <1>4. /\ chain' \in [Terminals -> Seq(Pids)] /\ \A u \in Terminals : chain'[u] # <<>>
        /\ \A u \in Terminals \ {t} : chain'[u] = chain[u]
        /\ Apart'
    BY <1>0, <1>1, <1>3, ChainGrows
  <1>5. c.line \in Seq(STRING) /\ c.arg \in Seq(STRING)
    BY CommandsAssumption DEF IsText
  <1>6. /\ FileName(c.line) \in Seq(STRING)
        /\ Argument(c.line) \in Seq(STRING) /\ Len(Argument(c.line)) <= cmd_length
    BY <1>5, CommandTypes
  <1>7. fds \in [Pids -> [Fds -> Entries]] /\ arg \in [Pids -> Seq(STRING)]
        /\ given \in [Pids -> Seq(STRING)]
    BY <1>0 DEF Types
  <1> DEFINE table == WithStandard(fds[p])
  <1>8. /\ table \in [Fds -> Entries]
        /\ \A fd \in Fds : table[fd] = fds[p][fd] \/ table[fd].f_op \in {"stdin", "stdout"}
    BY <1>3, <1>7, WithStandardIs
  <1>9. fds' = [fds EXCEPT ![p] = table]
    BY <1>1
  <1> HIDE DEF table
  <1>10. /\ fds' \in [Pids -> [Fds -> Entries]] /\ fds'[p] = table
         /\ \A q \in Pids : q # p => fds'[q] = fds[q]
    BY <1>3, <1>7, <1>8, <1>9
  <1>11. Types'
    <2>1. arg' \in [Pids -> Seq(STRING)] /\ given' \in [Pids -> Seq(STRING)]
      BY <1>1, <1>3, <1>5, <1>6, <1>7
    <2>2. \A q \in Pids : Len(arg'[q]) <= cmd_length
      <3> SUFFICES ASSUME NEW q \in Pids PROVE Len(arg'[q]) <= cmd_length
        OBVIOUS
      <3>1. arg'[q] = IF q = p THEN Argument(c.line) ELSE arg[q]
        BY <1>1, <1>7
      <3> QED  BY <1>0, <1>6, <3>1 DEF Types
    <2>3. fname_length' \in Nat
      BY <1>1, <1>6
    <2> QED  BY <1>0, <1>2, <1>4, <1>10, <2>1, <2>2, <2>3 DEF Types
  <1>12. InOrder'
    <2> SUFFICES ASSUME NEW q \in Pids, NEW fd \in Fds
                 PROVE  EntryInOrder(fds'[q][fd], delivered'[q][fd])
      BY DEF InOrder, EntryInOrder
    <2>1. fds'[q][fd] = fds[q][fd] \/ fds'[q][fd].f_op \in {"stdin", "stdout"}
      BY <1>8, <1>10
    <2>2. EntryInOrder(fds[q][fd], delivered[q][fd])
      BY <1>0 DEF InOrder
    <2> QED  BY <1>2, <2>1, <2>2 DEF EntryInOrder
  <1>13. CallsInProgress'
    <2>1. InCall(call'[t], fds'[Running(t)'])
      BY <1>2, NoneIs DEF InCall
    <2> QED  BY <1>0, <1>2, <1>3, <1>4, <1>10, <2>1, OthersKeep
  <1> QED  BY <1>4, <1>11, <1>12, <1>13 DEF IInv

\* A chain gets shorter by its last slot.
LEMMA ChainShrinks ==
    ASSUME Types, Apart, NEW t \in Terminals, Len(chain[t]) > 1,
           chain' = [chain EXCEPT ![t] = SubSeq(@, 1, Len(@) - 1)]
    PROVE  /\ chain' \in [Terminals -> Seq(Pids)] /\ \A u \in Terminals : chain'[u] # <<>>
           /\ \A u \in Terminals \ {t} : chain'[u] = chain[u]
           /\ chain[t][Len(chain[t]) - 1] \in Pids
           /\ chain[t][Len(chain[t]) - 1] # Running(t)
           /\ \A q \in InUse' : q \in InUse /\ q # Running(t)
           /\ Apart'
  <1> DEFINE n == Len(chain[t])
  <1>1. chain \in [Terminals -> Seq(Pids)] /\ chain[t] \in Seq(Pids)
    BY DEF Types
  <1>2. \A u \in Terminals : DOMAIN chain[u] = 1 .. Len(chain[u]) /\ Len(chain[u]) \in Nat
    BY Runs
  <1>3. n \in Nat /\ n > 1 /\ n \in DOMAIN chain[t] /\ n - 1 \in DOMAIN chain[t]
        /\ DOMAIN chain[t] = 1 .. n /\ n \in Int /\ n - 1 \in Int
        /\ \A i \in DOMAIN chain[t] : chain[t][i] \in Pids
    BY <1>2, Runs
  <1>4. chain'[t] = SubSeq(chain[t], 1, n - 1) /\ \A u \in Terminals \ {t} : chain'[u] = chain[u]
    BY <1>1
  <1> HIDE DEF n
  <1>5. /\ chain'[t] \in Seq(Pids) /\ Len(chain'[t]) = n - 1 /\ DOMAIN chain'[t] = 1 .. n - 1
        /\ \A i \in 1 .. n - 1 : chain'[t][i] = chain[t][i]
    <2>1. \A i \in 1 .. n - 1 : chain[t][i] \in Pids
      BY <1>3
    <2>2. 1 \in Int /\ 1 <= n - 1 /\ (n - 1) - 1 + 1 = n - 1 /\ \A i \in 1 .. n - 1 : 1 + i - 1 = i
      BY <1>3
    <2>3. /\ SubSeq(chain[t], 1, n - 1) \in Seq(Pids)
          /\ Len(SubSeq(chain[t], 1, n - 1)) = n - 1
          /\ \A i \in 1 .. n - 1 : SubSeq(chain[t], 1, n - 1)[i] = chain[t][1 + i - 1]
      BY <1>3, <2>1, <2>2, SubSeqProperties
    <2>4. chain'[t] \in Seq(Pids) /\ Len(chain'[t]) = n - 1
      BY <1>4, <2>3
    <2>5. DOMAIN chain'[t] = 1 .. n - 1
      BY <2>4
    <2>6. \A i \in 1 .. n - 1 : chain'[t][i] = chain[t][i]
      BY <1>4, <2>2, <2>3
    <2> QED  BY <2>4, <2>5, <2>6
  <1>6. \A i \in 1 .. n - 1 : i \in DOMAIN chain[t] /\ i # n
    BY <1>3
  <1>7. chain' \in [Terminals -> Seq(Pids)]
    <2>1. chain' = [u \in Terminals |-> chain'[u]]
      BY <1>1
    <2>2. \A u \in Terminals : chain'[u] \in Seq(Pids)
      BY <1>1, <1>4, <1>5
    <2> QED  BY <2>1, <2>2
  <1>8. \A u \in Terminals : chain'[u] # <<>>
    <2> SUFFICES ASSUME NEW u \in Terminals PROVE chain'[u] # <<>>
      OBVIOUS
    <2>1. CASE u = t
      <3>1. Len(chain'[t]) # 0
        BY <1>3, <1>5
      <3>2. chain'[t] = <<>> => Len(chain'[t]) = 0
        OBVIOUS
      <3> QED  BY <2>1, <3>1, <3>2
    <2>2. CASE u # t
      BY <1>4, <2>2 DEF Types
    <2> QED  BY <2>1, <2>2
  <1>9. Running(t) = chain[t][n]
    BY DEF Running, n
  <1>10. chain[t][n - 1] \in Pids /\ chain[t][n - 1] # Running(t)
    <2>1. n - 1 # n
      BY <1>3
    <2> QED  BY <1>3, <1>9, <2>1 DEF Apart
  <1>11. \A w \in Terminals : \A k : k \in DOMAIN chain'[w] =>
              /\ k \in DOMAIN chain[w] /\ chain'[w][k] = chain[w][k]
              /\ ~(w = t /\ k = n)
    BY <1>4, <1>5, <1>6
  <1>12. ASSUME NEW q \in InUse' PROVE q \in InUse /\ q # Running(t)
    <2>1. PICK u \in Terminals : \E i \in DOMAIN chain'[u] : q = chain'[u][i]
      BY <1>12 DEF InUse
    <2>2. PICK i \in DOMAIN chain'[u] : q = chain'[u][i]
      BY <2>1
    <2>3. i \in DOMAIN chain[u] /\ q = chain[u][i] /\ ~(u = t /\ i = n)
      BY <1>11, <2>2
    <2>4. q \in InUse
      BY <2>3, InUseIs
    <2>5. q # Running(t)
      BY <1>3, <1>9, <2>3 DEF Apart
    <2> QED  BY <2>4, <2>5
  <1>13. Apart'
    <2> SUFFICES ASSUME NEW u \in Terminals, NEW v \in Terminals,
                        NEW i \in DOMAIN chain'[u], NEW j \in DOMAIN chain'[v],
                        chain'[u][i] = chain'[v][j]
                 PROVE  u = v /\ i = j
      BY DEF Apart
    <2>1. /\ i \in DOMAIN chain[u] /\ chain'[u][i] = chain[u][i]
          /\ j \in DOMAIN chain[v] /\ chain'[v][j] = chain[v][j]
      BY <1>11
    <2> QED  BY <2>1 DEF Apart
  <1> QED  BY <1>4, <1>7, <1>8, <1>10, <1>12, <1>13 DEF n

\* halt only closes entries, and the chain goes back to the parent.
LEMMA HaltInv == ASSUME IInv, NEW t \in Terminals, Halt(t) PROVE IInv'
  <1>0. Types /\ Apart /\ InOrder /\ CallsInProgress
    BY DEF IInv
  <1> DEFINE p == Running(t)
             parent == chain[t][Len(chain[t]) - 1]
             table == [fd \in Fds |->
                          IF fd >= 2 /\ \A e \in 2 .. fd : fds[p][e].active = 1
                          THEN [fds[p][fd] EXCEPT !.active = 0] ELSE fds[p][fd]]
  <1>1. /\ Len(chain[t]) > 1 /\ call[t] = None /\ UNCHANGED <<fname_length, call, delivered>>
        /\ chain' = [chain EXCEPT ![t] = SubSeq(@, 1, Len(@) - 1)]
        /\ fds' = [fds EXCEPT ![p] = table]
        /\ arg' = [arg EXCEPT ![parent] = <<>>]
        /\ given' = [given EXCEPT ![p] = <<>>, ![parent] = <<>>]
    BY DEF Halt, Calls
  <1>2. p \in Pids
    BY <1>0, Runs
  <1>3. /\ chain' \in [Terminals -> Seq(Pids)] /\ \A u \in Terminals : chain'[u] # <<>>
        /\ \A u \in Terminals \ {t} : chain'[u] = chain[u]
        /\ parent \in Pids /\ Apart'
    BY <1>0, <1>1, ChainShrinks
  <1>4. fds \in [Pids -> [Fds -> Entries]] /\ arg \in [Pids -> Seq(STRING)]
        /\ given \in [Pids -> Seq(STRING)]
    BY <1>0 DEF Types
  <1>5. /\ table \in [Fds -> Entries]
        /\ \A fd \in Fds : table[fd] = fds[p][fd] \/ table[fd].active = 0
    <2>1. \A fd \in Fds : fds[p][fd] \in Entries
      BY <1>2, <1>4
    <2>2. \A fd \in Fds : /\ [fds[p][fd] EXCEPT !.active = 0] \in Entries
                          /\ [fds[p][fd] EXCEPT !.active = 0].active = 0
      BY <2>1 DEF Entries
    <2> HIDE DEF p
    <2> QED  BY <2>1, <2>2
  <1> HIDE DEF p, parent, table
  <1>6. /\ fds' \in [Pids -> [Fds -> Entries]] /\ fds'[p] = table
        /\ \A q \in Pids : q # p => fds'[q] = fds[q]
    BY <1>1, <1>2, <1>4, <1>5
  <1>7. Types'
    <2>0. <<>> \in Seq(STRING) /\ Len(<<>>) <= cmd_length
      BY CommandAssumption
    <2>1. arg' \in [Pids -> Seq(STRING)] /\ given' \in [Pids -> Seq(STRING)]
      BY <1>1, <1>4, <2>0
    <2>2. \A q \in Pids : Len(arg'[q]) <= cmd_length
      <3> SUFFICES ASSUME NEW q \in Pids PROVE Len(arg'[q]) <= cmd_length
        OBVIOUS
      <3>1. arg'[q] = IF q = parent THEN <<>> ELSE arg[q]
        BY <1>1, <1>4
      <3> QED  BY <1>0, <2>0, <3>1 DEF Types
    <2> QED  BY <1>0, <1>1, <1>3, <1>6, <2>1, <2>2 DEF Types
  <1>8. InOrder'
    <2> SUFFICES ASSUME NEW q \in Pids, NEW fd \in Fds
                 PROVE  EntryInOrder(fds'[q][fd], delivered'[q][fd])
      BY DEF InOrder, EntryInOrder
    <2>1. fds'[q][fd] = fds[q][fd] \/ fds'[q][fd].active = 0
      BY <1>5, <1>6
    <2>2. EntryInOrder(fds[q][fd], delivered[q][fd])
      BY <1>0 DEF InOrder
    <2> QED  BY <1>1, <2>1, <2>2 DEF EntryInOrder
  <1>9. CallsInProgress'
    <2>1. InCall(call'[t], fds'[Running(t)'])
      BY <1>1, NoneIs DEF InCall
    <2>2. \A u \in Terminals \ {t} : chain'[u] = chain[u] /\ call'[u] = call[u]
      BY <1>1, <1>3
    <2> QED  BY <1>0, <1>6, <2>1, <2>2, OthersKeep DEF p
  <1> QED  BY <1>3, <1>7, <1>8, <1>9 DEF IInv

\* Every step keeps the invariant.
LEMMA NextInv == IInv /\ [Next]_vars => IInv'
  <1> SUFFICES ASSUME IInv, [Next]_vars PROVE IInv'
    OBVIOUS
  <1>1. ASSUME NEW t \in Terminals,
               \/ Execute(t) \/ ExecuteFails(t) \/ Halt(t) \/ getargs(t) \/ OpenStart(t)
               \/ OpenFind(t) \/ Close(t) \/ ReadFile(t) \/ DirStart(t) \/ DirCopy(t) \/ DirReturn(t)
        PROVE  IInv'
    BY <1>1, ExecuteInv, ExecuteFailsInv, HaltInv, getargsInv, OpenStartInv, OpenFindInv,
       CloseInv, ReadFileInv, DirStartInv, DirCopyInv, DirReturnInv
  <1>2. CASE UNCHANGED vars
    <2>1. UNCHANGED <<chain, fds, fname_length, call, arg, delivered, given>>
      BY <1>2 DEF vars
    <2> QED  BY <2>1 DEF IInv, Types, Apart, InOrder, EntryInOrder, CallsInProgress, InCall, Running
  <1> QED  BY <1>1, <1>2 DEF Next

\* The invariant holds in every state, however the calls of the terminals overlap.
THEOREM Invariance == Spec => []IInv
  BY InitInv, NextInv, PTL DEF Spec

\* Every variable of Files keeps its type: no descriptor out of the table, no
\* argument longer than its buffer in the PCB.
THEOREM TypeCorrect == Spec => []TypeOK
  <1>1. IInv => TypeOK
    BY DEF IInv, Types, TypeOK, Entries, CallRecords
  <1> QED  BY <1>1, Invariance, PTL

\* Successive reads of an open file or directory continue where the one before
\* ended, and never pass the end, whoever used the slot and the entry before.
THEOREM OffsetsCorrect == Spec => []ReadsInOrder
  <1>1. IInv => ReadsInOrder
    <2> SUFFICES ASSUME IInv, NEW p \in InUse, NEW fd \in Fds,
                        fds[p][fd].active = 1, fds[p][fd].f_op \in {"dir", "file"}
                 PROVE  /\ fds[p][fd].f_offset = delivered[p][fd]
                        /\ fds[p][fd].f_offset <= IF fds[p][fd].f_op = "file"
                                                  THEN length_in_b[fds[p][fd].inode]
                                                  ELSE Len(Directory)
      BY DEF ReadsInOrder
    <2>1. p \in Pids
      <3>1. PICK t \in Terminals : \E i \in DOMAIN chain[t] : p = chain[t][i]
        BY InUseIs
      <3> QED  BY <3>1, Runs DEF IInv
    <2>2. EntryInOrder(fds[p][fd], delivered[p][fd])
      BY <2>1 DEF IInv, InOrder
    <2> QED  BY <2>2 DEF EntryInOrder
  <1> QED  BY <1>1, Invariance, PTL

----------------------------------------------------------------------------
(***************************************************************************)
(* What one process does to another.                                       *)
(***************************************************************************)
\* While a process waits for its child its open files stay as they are, and its
\* argument until the child ends: every call works on the table of the process
\* that runs, and execute takes a slot that nobody has.
THEOREM WaitingKept == Spec => WaitingUntouched
  <1>1. ASSUME IInv, [Next]_vars, NEW p \in Waiting
        PROVE  fds'[p] = fds[p] /\ arg'[p] \in {arg[p], <<>>}
    <2>0. Types /\ Apart
      BY <1>1 DEF IInv
    <2>1. /\ fds \in [Pids -> [Fds -> Entries]] /\ arg \in [Pids -> Seq(STRING)]
          /\ delivered \in [Pids -> [Fds -> Nat]]
      BY <2>0 DEF Types
    <2>2. p \in Pids /\ p \in InUse /\ \A t \in Terminals : p # Running(t)
      <3>1. Terminals # {}
        BY DEF Waiting
      <3>2. p \in InUse /\ \A t \in Terminals : p # Running(t)
        BY <2>0, <3>1, RunningApart
      <3>3. PICK t \in Terminals : \E i \in DOMAIN chain[t] : p = chain[t][i]
        BY <3>2, InUseIs
      <3> QED  BY <2>0, <3>2, <3>3, Runs
    <2>3. CASE UNCHANGED vars
      BY <2>3 DEF vars
    <2>4. ASSUME NEW t \in Terminals, Execute(t)
          PROVE  fds'[p] = fds[p] /\ arg'[p] \in {arg[p], <<>>}
      <3> DEFINE q == Min(FreeSlots)
      <3>1. PICK c \in Commands : /\ fds' = [fds EXCEPT ![q] = WithStandard(@)]
                                  /\ arg' = [arg EXCEPT ![q] = Argument(c.line)]
        BY <2>4 DEF Execute
      <3>2. q \notin InUse
        BY <2>4, FreeSlotIs DEF Execute
      <3> HIDE DEF q
      <3> QED  BY <2>1, <2>2, <3>1, <3>2
    <2>5. ASSUME NEW t \in Terminals, Halt(t)
          PROVE  fds'[p] = fds[p] /\ arg'[p] \in {arg[p], <<>>}
      <3> DEFINE q == Running(t)
                 parent == chain[t][Len(chain[t]) - 1]
                 table == [fd \in Fds |->
                              IF fd >= 2 /\ \A e \in 2 .. fd : fds[q][e].active = 1
                              THEN [fds[q][fd] EXCEPT !.active = 0] ELSE fds[q][fd]]
      <3>1. fds' = [fds EXCEPT ![q] = table] /\ arg' = [arg EXCEPT ![parent] = <<>>]
        BY <2>5 DEF Halt
      <3>2. p # q
        BY <2>2
      <3> HIDE DEF q, parent, table
      <3> QED  BY <2>1, <2>2, <3>1, <3>2
    <2>6. ASSUME NEW t \in Terminals, ExecuteFails(t) \/ getargs(t) \/ OpenStart(t) \/ DirStart(t) \/ DirCopy(t)
          PROVE  fds'[p] = fds[p] /\ arg'[p] \in {arg[p], <<>>}
      BY <2>6 DEF ExecuteFails, getargs, OpenStart, DirStart, DirCopy
    <2>7. ASSUME NEW t \in Terminals, OpenFind(t) \/ Close(t) \/ ReadFile(t) \/ DirReturn(t)
          PROVE  fds'[p] = fds[p] /\ arg'[p] \in {arg[p], <<>>}
      <3>1. arg' = arg
        BY <2>7 DEF OpenFind, Close, ReadFile, DirReturn
      <3>2. p # Running(t)
        BY <2>2
      <3>3. fds'[p] = fds[p]
        <4>1. CASE OpenFind(t)
          <5> DEFINE found == Found(call[t].name, fname_length)
          <5>1. fds' = fds \/ fds' = [fds EXCEPT ![Running(t)][call[t].fd] =
                                         Opened(@, Directory[Min(found)])]
            BY <4>1 DEF OpenFind
          <5> HIDE DEF found
          <5> QED  BY <2>1, <2>2, <3>2, <5>1
        <4>2. CASE Close(t)
          <5>1. PICK fd \in 2 .. FD_MAX : fds' = [fds EXCEPT ![Running(t)][fd].active = 0]
            BY <4>2 DEF Close
          <5> QED  BY <2>1, <2>2, <3>2, <5>1
        <4>3. CASE ReadFile(t)
          <5> DEFINE Size(fd, n) == Len(Data(fds[Running(t)][fd].inode, fds[Running(t)][fd].f_offset, n).bytes)
          <5>1. PICK fd \in Fds, n \in NBytes :
                    fds' = [fds EXCEPT ![Running(t)][fd].f_offset = @ + Size(fd, n)]
            BY <4>3 DEF ReadFile
          <5> HIDE DEF Size
          <5> QED  BY <2>1, <2>2, <3>2, <5>1
        <4>4. CASE DirReturn(t)
          <5>1. fds' = fds \/ fds' = [fds EXCEPT ![Running(t)][call[t].fd].f_offset = @ + 1]
            BY <4>4 DEF DirReturn
          <5> QED  BY <2>1, <2>2, <3>2, <5>1
        <4> QED  BY <2>7, <4>1, <4>2, <4>3, <4>4
      <3> QED  BY <3>1, <3>3
    <2> QED  BY <1>1, <2>3, <2>4, <2>5, <2>6, <2>7 DEF Next
  <1>2. IInv /\ [Next]_vars =>
            [\A p \in Waiting : fds'[p] = fds[p] /\ arg'[p] \in {arg[p], <<>>}]_vars
    BY <1>1
  <1> QED  BY <1>2, Invariance, PTL DEF Spec, WaitingUntouched

----------------------------------------------------------------------------
(***************************************************************************)
(* The bytes of files.                                                     *)
(***************************************************************************)
\* What ends in a step: nothing, a read of a file from an offset in it, getargs
\* or a directory read.
LEMMA ResultKinds ==
    ASSUME IInv, Next
    PROVE  \/ result' = NoResult
           \/ \E inode \in DOMAIN length_in_b, offset, n \in Nat :
                  offset <= length_in_b[inode] /\ result' = Data(inode, offset, n)
           \/ \E t \in Terminals : getargs(t) \/ DirReturn(t)
  <1>0. Types /\ InOrder
    BY DEF IInv
  <1>1. ASSUME NEW t \in Terminals, Execute(t)
        PROVE  \E inode \in DOMAIN length_in_b, offset, n \in Nat :
                   offset <= length_in_b[inode] /\ result' = Data(inode, offset, n)
    <2> DEFINE found(c) == Found(FileName(c.line), Len(FileName(c.line)))
    <2>1. PICK c \in Commands : /\ IsProgram(FileName(c.line))
                                /\ result' = Data(Directory[Min(found(c))].inode, 0, PAGE)
      BY <1>1 DEF Execute
    <2>2. found(c) # {} /\ Directory[Min(found(c))].type = "file"
      BY <2>1 DEF IsProgram
    <2>3. Min(found(c)) \in DOMAIN Directory
      BY <2>2, FoundEntry
    <2> HIDE DEF found
    <2> DEFINE inode == Directory[Min(found(c))].inode
    <2>4. inode \in DOMAIN length_in_b
      BY <2>2, <2>3, DirectoryTypes
    <2>5. result' = Data(inode, 0, PAGE)
      BY <2>1
    <2> HIDE DEF inode
    <2>6. 0 <= length_in_b[inode] /\ 0 \in Nat /\ PAGE \in Nat
      BY <2>4, InodeAssumption DEF PAGE
    <2> QED  BY <2>4, <2>5, <2>6
  <1>2. ASSUME NEW t \in Terminals, ReadFile(t)
        PROVE  \E inode \in DOMAIN length_in_b, offset, n \in Nat :
                   offset <= length_in_b[inode] /\ result' = Data(inode, offset, n)
    <2> DEFINE p == Running(t)
    <2>1. PICK fd \in Fds, n \in NBytes :
              /\ fds[p][fd].active = 1 /\ fds[p][fd].f_op = "file"
              /\ result' = Data(fds[p][fd].inode, fds[p][fd].f_offset, n)
      BY <1>2 DEF ReadFile
    <2>2. p \in Pids
      BY <1>0, Runs
    <2>3. EntryInOrder(fds[p][fd], delivered[p][fd]) /\ fds[p][fd].f_offset \in Nat /\ n \in Nat
      BY <1>0, <2>2, EntryTypes, NBytesAssumption DEF InOrder
    <2> HIDE DEF p
    <2>4. fds[p][fd].inode \in DOMAIN length_in_b /\ fds[p][fd].f_offset <= length_in_b[fds[p][fd].inode]
      BY <2>1, <2>3 DEF EntryInOrder
    <2> QED  BY <2>1, <2>3, <2>4
  <1>3. ASSUME NEW t \in Terminals,
               ExecuteFails(t) \/ Halt(t) \/ OpenStart(t) \/ OpenFind(t) \/ Close(t) \/ DirStart(t) \/ DirCopy(t)
        PROVE  result' = NoResult
    <2>1. CASE ExecuteFails(t)
      BY <2>1 DEF ExecuteFails
    <2>2. CASE Halt(t)
      BY <2>2 DEF Halt
    <2>3. CASE OpenStart(t) \/ DirStart(t)
      BY <2>3 DEF OpenStart, DirStart
    <2>4. CASE OpenFind(t)
      BY <2>4 DEF OpenFind
    <2>5. CASE Close(t) \/ DirCopy(t)
      BY <2>5 DEF Close, DirCopy
    <2> QED  BY <1>3, <2>1, <2>2, <2>3, <2>4, <2>5
  <1> QED  BY <1>1, <1>2, <1>3 DEF Next

\* What getargs and a directory read return is no data of a file.
LEMMA OtherKinds ==
    ASSUME NEW t \in Terminals
    PROVE  /\ NoResult.what = "nothing"
           /\ getargs(t) => result'.what = "args"
           /\ DirReturn(t) => result'.what \in {"name", "nothing"}
  <1>1. NoResult.what = "nothing"
    BY DEF NoResult
  <1>2. ASSUME getargs(t) PROVE result'.what = "args"
    BY <1>2 DEF getargs
  <1>3. ASSUME DirReturn(t) PROVE result'.what \in {"name", "nothing"}
    BY <1>1, <1>3 DEF DirReturn
  <1> QED  BY <1>1, <1>2, <1>3

\* The length of a read is the smaller of what is asked for and what is left.
LEMMA DataIs ==
    ASSUME NEW inode \in DOMAIN length_in_b, NEW offset \in Nat, NEW n \in Nat,
           offset <= length_in_b[inode], Contiguous(inode) \/ offset % block_size = 0
    PROVE  read_data(inode, offset, n) =
               [k \in 1 .. Min({n, length_in_b[inode] - offset}) |-> ByteOf(inode, offset + k - 1)]
  <1> DEFINE left == length_in_b[inode] - offset
  <1>1. length_in_b[inode] \in Nat /\ left \in Nat
    BY InodeAssumption
  <1>2. Min({n, left}) = IF n <= left THEN n ELSE left
    <2> HIDE DEF left
    <2> QED  BY <1>1, MinOfTwo
  <1>3. ReadSize(inode, offset, n) = IF n <= left THEN n ELSE left
    BY <1>1 DEF ReadSize, Shrunk
  <1>4. read_data(inode, offset, n) =
            [k \in 1 .. ReadSize(inode, offset, n) |-> ByteOf(inode, offset + k - 1)]
    BY ReadsTheFile
  <1> QED  BY <1>2, <1>3, <1>4

\* A read that is right, by its own account of what was asked.
Right(r) ==
    r.bytes = [k \in 1 .. Min({r.n, length_in_b[r.inode] - r.offset}) |->
                  ByteOf(r.inode, r.offset + k - 1)]

\* What read_data returns is right, of a contiguous file or from the start of a block.
LEMMA DataRight ==
    ASSUME NEW inode \in DOMAIN length_in_b, NEW offset \in Nat, NEW n \in Nat,
           offset <= length_in_b[inode], Contiguous(inode) \/ offset % block_size = 0
    PROVE  Right(Data(inode, offset, n))
  <1> DEFINE r == Data(inode, offset, n)
  <1>1. r.inode = inode /\ r.offset = offset /\ r.n = n /\ r.bytes = read_data(inode, offset, n)
    BY DEF Data
  <1> HIDE DEF r
  <1>2. r.bytes = [k \in 1 .. Min({n, length_in_b[inode] - offset}) |-> ByteOf(inode, offset + k - 1)]
    BY <1>1, DataIs
  <1>3. Right(r)
    BY <1>1, <1>2 DEF Right
  <1> QED  BY <1>3 DEF r

\* A read that starts with a block returns the bytes of the file, wherever its
\* blocks are: execute always loads the program as it is in the image.
THEOREM LoadsWhole == Spec => [](result.what = "data" /\ result.offset % block_size = 0 => DataWhole)
  <1> DEFINE Whole == result.what = "data" /\ result.offset % block_size = 0 => Right(result)
  <1>1. Init => Whole
    BY OtherKinds DEF Init, NoResult
  <1>2. ASSUME IInv, Whole, [Next]_vars PROVE Whole'
    <2>1. CASE UNCHANGED vars
      <3>1. result' = result
        BY <2>1 DEF vars
      <3> QED  BY <1>2, <3>1 DEF Right
    <2>2. CASE Next
      <3>1. CASE result' = NoResult
        BY <3>1 DEF NoResult
      <3>2. CASE \E t \in Terminals : getargs(t) \/ DirReturn(t)
        BY <3>2, OtherKinds
      <3>3. CASE \E inode \in DOMAIN length_in_b, offset, n \in Nat :
                     offset <= length_in_b[inode] /\ result' = Data(inode, offset, n)
        <4>1. PICK inode \in DOMAIN length_in_b, offset \in Nat, n \in Nat :
                  offset <= length_in_b[inode] /\ result' = Data(inode, offset, n)
          BY <3>3
        <4>2. result'.offset = offset
          BY <4>1 DEF Data
        <4>3. offset % block_size = 0 => Right(result')
          BY <4>1, DataRight
        <4> QED  BY <4>2, <4>3 DEF Right
      <3> QED  BY <1>2, <2>2, <3>1, <3>2, <3>3, ResultKinds
    <2> QED  BY <1>2, <2>1, <2>2
  <1>3. Whole => (result.what = "data" /\ result.offset % block_size = 0 => DataWhole)
    BY DEF DataWhole, Right
  <1> QED  BY <1>1, <1>2, <1>3, Invariance, PTL DEF Spec

\* Where the blocks of every file are adjacent, every read returns the bytes of
\* its file, in order, as many as were asked for and are left.
THEOREM DataCorrect ==
    ASSUME \A inode \in DOMAIN length_in_b : Contiguous(inode)
    PROVE  Spec => []DataWhole
  <1> DEFINE Whole == result.what = "data" => Right(result)
  <1>1. Init => Whole
    BY OtherKinds DEF Init, NoResult
  <1>2. ASSUME IInv, Whole, [Next]_vars PROVE Whole'
    <2>1. CASE UNCHANGED vars
      <3>1. result' = result
        BY <2>1 DEF vars
      <3> QED  BY <1>2, <3>1 DEF Right
    <2>2. CASE Next
      <3>1. CASE result' = NoResult
        BY <3>1 DEF NoResult
      <3>2. CASE \E t \in Terminals : getargs(t) \/ DirReturn(t)
        BY <3>2, OtherKinds
      <3>3. CASE \E inode \in DOMAIN length_in_b, offset, n \in Nat :
                     offset <= length_in_b[inode] /\ result' = Data(inode, offset, n)
        <4>1. PICK inode \in DOMAIN length_in_b, offset \in Nat, n \in Nat :
                  offset <= length_in_b[inode] /\ result' = Data(inode, offset, n)
          BY <3>3
        <4>2. Right(result')
          BY <4>1, DataRight
        <4> QED  BY <4>2 DEF Right
      <3> QED  BY <1>2, <2>2, <3>1, <3>2, <3>3, ResultKinds
    <2> QED  BY <1>2, <2>1, <2>2
  <1>3. Whole => DataWhole
    BY DEF DataWhole, Right
  <1> QED  BY <1>1, <1>2, <1>3, Invariance, PTL DEF Spec

----------------------------------------------------------------------------
(***************************************************************************)
(* Arguments.  The PCB of a process in use holds what it was started with, *)
(* until halt of a child has cleared it.  What is left in the PCB of a     *)
(* slot that is free is written over by the next execute.                  *)
(***************************************************************************)
\* No command is cut.  A line of the terminal driver (MAX_BUF_LENGTH) never is.
WholeLines == \A c \in Commands : Len(c.line) <= cmd_length

OwnArguments == \A p \in InUse : arg[p] = given[p]

\* execute fills the argument of the slot it takes, halt clears the parent's, and
\* no other step touches one.
LEMMA OwnArgumentsStep ==
    ASSUME WholeLines, IInv, OwnArguments, [Next]_vars
    PROVE  OwnArguments'
  <1>0. Types /\ Apart
    BY DEF IInv
  <1>1. arg \in [Pids -> Seq(STRING)] /\ given \in [Pids -> Seq(STRING)]
    BY <1>0 DEF Types
  <1>2. \A p \in InUse : p \in Pids
    <2> SUFFICES ASSUME NEW p \in InUse PROVE p \in Pids
      OBVIOUS
    <2>1. PICK t \in Terminals : \E i \in DOMAIN chain[t] : p = chain[t][i]
      BY InUseIs
    <2> QED  BY <1>0, <2>1, Runs
  <1>3. ASSUME NEW t \in Terminals, Execute(t) PROVE OwnArguments'
    <2> DEFINE p == Min(FreeSlots)
    <2>1. PICK c \in Commands :
              /\ WellFormed(c.line) /\ chain' = [chain EXCEPT ![t] = Append(@, p)]
              /\ arg' = [arg EXCEPT ![p] = Argument(c.line)]
              /\ given' = [given EXCEPT ![p] = c.arg]
      BY <1>3 DEF Execute
    <2>2. p \in Pids /\ p \notin InUse
      BY <1>3, FreeSlotIs DEF Execute
    <2> HIDE DEF p
    <2>3. InUse' = InUse \cup {p}
      BY <1>0, <2>1, <2>2, ChainGrows
    <2>4. Argument(c.line) = c.arg
      <3>1. /\ c.line \in Seq(STRING) /\ c.name \in Seq(STRING) /\ c.arg \in Seq(STRING)
            /\ Consists(c.line, c.name, c.arg) /\ Len(c.line) <= cmd_length
        BY CommandsAssumption DEF IsText, WholeLines
      <3> QED  BY <2>1, <3>1, CommandTakenApart
    <2>5. arg'[p] = given'[p] /\ \A q \in Pids : q # p => arg'[q] = arg[q] /\ given'[q] = given[q]
      BY <1>1, <2>1, <2>2, <2>4
    <2> SUFFICES ASSUME NEW q \in InUse' PROVE arg'[q] = given'[q]
      BY DEF OwnArguments
    <2>6. q = p \/ (q \in InUse /\ q # p /\ q \in Pids)
      BY <1>2, <2>3
    <2> QED  BY <2>5, <2>6 DEF OwnArguments
  <1>4. ASSUME NEW t \in Terminals, Halt(t) PROVE OwnArguments'
    <2> DEFINE p == Running(t)
               parent == chain[t][Len(chain[t]) - 1]
    <2>1. /\ Len(chain[t]) > 1
          /\ chain' = [chain EXCEPT ![t] = SubSeq(@, 1, Len(@) - 1)]
          /\ arg' = [arg EXCEPT ![parent] = <<>>]
          /\ given' = [given EXCEPT ![p] = <<>>, ![parent] = <<>>]
      BY <1>4 DEF Halt
    <2>2. parent \in Pids /\ \A q \in InUse' : q \in InUse /\ q # p
      BY <1>0, <2>1, ChainShrinks
    <2> HIDE DEF p, parent
    <2> SUFFICES ASSUME NEW q \in InUse' PROVE arg'[q] = given'[q]
      BY DEF OwnArguments
    <2>3. q \in InUse /\ q # p /\ q \in Pids
      BY <1>2, <2>2
    <2>4. CASE q = parent
      BY <1>1, <2>1, <2>3, <2>4
    <2>5. CASE q # parent
      BY <1>1, <2>1, <2>3, <2>5 DEF OwnArguments
    <2> QED  BY <2>4, <2>5
  <1>5. ASSUME UNCHANGED <<chain, arg, given>> PROVE OwnArguments'
    BY <1>5 DEF OwnArguments, InUse
  <1>6. ASSUME NEW t \in Terminals,
               \/ ExecuteFails(t) \/ getargs(t) \/ OpenStart(t) \/ OpenFind(t) \/ Close(t)
               \/ ReadFile(t) \/ DirStart(t) \/ DirCopy(t) \/ DirReturn(t)
        PROVE  UNCHANGED <<chain, arg, given>>
    <2>1. CASE ExecuteFails(t) \/ getargs(t) \/ OpenStart(t) \/ Close(t)
      BY <2>1 DEF ExecuteFails, getargs, OpenStart, Close
    <2>2. CASE OpenFind(t)
      BY <2>2 DEF OpenFind
    <2>3. CASE ReadFile(t)
      BY <2>3 DEF ReadFile
    <2>4. CASE DirStart(t) \/ DirCopy(t)
      BY <2>4 DEF DirStart, DirCopy
    <2>5. CASE DirReturn(t)
      BY <2>5 DEF DirReturn
    <2> QED  BY <1>6, <2>1, <2>2, <2>3, <2>4, <2>5
  <1>7. CASE UNCHANGED vars
    BY <1>5, <1>7 DEF vars
  <1> QED  BY <1>3, <1>4, <1>5, <1>6, <1>7 DEF Next

\* The start of a sequence.
LEMMA PrefixIs ==
    ASSUME NEW S, NEW s \in Seq(S), NEW m \in Nat, m <= Len(s)
    PROVE  /\ SubSeq(s, 1, m) \in Seq(S) /\ Len(SubSeq(s, 1, m)) = m
           /\ \A i \in 1 .. m : SubSeq(s, 1, m)[i] = s[i]
  <1>1. 1 \in Int /\ m \in Int /\ Len(s) \in Nat
    OBVIOUS
  <1>2. \A i \in 1 .. m : s[i] \in S
    BY <1>1
  <1>3. /\ SubSeq(s, 1, m) \in Seq(S)
        /\ Len(SubSeq(s, 1, m)) = IF 1 <= m THEN m - 1 + 1 ELSE 0
        /\ \A i \in 1 .. m - 1 + 1 : SubSeq(s, 1, m)[i] = s[1 + i - 1]
    BY ONLY <1>1, <1>2, SubSeqProperties
  <1>4. m - 1 + 1 = m /\ (IF 1 <= m THEN m - 1 + 1 ELSE 0) = m /\ \A i \in 1 .. m : 1 + i - 1 = i
    BY <1>1
  <1> QED  BY <1>3, <1>4

\* Sequences that agree up to m have the same start.
LEMMA SamePrefix ==
    ASSUME NEW S, NEW s \in Seq(S), NEW t \in Seq(S), NEW m \in Nat, m <= Len(s), m <= Len(t),
           \A i \in 1 .. m : s[i] = t[i]
    PROVE  SubSeq(s, 1, m) = SubSeq(t, 1, m)
  <1> DEFINE u == SubSeq(s, 1, m)
             v == SubSeq(t, 1, m)
  <1>1. u \in Seq(S) /\ Len(u) = m /\ \A i \in 1 .. m : u[i] = s[i]
    BY PrefixIs
  <1>2. v \in Seq(S) /\ Len(v) = m /\ \A i \in 1 .. m : v[i] = t[i]
    BY PrefixIs
  <1> HIDE DEF u, v
  <1>3. Len(u) = Len(v) /\ \A i \in 1 .. Len(u) : u[i] = v[i]
    BY <1>1, <1>2
  <1>4. u = v
    BY ONLY <1>1, <1>2, <1>3, SeqEqual, Zenon
  <1> QED  BY <1>4 DEF u, v

\* What getargs copies of the argument a when n bytes are asked for.
Copy(a, n) ==
    IF Len(a) = 0 \/ n = 0 THEN <<>>
    ELSE IF Len(a) <= n THEN Append(a, NUL) ELSE SubSeq(a, 1, n)

\* It is the start of the argument, and empty only if one of them is.
LEMMA ArgumentCopied ==
    ASSUME NEW a \in Seq(STRING), NEW n \in Nat
    PROVE  /\ Copy(a, n) = <<>> <=> a = <<>> \/ n = 0
           /\ SubSeq(Copy(a, n), 1, Min({n, Len(a)})) = SubSeq(a, 1, Min({n, Len(a)}))
  <1> DEFINE Chars == STRING \cup {NUL}
             m == Min({n, Len(a)})
             bytes == Copy(a, n)
  <1>1. Len(a) \in Nat /\ (Len(a) = 0 <=> a = <<>>) /\ a \in Seq(Chars) /\ NUL \in Chars
    OBVIOUS
  <1>2. m = IF n <= Len(a) THEN n ELSE Len(a)
    BY <1>1, MinOfTwo
  <1>3. bytes = IF Len(a) = 0 \/ n = 0 THEN <<>>
                ELSE IF Len(a) <= n THEN Append(a, NUL) ELSE SubSeq(a, 1, n)
    BY DEF Copy
  <1> SUFFICES (bytes = <<>> <=> a = <<>> \/ n = 0) /\ SubSeq(bytes, 1, m) = SubSeq(a, 1, m)
    OBVIOUS
  <1> HIDE DEF Chars, m, bytes
  <1>4. CASE Len(a) = 0 \/ n = 0
    <2>1. bytes = <<>> /\ m = 0
      BY <1>1, <1>2, <1>3, <1>4
    <2>2. SubSeq(bytes, 1, 0) = <<>> /\ SubSeq(a, 1, 0) = <<>>
      BY SubSeqEmpty
    <2> QED  BY <1>1, <1>4, <2>1, <2>2
  <1>5. ASSUME ~(Len(a) = 0 \/ n = 0), bytes \in Seq(Chars), Len(bytes) >= m,
               \A i \in 1 .. m : bytes[i] = a[i]
        PROVE  /\ bytes = <<>> <=> a = <<>> \/ n = 0
               /\ SubSeq(bytes, 1, m) = SubSeq(a, 1, m)
    <2>1. m \in Nat /\ m >= 1 /\ m <= Len(a) /\ m <= Len(bytes)
      BY <1>1, <1>2, <1>5
    <2>2. bytes # <<>>
      <3>1. Len(<<>>) = 0
        OBVIOUS
      <3>2. Len(bytes) \in Nat
        BY <1>5
      <3> QED  BY <2>1, <3>1, <3>2
    <2>3. SubSeq(bytes, 1, m) = SubSeq(a, 1, m)
      BY ONLY <1>1, <1>5, <2>1, SamePrefix, Zenon
    <2> QED  BY <1>1, <1>5, <2>2, <2>3
  <1>6. CASE ~(Len(a) = 0 \/ n = 0) /\ Len(a) <= n
    <2>1. m = Len(a) /\ bytes = Append(a, NUL)
      BY <1>1, <1>2, <1>3, <1>6
    <2>2. /\ Append(a, NUL) \in Seq(Chars) /\ Len(Append(a, NUL)) = Len(a) + 1
          /\ \A i \in 1 .. Len(a) : Append(a, NUL)[i] = a[i]
      BY <1>1, AppendProperties
    <2>3. bytes \in Seq(Chars) /\ Len(bytes) = Len(a) + 1 /\ \A i \in 1 .. m : bytes[i] = a[i]
      BY <2>1, <2>2
    <2>4. Len(bytes) >= m
      <3>1. Len(bytes) = Len(a) + 1 /\ m = Len(a) /\ Len(a) \in Nat
        BY <1>1, <2>1, <2>3
      <3> QED  BY ONLY <3>1
    <2> QED  BY <1>5, <1>6, <2>3, <2>4
  <1>7. CASE ~(Len(a) = 0 \/ n = 0) /\ ~(Len(a) <= n)
    <2>1. m = n /\ bytes = SubSeq(a, 1, n) /\ n <= Len(a)
      BY <1>1, <1>2, <1>3, <1>7
    <2>2. /\ SubSeq(a, 1, n) \in Seq(Chars) /\ Len(SubSeq(a, 1, n)) = n
          /\ \A i \in 1 .. n : SubSeq(a, 1, n)[i] = a[i]
      BY <1>1, <2>1, PrefixIs
    <2>3. bytes \in Seq(Chars) /\ Len(bytes) = n /\ \A i \in 1 .. m : bytes[i] = a[i]
      BY <2>1, <2>2
    <2>4. Len(bytes) >= m
      <3>1. Len(bytes) = n /\ m = n /\ n \in Nat
        BY <2>1, <2>3
      <3> QED  BY ONLY <3>1
    <2> QED  BY <1>5, <1>7, <2>3, <2>4
  <1> QED  BY <1>4, <1>6, <1>7

\* getargs gives every program the argument it was started with, whatever an
\* earlier process in its slot left in the PCB.
THEOREM ArgumentsCorrect == ASSUME WholeLines PROVE Spec => []GetsOwnArgument
  <1> DEFINE Inv == IInv /\ OwnArguments
  <1>1. Init => OwnArguments
    <2> SUFFICES ASSUME Init, NEW p \in InUse PROVE arg[p] = given[p]
      BY DEF OwnArguments
    <2> QED  BY DEF Init
  <1>2. IInv /\ OwnArguments /\ [Next]_vars => OwnArguments'
    BY OwnArgumentsStep
  <1>3. Init => GetsOwnArgument
    BY OtherKinds DEF Init, GetsOwnArgument, NoResult
  <1>4. ASSUME IInv, OwnArguments, GetsOwnArgument, [Next]_vars PROVE GetsOwnArgument'
    <2>1. CASE UNCHANGED vars
      BY <1>4, <2>1 DEF vars, GetsOwnArgument
    <2>2. CASE result' = NoResult
      BY <2>2 DEF GetsOwnArgument, NoResult
    <2>3. CASE \E inode \in DOMAIN length_in_b, offset, n \in Nat :
                   offset <= length_in_b[inode] /\ result' = Data(inode, offset, n)
      <3>1. result'.what = "data"
        BY <2>3 DEF Data
      <3> QED  BY <3>1 DEF GetsOwnArgument
    <2>4. CASE \E t \in Terminals : DirReturn(t)
      <3>1. result'.what # "args"
        BY <2>4, OtherKinds
      <3> QED  BY <3>1 DEF GetsOwnArgument
    <2>5. ASSUME NEW t \in Terminals, getargs(t) PROVE GetsOwnArgument'
      <3> DEFINE p == Running(t)
      <3>1. PICK n \in NBytes : result' = [what |-> "args", pid |-> p, n |-> n, bytes |-> Copy(arg[p], n)]
        BY <2>5 DEF getargs, Copy
      <3>2. given' = given
        BY <2>5 DEF getargs
      <3>3. p \in InUse /\ p \in Pids
        BY <1>4, Runs, RunningApart DEF IInv
      <3>4. arg[p] = given[p] /\ arg[p] \in Seq(STRING)
        BY <1>4, <3>3 DEF OwnArguments, IInv, Types
      <3>5. n \in Nat
        BY NBytesAssumption
      <3>6. PICK a : a = arg[p]
        OBVIOUS
      <3>7. /\ Copy(a, n) = <<>> <=> a = <<>> \/ n = 0
            /\ SubSeq(Copy(a, n), 1, Min({n, Len(a)})) = SubSeq(a, 1, Min({n, Len(a)}))
        BY <3>4, <3>5, <3>6, ArgumentCopied
      <3> HIDE DEF p
      <3>8. /\ result'.n = n /\ result'.bytes = Copy(a, n) /\ given'[result'.pid] = a
        BY <3>1, <3>2, <3>4, <3>6
      <3>9. /\ result'.bytes = <<>> <=> given'[result'.pid] = <<>> \/ result'.n = 0
            /\ SubSeq(result'.bytes, 1, Min({result'.n, Len(given'[result'.pid])})) =
               SubSeq(given'[result'.pid], 1, Min({result'.n, Len(given'[result'.pid])}))
        BY <3>7, <3>8
      <3> QED  BY <3>9 DEF GetsOwnArgument
    <2> QED  BY <1>4, <2>1, <2>2, <2>3, <2>4, <2>5, ResultKinds
  <1> QED  BY <1>1, <1>2, <1>3, <1>4, Invariance, PTL DEF Spec

----------------------------------------------------------------------------
(***************************************************************************)
(* Names.  fname_length is one variable for every call of read_dentry, so  *)
(* what open and directory_file_read find and return is right only if no   *)
(* other terminal's call comes between its uses: ~Overlap.  Then it still  *)
(* holds what the call in progress measured.                               *)
(***************************************************************************)
Measured(c, table, length) ==
    /\ c.stage = "open" => length = Len(c.name)
    /\ c.stage \in {"measured", "copied"} => length = Len(NameAt(table[c.fd].f_offset))
    /\ c.stage = "copied" => c.dentry = NameAt(table[c.fd].f_offset)

MeasuredInv == \A t \in Terminals : Measured(call[t], fds[Running(t)], fname_length)

\* Without a call in progress there is nothing to be measured.
LEMMA NothingMeasured ==
    ASSUME NEW table, NEW length
    PROVE  Measured(None, table, length)
  BY NoneIs DEF Measured

\* Only the call of the terminal that runs can be in progress.
LEMMA OneCall ==
    ASSUME ~Overlap, IInv, NEW t \in Terminals, MayStep(t),
           \/ call' = call
           \/ \E c \in CallRecords : call' = [call EXCEPT ![t] = c],
           Measured(call'[t], fds'[Running(t)'], fname_length')
    PROVE  MeasuredInv'
  <1> SUFFICES ASSUME NEW u \in Terminals PROVE Measured(call'[u], fds'[Running(u)'], fname_length')
    BY DEF MeasuredInv, Measured
  <1>1. CASE u = t
    BY <1>1
  <1>2. CASE u # t
    <2>1. call[u] = None
      BY <1>2 DEF MayStep
    <2>2. call \in [Terminals -> CallRecords]
      BY DEF IInv, Types
    <2>3. call'[u] = None
      BY <1>2, <2>1, <2>2
    <2> QED  BY <2>3, NothingMeasured
  <1> QED  BY <1>1, <1>2

\* A step after which the call of the terminal has ended.
LEMMA NoCall ==
    ASSUME ~Overlap, IInv, NEW t \in Terminals, MayStep(t),
           \/ call' = call /\ call[t] = None
           \/ call' = [call EXCEPT ![t] = None]
    PROVE  MeasuredInv'
  <1>1. call \in [Terminals -> CallRecords]
    BY DEF IInv, Types
  <1>2. call'[t] = None
    BY <1>1
  <1>3. Measured(call'[t], fds'[Running(t)'], fname_length')
    BY <1>2, NothingMeasured
  <1> QED  BY <1>3, NoneIs, OneCall

\* open measures its name, also one that it refuses.
LEMMA OpenStartMeasured ==
    ASSUME ~Overlap, IInv, NEW t \in Terminals, OpenStart(t)
    PROVE  MeasuredInv'
  <1>0. MayStep(t) /\ call \in [Terminals -> CallRecords]
    BY DEF OpenStart, Calls, IInv, Types
  <1>1. PICK name \in Names :
            /\ fname_length' = Len(name)
            /\ call' = [call EXCEPT ![t] =
                           IF Len(name) = 0 \/ Len(name) > FILENAME_MAX THEN None
                           ELSE [None EXCEPT !.stage = "open", !.name = name,
                                             !.fd = Min(Inactive(Running(t)))]]
    BY DEF OpenStart
  <1>2. CASE Len(name) = 0 \/ Len(name) > FILENAME_MAX
    <2>1. call' = [call EXCEPT ![t] = None]
      BY <1>1, <1>2
    <2> QED  BY <1>0, <2>1, NoCall
  <1>3. CASE ~(Len(name) = 0 \/ Len(name) > FILENAME_MAX)
    <2>1. PICK fd : fd = Min(Inactive(Running(t)))
      OBVIOUS
    <2>2. call'[t] = [None EXCEPT !.stage = "open", !.name = name, !.fd = fd]
      BY <1>0, <1>1, <1>3, <2>1
    <2>3. call'[t].stage = "open" /\ call'[t].name = name
      BY <2>2 DEF None
    <2>4. Measured(call'[t], fds'[Running(t)'], fname_length')
      BY <1>1, <2>3 DEF Measured
    <2>5. call' \in [Terminals -> CallRecords]
      BY OpenStartInv DEF IInv, Types
    <2>6. call' = [call EXCEPT ![t] = call'[t]] /\ call'[t] \in CallRecords
      BY <1>0, <1>1, <2>5
    <2> QED  BY <1>0, <2>4, <2>6, OneCall
  <1> QED  BY <1>2, <1>3

\* A directory read measures the name it is at.
LEMMA DirStartMeasured ==
    ASSUME ~Overlap, IInv, NEW t \in Terminals, DirStart(t)
    PROVE  MeasuredInv'
  <1>0. MayStep(t) /\ call \in [Terminals -> CallRecords] /\ Types
    BY DEF DirStart, Calls, IInv, Types
  <1>1. PICK fd \in Fds, n \in NBytes :
            /\ fname_length' = Min({Len(NameAt(fds[Running(t)][fd].f_offset)), FILENAME_MAX})
            /\ call' = [call EXCEPT ![t] = [None EXCEPT !.stage = "measured", !.fd = fd, !.n = n]]
    BY DEF DirStart
  <1>2. UNCHANGED <<chain, fds>>
    BY DEF DirStart
  <1>3. Running(t)' = Running(t)
    BY <1>2 DEF Running
  <1>4. call'[t].stage = "measured" /\ call'[t].fd = fd
    <2>1. call'[t] = [None EXCEPT !.stage = "measured", !.fd = fd, !.n = n]
      BY <1>0, <1>1
    <2> QED  BY <2>1 DEF None
  <1>5. fname_length' = Len(NameAt(fds[Running(t)][fd].f_offset))
    <2> DEFINE l == Len(NameAt(fds[Running(t)][fd].f_offset))
    <2>1. fds[Running(t)][fd].f_offset \in Nat
      BY <1>0, EntryTypes
    <2>2. l \in Nat /\ l <= FILENAME_MAX /\ FILENAME_MAX \in Nat
      BY <2>1, NameAtIs, NBytesAssumption
    <2>3. fname_length' = Min({l, FILENAME_MAX})
      BY <1>1
    <2> HIDE DEF l
    <2>4. fname_length' = l
      BY <2>2, <2>3, MinOfTwo
    <2> QED  BY <2>4 DEF l
  <1>6. Measured(call'[t], fds'[Running(t)'], fname_length')
    BY <1>2, <1>3, <1>4, <1>5 DEF Measured
  <1>7. call' \in [Terminals -> CallRecords]
    BY DirStartInv DEF IInv, Types
  <1>8. call' = [call EXCEPT ![t] = call'[t]] /\ call'[t] \in CallRecords
    BY <1>0, <1>1, <1>7
  <1> QED  BY <1>0, <1>6, <1>8, OneCall

\* It then copies all of that name.
LEMMA DirCopyMeasured ==
    ASSUME ~Overlap, IInv, MeasuredInv, NEW t \in Terminals, DirCopy(t)
    PROVE  MeasuredInv'
  <1>0. MayStep(t) /\ call \in [Terminals -> CallRecords] /\ Types /\ CallsInProgress
    BY DEF DirCopy, IInv, Types
  <1> DEFINE name == NameAt(fds[Running(t)][call[t].fd].f_offset)
             copy == [i \in 1 .. fname_length |-> CharAt(name, i)]
  <1>1. /\ call[t].stage = "measured" /\ UNCHANGED <<chain, fds, fname_length>>
        /\ call' = [call EXCEPT ![t].stage = "copied", ![t].dentry = copy]
    BY DEF DirCopy
  <1>2. call[t] \in CallRecords /\ call[t].fd \in Fds /\ fname_length \in Nat
    BY <1>0, <1>1 DEF Types, CallsInProgress, InCall
  <1>3. fds[Running(t)][call[t].fd].f_offset \in Nat
    BY <1>0, <1>2, EntryTypes
  <1>4. name \in Seq(STRING) /\ fname_length = Len(name)
    BY <1>1, <1>3, NameAtIs DEF MeasuredInv, Measured
  <1>5. copy = name
    <2> HIDE DEF name
    <2> QED  BY <1>2, <1>4, CutIs
  <1> HIDE DEF copy
  <1>6. Running(t)' = Running(t)
    BY <1>1 DEF Running
  <1>7. call'[t].stage = "copied" /\ call'[t].dentry = copy /\ call'[t].fd = call[t].fd
    BY <1>0, <1>1, <1>2 DEF CallRecords
  <1>8. Measured(call'[t], fds'[Running(t)'], fname_length')
    BY <1>1, <1>4, <1>5, <1>6, <1>7 DEF Measured
  <1>9. call' \in [Terminals -> CallRecords]
    BY DirCopyInv DEF IInv, Types
  <1>10. call' = [call EXCEPT ![t] = call'[t]] /\ call'[t] \in CallRecords
    BY <1>0, <1>1, <1>9
  <1> QED  BY <1>0, <1>8, <1>10, OneCall

\* Every step keeps what the call in progress measured.
LEMMA MeasuredStep ==
    ASSUME ~Overlap, IInv, MeasuredInv, [Next]_vars
    PROVE  MeasuredInv'
  <1>1. ASSUME NEW t \in Terminals, Execute(t) \/ ExecuteFails(t) \/ getargs(t) \/ Close(t) \/ ReadFile(t)
        PROVE  MeasuredInv'
    <2>1. Calls(t) /\ call' = call
      <3>1. CASE Execute(t)
        BY <3>1 DEF Execute
      <3>2. CASE ExecuteFails(t) \/ getargs(t) \/ Close(t)
        BY <3>2 DEF ExecuteFails, getargs, Close
      <3>3. CASE ReadFile(t)
        BY <3>3 DEF ReadFile
      <3> QED  BY <1>1, <3>1, <3>2, <3>3
    <2> QED  BY <2>1, NoCall DEF Calls
  <1>2. ASSUME NEW t \in Terminals, Halt(t) PROVE MeasuredInv'
    <2>1. Calls(t) /\ call' = call
      BY <1>2 DEF Halt
    <2> QED  BY <2>1, NoCall DEF Calls
  <1>3. ASSUME NEW t \in Terminals, OpenFind(t) \/ DirReturn(t) PROVE MeasuredInv'
    <2>1. MayStep(t) /\ call' = [call EXCEPT ![t] = None]
      <3>1. CASE OpenFind(t)
        BY <3>1 DEF OpenFind
      <3>2. CASE DirReturn(t)
        BY <3>2 DEF DirReturn
      <3> QED  BY <1>3, <3>1, <3>2
    <2> QED  BY <2>1, NoCall
  <1>4. ASSUME NEW t \in Terminals, OpenStart(t) \/ DirStart(t) \/ DirCopy(t) PROVE MeasuredInv'
    BY <1>4, OpenStartMeasured, DirStartMeasured, DirCopyMeasured
  <1>5. CASE UNCHANGED vars
    BY <1>5 DEF vars, MeasuredInv, Measured, Running
  <1> QED  BY <1>1, <1>2, <1>3, <1>4, <1>5 DEF Next

\* So it is kept for ever.
LEMMA MeasuredInvariance == ASSUME ~Overlap PROVE Spec => []MeasuredInv
  <1>1. Init => MeasuredInv
    BY NothingMeasured DEF Init, MeasuredInv
  <1>2. IInv /\ MeasuredInv /\ [Next]_vars => MeasuredInv'
    BY MeasuredStep
  <1> QED  BY <1>1, <1>2, Invariance, PTL DEF Spec

\* A bound above another one does not matter.
LEMMA MinOfThree ==
    ASSUME NEW a \in Nat, NEW b \in Nat, NEW c \in Nat, c <= b
    PROVE  Min({a, b, c}) = Min({a, c})
  <1> DEFINE m == IF a <= c THEN a ELSE c
  <1>1. Min({a, c}) = m
    BY MinOfTwo
  <1>2. {a, b, c} \subseteq Nat /\ m \in {a, b, c} /\ \A x \in {a, b, c} : m <= x
    OBVIOUS
  <1> HIDE DEF m
  <1>3. Min({a, b, c}) = m
    BY <1>2, MinIsThe
  <1> QED  BY <1>1, <1>3

\* The bytes a directory read copies, when the dentry holds the whole name.
LEMMA NameCopied ==
    ASSUME NEW name \in Seq(STRING), NEW n \in Nat, n <= Len(name)
    PROVE  [i \in 1 .. n |-> IF i <= Len(name) THEN name[i] ELSE GARBAGE] = SubSeq(name, 1, n)
  <1> DEFINE s == SubSeq(name, 1, n)
  <1>1. s \in Seq(STRING) /\ Len(s) = n /\ \A i \in 1 .. n : s[i] = name[i]
    BY PrefixIs
  <1> HIDE DEF s
  <1>2. s = [i \in 1 .. n |-> s[i]]
    BY <1>1
  <1>3. \A i \in 1 .. n : (IF i <= Len(name) THEN name[i] ELSE GARBAGE) = s[i]
    <2> SUFFICES ASSUME NEW i \in 1 .. n PROVE (IF i <= Len(name) THEN name[i] ELSE GARBAGE) = s[i]
      OBVIOUS
    <2>1. Len(name) \in Nat
      OBVIOUS
    <2>2. i <= Len(name)
      BY <2>1
    <2> QED  BY <1>1, <2>2
  <1> QED  BY <1>2, <1>3 DEF s

\* A directory read returns the name of the entry it is at, cut to what was
\* asked for, and never bytes of the dentry that were not written.
THEOREM NamesCorrect == ASSUME ~Overlap PROVE Spec => []NamesWhole
  <1>1. Init => NamesWhole
    BY OtherKinds DEF Init, NamesWhole, NoResult
  <1>2. ASSUME IInv, MeasuredInv, NamesWhole, [Next]_vars PROVE NamesWhole'
    <2>1. CASE UNCHANGED vars
      BY <1>2, <2>1 DEF vars, NamesWhole
    <2>2. CASE result' = NoResult
      BY <2>2 DEF NamesWhole, NoResult
    <2>3. CASE \E inode \in DOMAIN length_in_b, offset, n \in Nat :
                   offset <= length_in_b[inode] /\ result' = Data(inode, offset, n)
      <3>1. result'.what = "data"
        BY <2>3 DEF Data
      <3> QED  BY <3>1 DEF NamesWhole
    <2>4. CASE \E t \in Terminals : getargs(t)
      <3>1. result'.what = "args"
        BY <2>4, OtherKinds
      <3> QED  BY <3>1 DEF NamesWhole
    <2>5. ASSUME NEW t \in Terminals, DirReturn(t) PROVE NamesWhole'
      <3>0. Types /\ CallsInProgress
        BY <1>2 DEF IInv
      <3> DEFINE e == fds[Running(t)][call[t].fd]
                 n == Min({call[t].n, FILENAME_MAX, fname_length})
      <3>1. call[t].stage = "copied" /\ call[t].fd \in Fds /\ call[t] \in CallRecords
        BY <2>5, <3>0 DEF DirReturn, Types, CallsInProgress, InCall
      <3>2. e.f_offset \in Nat /\ call[t].n \in Nat
        BY <3>0, <3>1, EntryTypes DEF CallRecords
      <3>3. fname_length = Len(NameAt(e.f_offset)) /\ call[t].dentry = NameAt(e.f_offset)
        BY <1>2, <3>1 DEF MeasuredInv, Measured
      <3>4. CASE e.f_offset >= Len(Directory)
        <4>1. result' = NoResult
          BY <2>5, <3>4 DEF DirReturn
        <4> QED  BY <2>2, <4>1
      <3>5. CASE ~(e.f_offset >= Len(Directory))
        <4>1. result' = [what |-> "name", index |-> e.f_offset, n |-> call[t].n,
                         bytes |-> [i \in 1 .. n |-> IF i <= Len(call[t].dentry)
                                                     THEN call[t].dentry[i] ELSE GARBAGE]]
          BY <2>5, <3>5 DEF DirReturn
        <4>2. PICK name : name = NameAt(e.f_offset)
          OBVIOUS
        <4>3. PICK k : k = call[t].n
          OBVIOUS
        <4>4. PICK index : index = e.f_offset
          OBVIOUS
        <4>5. name \in Seq(STRING) /\ Len(name) \in Nat /\ Len(name) <= FILENAME_MAX
              /\ name = Directory[index + 1].name
          <5>1. index < Len(Directory)
            BY <3>2, <3>5, <4>4, DirectoryTypes
          <5> QED  BY <3>2, <4>2, <4>4, <5>1, NameAtIs
        <4> HIDE DEF e
        <4>6. n = Min({k, FILENAME_MAX, Len(name)})
          BY <3>3, <4>2, <4>3
        <4> HIDE DEF n
        <4>7. n = Min({k, Len(name)})
          <5>1. k \in Nat /\ FILENAME_MAX \in Nat
            BY <3>2, <4>3, NBytesAssumption
          <5>2. PICK l : l = Len(name)
            OBVIOUS
          <5>3. Min({k, FILENAME_MAX, l}) = Min({k, l})
            <6>1. l \in Nat /\ l <= FILENAME_MAX
              BY <4>5, <5>2
            <6> QED  BY ONLY <5>1, <6>1, MinOfThree
          <5> QED  BY ONLY <4>6, <5>2, <5>3
        <4>8. n \in Nat /\ n <= Len(name)
          BY <3>2, <4>3, <4>5, <4>7, MinOfTwo
        <4>9. result'.index = index /\ result'.n = k
              /\ result'.bytes = [i \in 1 .. n |-> IF i <= Len(name) THEN name[i] ELSE GARBAGE]
          BY <3>3, <4>1, <4>2, <4>3, <4>4
        <4>10. [i \in 1 .. n |-> IF i <= Len(name) THEN name[i] ELSE GARBAGE] = SubSeq(name, 1, n)
          BY <4>5, <4>8, NameCopied
        <4>11. result'.bytes = SubSeq(name, 1, Min({result'.n, Len(name)}))
          BY <4>7, <4>9, <4>10
        <4> QED  BY <4>5, <4>9, <4>11 DEF NamesWhole
      <3> QED  BY <3>4, <3>5
    <2> QED  BY <1>2, <2>1, <2>2, <2>3, <2>4, <2>5, ResultKinds
  <1> QED  BY <1>1, <1>2, Invariance, MeasuredInvariance, PTL DEF Spec

\* open opens the file of the name it was given, in the entry it chose, and
\* leaves that entry closed when there is no such file.
THEOREM OpensCorrect == ASSUME ~Overlap PROVE Spec => OpensNamedFile
  <1> DEFINE Opens(t) ==
          call[t].stage = "open" /\ call'[t].stage = "none" =>
              LET e == fds'[Running(t)][call[t].fd]
              IN  IF \E i \in DOMAIN Directory : Directory[i].name = call[t].name
                  THEN \E i \in DOMAIN Directory :
                          /\ Directory[i].name = call[t].name
                          /\ e.active = 1 /\ e.f_op = Directory[i].type
                          /\ e.f_op = "file" => e.inode = Directory[i].inode
                  ELSE e.active = 0
  <1>1. ASSUME IInv, MeasuredInv, Next, NEW t \in Terminals,
               call[t].stage = "open", call'[t].stage = "none"
        PROVE  OpenFind(t)
    <2>1. PICK u \in Terminals :
              \/ Execute(u) \/ ExecuteFails(u) \/ Halt(u) \/ getargs(u) \/ OpenStart(u) \/ OpenFind(u)
              \/ Close(u) \/ ReadFile(u) \/ DirStart(u) \/ DirCopy(u) \/ DirReturn(u)
      BY <1>1 DEF Next
    <2>2. /\ Execute(u) \/ ExecuteFails(u) \/ Halt(u) \/ getargs(u) \/ OpenStart(u) \/ Close(u)
             \/ ReadFile(u) \/ DirStart(u) => MayStep(u) /\ call[u] = None
          /\ DirCopy(u) => MayStep(u) /\ call[u].stage = "measured"
          /\ DirReturn(u) => MayStep(u) /\ call[u].stage = "copied"
          /\ OpenFind(u) => MayStep(u)
      <3>1. Execute(u) \/ ReadFile(u) => Calls(u)
        BY DEF Execute, ReadFile
      <3>2. ExecuteFails(u) \/ getargs(u) \/ OpenStart(u) \/ Close(u) \/ DirStart(u) => Calls(u)
        BY DEF ExecuteFails, getargs, OpenStart, Close, DirStart
      <3>3. Halt(u) => Calls(u)
        BY DEF Halt
      <3>4. DirCopy(u) => MayStep(u) /\ call[u].stage = "measured"
        BY DEF DirCopy
      <3>5. DirReturn(u) => MayStep(u) /\ call[u].stage = "copied"
        BY DEF DirReturn
      <3>6. OpenFind(u) => MayStep(u)
        BY DEF OpenFind
      <3> QED  BY <3>1, <3>2, <3>3, <3>4, <3>5, <3>6 DEF Calls
    <2>3. u = t
      <3>1. MayStep(u)
        BY <2>1, <2>2
      <3> QED  BY <1>1, <3>1, NoneIs DEF MayStep
    <2> QED  BY <1>1, <2>1, <2>2, <2>3, NoneIs
  <1>2. ASSUME IInv, MeasuredInv, NEW t \in Terminals, OpenFind(t) PROVE Opens(t)
    <2>0. Types /\ CallsInProgress
      BY <1>2 DEF IInv
    <2>1. PICK name : name = call[t].name
      OBVIOUS
    <2>2. PICK found : found = Found(name, fname_length)
      OBVIOUS
    <2> DEFINE p == Running(t)
               fd == call[t].fd
               e == fds'[p][fd]
    <2>3. call[t].stage = "open" /\ fd \in Fds /\ fds[p][fd].active = 0 /\ IsText(name)
      BY <1>2, <2>0, <2>1 DEF OpenFind, CallsInProgress, InCall
    <2>4. fname_length = Len(name)
      BY <1>2, <2>1, <2>3 DEF MeasuredInv, Measured
    <2>5. found \subseteq DOMAIN Directory
          /\ \A i \in DOMAIN Directory : i \in found <=> Directory[i].name = name
      <3>1. found = Found(name, Len(name))
        BY <2>2, <2>4
      <3>2. found \subseteq DOMAIN Directory
        BY <3>1 DEF Found
      <3> QED  BY <2>3, <3>1, <3>2, FoundIsNamed
    <2>6. CASE found = {}
      <3>1. fds' = fds
        BY <1>2, <2>1, <2>2, <2>6 DEF OpenFind
      <3>2. ~\E i \in DOMAIN Directory : Directory[i].name = name
        BY <2>5, <2>6
      <3> QED  BY <2>1, <2>3, <3>1, <3>2
    <2>7. CASE found # {}
      <3>1. PICK i : i = Min(found)
        OBVIOUS
      <3>2. i \in found /\ i \in DOMAIN Directory /\ Directory[i].name = name
        <4>1. found \subseteq Nat
          BY <2>5, DirectoryTypes
        <4> QED  BY <2>5, <2>7, <3>1, <4>1, MinIs
      <3>3. fds' = [fds EXCEPT ![p][fd] = Opened(@, Directory[i])]
        BY <1>2, <2>1, <2>2, <2>7, <3>1 DEF OpenFind
      <3>4. fds \in [Pids -> [Fds -> Entries]] /\ p \in Pids
        BY <2>0, Runs DEF Types
      <3>5. e = [f_op |-> Directory[i].type, f_offset |-> 0, active |-> 1,
                 inode |-> IF Directory[i].type = "file" THEN Directory[i].inode ELSE 0]
        BY <2>3, <3>3, <3>4 DEF Opened
      <3> HIDE DEF e
      <3>6. e.active = 1 /\ e.f_op = Directory[i].type /\ (e.f_op = "file" => e.inode = Directory[i].inode)
        BY <3>5
      <3> QED  BY <2>1, <3>2, <3>6 DEF e
    <2> QED  BY <2>6, <2>7
  <1>3. ASSUME UNCHANGED vars, NEW t \in Terminals PROVE Opens(t)
    BY <1>3 DEF vars
  <1>4. IInv /\ MeasuredInv /\ [Next]_vars => \A t \in Terminals : Opens(t)
    <2> HIDE DEF Opens
    <2>1. ASSUME IInv, MeasuredInv, Next, NEW t \in Terminals PROVE Opens(t)
      <3>1. CASE call[t].stage = "open" /\ call'[t].stage = "none"
        BY <1>1, <1>2, <2>1, <3>1
      <3>2. CASE ~(call[t].stage = "open" /\ call'[t].stage = "none")
        BY <3>2 DEF Opens
      <3> QED  BY <3>1, <3>2
    <2> QED  BY <1>3, <2>1
  <1> HIDE DEF Opens
  <1>5. Spec => [][\A t \in Terminals : Opens(t)]_vars
    BY <1>4, Invariance, MeasuredInvariance, PTL DEF Spec
  <1> QED  BY <1>5 DEF OpensNamedFile, Opens
============================================================================
