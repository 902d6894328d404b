----------------------------- MODULE VideoProofs -----------------------------
(***************************************************************************)
(* Proofs about Video, for any number of terminals, any size of screen and *)
(* any texts: no cursor leaves its screen, and the terminals keep their    *)
(* screens apart as Screens says.                                          *)
(***************************************************************************)
EXTENDS Video, SetInduction, SequenceTheorems

----------------------------------------------------------------------------
(***************************************************************************)
(* Printing.  A screen with a line of n characters typed at it is sound    *)
(* when the cursor can go back over the line.  The column can be negative  *)
(* after backspaces, but not by more than the rest of the line.            *)
(***************************************************************************)
Text == [Cells -> Inks \cup {Blank}]
Screen == [text : Text, x : Int, y : Int]

Sound(s, n) ==
    /\ s \in Screen
    /\ s.x \in n + 1 - MAX_BUF_LENGTH .. NUM_COLS
    /\ s.y \in 0 .. NUM_ROWS - 1
    /\ n <= Position(s)

LineLengths == 0 .. MAX_BUF_LENGTH - 1

\* Arithmetic about rows: the start of the next row is a row further, and the
\* last row starts after all the cells that a line can fill.
LEMMA Rows ==
    /\ \A y \in Int : NUM_COLS * (y + 1) = NUM_COLS * y + NUM_COLS
    /\ \A n \in LineLengths, y \in Int : y + 1 = NUM_ROWS => n <= NUM_COLS * y
    /\ \A y \in 0 .. NUM_ROWS - 1 : NUM_COLS * y \in Nat
    /\ NUM_COLS \in Nat \ {0} /\ NUM_ROWS \in Nat \ {0} /\ MAX_BUF_LENGTH \in Nat \ {0}
  <1>1. NUM_COLS \in Nat \ {0} /\ NUM_ROWS \in Nat \ {0}
    BY ScreenAssumption
  <1>2. (NUM_ROWS - 1) * NUM_COLS \in Nat
    BY <1>1
  <1>3. MAX_BUF_LENGTH \in Nat \ {0} /\ MAX_BUF_LENGTH - 1 <= (NUM_ROWS - 1) * NUM_COLS
    BY <1>2, LineAssumption
  <1>4. \A y \in Int : NUM_COLS * (y + 1) = NUM_COLS * y + NUM_COLS
    BY <1>1
  <1>5. \A n \in LineLengths, y \in Int : y + 1 = NUM_ROWS => n <= NUM_COLS * y
    <2> SUFFICES ASSUME NEW n \in LineLengths, NEW y \in Int, y = NUM_ROWS - 1
                 PROVE  n <= NUM_COLS * y
      BY <1>1
    <2>1. NUM_COLS * y = (NUM_ROWS - 1) * NUM_COLS
      BY <1>1
    <2> QED  BY <2>1, <1>2, <1>3 DEF LineLengths
  <1>6. \A y \in 0 .. NUM_ROWS - 1 : NUM_COLS * y \in Nat
    BY <1>1
  <1> QED  BY <1>1, <1>3, <1>4, <1>5, <1>6

\* A store or a scroll leaves a text.
LEMMA TextStays ==
    ASSUME NEW text \in Text
    PROVE  /\ Scrolled(text) \in Text
           /\ \A i \in Int, c \in Inks \cup {Blank} : Stored(text, i, c) \in Text
  BY DEF Text, Scrolled, Stored

\* The start of the next row is as far from the start of the screen as before,
\* or the screen has scrolled and the last row is far enough.
LEMMA NextRowSound ==
    ASSUME NEW n \in LineLengths, NEW s, Sound(s, n)
    PROVE  Sound(NextRow(s), n) /\ NextRow(s).x = 0
  <1>1. /\ s.text \in Text /\ s.x \in Int /\ s.x <= NUM_COLS /\ s.y \in 0 .. NUM_ROWS - 1 /\ s.y \in Int
        /\ n <= NUM_COLS * s.y + s.x
    BY Rows DEF Sound, Screen, Position, LineLengths
  <1>2. n + 1 - MAX_BUF_LENGTH <= 0 /\ n \in Int /\ n + 1 - MAX_BUF_LENGTH \in Int
    BY Rows DEF LineLengths
  <1>3. CASE s.y + 1 = NUM_ROWS
    <2>1. NextRow(s) = [text |-> Scrolled(s.text), x |-> 0, y |-> s.y]
      BY <1>3 DEF NextRow
    <2>2. NextRow(s) \in Screen /\ NextRow(s).x = 0 /\ NextRow(s).y = s.y
      BY <1>1, <2>1, TextStays DEF Screen
    <2>3. n <= NUM_COLS * s.y
      BY <1>1, <1>3, Rows
    <2>4. n <= Position(NextRow(s))
      BY <1>1, <2>2, <2>3, Rows DEF Position
    <2> QED  BY <1>1, <1>2, <2>2, <2>4, Rows DEF Sound
  <1>4. CASE s.y + 1 # NUM_ROWS
    <2>1. NextRow(s) = [text |-> s.text, x |-> 0, y |-> s.y + 1]
      BY <1>4 DEF NextRow
    <2>2. NextRow(s) \in Screen /\ NextRow(s).x = 0 /\ NextRow(s).y = s.y + 1
      BY <1>1, <2>1 DEF Screen
    <2>3. NUM_COLS * (s.y + 1) = NUM_COLS * s.y + NUM_COLS /\ NUM_COLS * s.y \in Nat
      BY <1>1, Rows
    <2>4. n <= Position(NextRow(s))
      BY <1>1, <1>2, <2>2, <2>3, Rows DEF Position
    <2>5. s.y + 1 \in 0 .. NUM_ROWS - 1
      BY <1>1, <1>4, Rows
    <2> QED  BY <1>2, <2>2, <2>4, <2>5, Rows DEF Sound
  <1> QED  BY <1>3, <1>4

\* A character takes the cursor one further, so that the line may be one
\* longer.
LEMMA PutInkSound ==
    ASSUME NEW n \in LineLengths, NEW m \in LineLengths, m = n \/ m = n + 1,
           NEW s, Sound(s, n), NEW c \in Inks
    PROVE  Sound(Put(s, c), m)
  <1> DEFINE r == IF s.x = NUM_COLS THEN NextRow(s) ELSE s
  <1>1. Sound(r, n) /\ r.x # NUM_COLS
    BY NextRowSound, Rows
  <1>2. c # NL /\ c # BS
    BY InksAssumption
  <1>3. Put(s, c) = [text |-> Stored(r.text, Position(r), c), x |-> r.x + 1, y |-> r.y]
    BY <1>2 DEF Put
  <1> HIDE DEF r
  <1>4. /\ r.text \in Text /\ r.x \in Int /\ r.y \in 0 .. NUM_ROWS - 1 /\ r.y \in Int
        /\ r.x >= n + 1 - MAX_BUF_LENGTH /\ r.x <= NUM_COLS
        /\ n <= NUM_COLS * r.y + r.x
        /\ NUM_COLS * r.y \in Int
    BY <1>1, Rows DEF Sound, Screen, Position, LineLengths
  <1>5. /\ Put(s, c) \in Screen /\ Put(s, c).x = r.x + 1 /\ Put(s, c).y = r.y
    <2>1. Position(r) \in Int
      BY <1>4 DEF Position
    <2>2. Stored(r.text, Position(r), c) \in Text
      BY <1>4, <2>1, TextStays
    <2> QED  BY <1>3, <1>4, <2>2 DEF Screen
  <1>6. r.x + 1 \in m + 1 - MAX_BUF_LENGTH .. NUM_COLS
    BY <1>1, <1>4, Rows DEF LineLengths
  <1>7. m <= Position(Put(s, c))
    BY <1>4, <1>5 DEF Position, LineLengths
  <1> QED  BY <1>4, <1>5, <1>6, <1>7 DEF Sound

\* A newline ends the line or, printed by a program, leaves it.
LEMMA PutNewlineSound ==
    ASSUME NEW n \in LineLengths, NEW s, Sound(s, n)
    PROVE  Sound(Put(s, NL), n) /\ Sound(Put(s, NL), 0)
  <1>1. Put(s, NL) = NextRow(s)
    <2>1. NL # BS
      BY DEF NL, BS
    <2> QED  BY <2>1 DEF Put
  <1>2. Sound(NextRow(s), n) /\ NextRow(s).x = 0
    BY NextRowSound
  <1>3. Sound(NextRow(s), 0)
    BY <1>2, Rows DEF Sound, LineLengths, Position
  <1> QED  BY <1>1, <1>2, <1>3

\* A backspace takes the cursor one back and the line's last character with it.
LEMMA PutBackspaceSound ==
    ASSUME NEW n \in LineLengths, n # 0, NEW s, Sound(s, n)
    PROVE  Sound(Put(s, BS), n - 1)
  <1>1. BS # NL
    BY DEF BS, NL
  <1>2. Put(s, BS) = [text |-> Stored(s.text, Position(s) - 1, Blank), x |-> s.x - 1, y |-> s.y]
    BY <1>1 DEF Put
  <1>3. /\ s.text \in Text /\ s.x \in Int /\ s.y \in 0 .. NUM_ROWS - 1 /\ s.y \in Int
        /\ s.x >= n + 1 - MAX_BUF_LENGTH /\ s.x <= NUM_COLS
        /\ n <= NUM_COLS * s.y + s.x
        /\ NUM_COLS * s.y \in Int
    BY Rows DEF Sound, Screen, Position, LineLengths
  <1>4. Put(s, BS) \in Screen /\ Put(s, BS).x = s.x - 1 /\ Put(s, BS).y = s.y
    <2>1. Position(s) - 1 \in Int
      BY <1>3 DEF Position
    <2>2. Stored(s.text, Position(s) - 1, Blank) \in Text
      BY <1>3, <2>1, TextStays
    <2> QED  BY <1>2, <1>3, <2>2 DEF Screen
  <1>5. s.x - 1 \in (n - 1) + 1 - MAX_BUF_LENGTH .. NUM_COLS
    BY <1>3, Rows DEF LineLengths
  <1>6. n - 1 <= Position(Put(s, BS))
    BY <1>3, <1>4 DEF Position, LineLengths
  <1> QED  BY <1>3, <1>4, <1>5, <1>6 DEF Sound

\* The function by which PutAll is defined exists: a shorter text's can be
\* continued by one character.
LEMMA PutAllDefined ==
    ASSUME NEW s, NEW chars, Len(chars) \in Nat
    PROVE  \E after : /\ after = [k \in 0 .. Len(chars) |->
                                     IF k = 0 THEN s ELSE Put(after[k - 1], chars[k])]
                      /\ PutAll(s, chars) = after[Len(chars)]
  <1> DEFINE Is(f, n) == f = [k \in 0 .. n |-> IF k = 0 THEN s ELSE Put(f[k - 1], chars[k])]
             S == {n \in Nat : \E f : Is(f, n)}
  <1>1. 0 \in S
    <2>1. Is([k \in 0 .. 0 |-> s], 0)
      OBVIOUS
    <2> QED  BY <2>1
  <1>2. ASSUME NEW n \in Nat, n \in S PROVE n + 1 \in S
    <2>1. PICK f : Is(f, n)
      BY <1>2
    <2> DEFINE g == [k \in 0 .. n + 1 |-> IF k = n + 1 THEN Put(f[n], chars[n + 1]) ELSE f[k]]
    <2>2. \A k \in 0 .. n : g[k] = f[k] /\ f[k] = IF k = 0 THEN s ELSE Put(f[k - 1], chars[k])
      BY <2>1
    <2>3. ASSUME NEW k \in 0 .. n + 1
          PROVE  g[k] = IF k = 0 THEN s ELSE Put(g[k - 1], chars[k])
      <3>1. CASE k = n + 1
        BY <2>2, <3>1
      <3>2. CASE k # n + 1
        BY <2>2, <3>2
      <3> QED  BY <3>1, <3>2
    <2>4. g = [k \in 0 .. n + 1 |-> g[k]]
      OBVIOUS
    <2> HIDE DEF g
    <2>5. Is(g, n + 1)
      BY <2>3, <2>4
    <2> QED  BY <2>5
  <1>3. Nat \subseteq S
    <2> HIDE DEF S
    <2> QED  BY <1>1, <1>2, NatSetInduction
  <1>4. \E f : Is(f, Len(chars))
    BY <1>3
  <1> DEFINE after == CHOOSE f : Is(f, Len(chars))
  <1>5. Is(after, Len(chars))
    BY <1>4
  <1>6. PutAll(s, chars) = after[Len(chars)]
    BY DEF PutAll
  <1> HIDE DEF after
  <1> QED  BY <1>5, <1>6

\* What a program prints leaves the cursor room for the line typed before it.
LEMMA PutAllSound ==
    ASSUME NEW n \in LineLengths, NEW s, Sound(s, n), NEW chars \in Seq(Inks \cup {NL})
    PROVE  Sound(PutAll(s, chars), n)
  <1>1. Len(chars) \in Nat /\ \A k \in 1 .. Len(chars) : chars[k] \in Inks \cup {NL}
    OBVIOUS
  <1>2. PICK after : /\ after = [k \in 0 .. Len(chars) |->
                                    IF k = 0 THEN s ELSE Put(after[k - 1], chars[k])]
                     /\ PutAll(s, chars) = after[Len(chars)]
    BY <1>1, PutAllDefined
  <1>3. \A k \in 0 .. Len(chars) : after[k] = IF k = 0 THEN s ELSE Put(after[k - 1], chars[k])
    BY <1>2
  <1> DEFINE S == {k \in Nat : k <= Len(chars) => Sound(after[k], n)}
  <1>4. 0 \in S
    BY <1>1, <1>3
  <1>5. ASSUME NEW k \in Nat, k \in S PROVE k + 1 \in S
    <2> SUFFICES ASSUME k + 1 <= Len(chars) PROVE Sound(after[k + 1], n)
      OBVIOUS
    <2>1. Sound(after[k], n)
      BY <1>1, <1>5
    <2>2. after[k + 1] = Put(after[k], chars[k + 1]) /\ chars[k + 1] \in Inks \cup {NL}
      BY <1>1, <1>3
    <2>3. CASE chars[k + 1] = NL
      BY <2>1, <2>2, <2>3, PutNewlineSound
    <2>4. CASE chars[k + 1] \in Inks
      BY <2>1, <2>2, <2>4, PutInkSound
    <2> QED  BY <2>2, <2>3, <2>4
  <1>6. Nat \subseteq S
    <2> HIDE DEF S
    <2> QED  BY <1>4, <1>5, NatSetInduction
  <1>7. Sound(after[Len(chars)], n)
    BY <1>1, <1>6
  <1> QED  BY <1>2, <1>7

(***************************************************************************)
(* The inductive invariant: both windows lead to the page that holds the   *)
(* running terminal's screen, the keyboard's page to the VGA memory, and   *)
(* every screen is sound for the line typed at it.                         *)
(***************************************************************************)
Home(t) == IF t = current_visible THEN VIDEO_MEMORY ELSE Backup(t)

screen == [t \in Terminals |-> [text |-> memory[Home(t)], x |-> screen_x[t], y |-> screen_y[t]]]

Types ==
    /\ current_visible \in Terminals
    /\ terminal_num \in Terminals
    /\ memory \in [Pages -> Text]
    /\ screen_x \in [Terminals -> Int]
    /\ screen_y \in [Terminals -> Int]
    /\ buf_position \in [Terminals -> LineLengths]
    /\ stopped \in BOOLEAN

Windows ==
    /\ video_page_table = [p \in Pages |-> IF p = VIDEO_MEMORY THEN Home(terminal_num)
                                           ELSE IF p = back_door_entry THEN VIDEO_MEMORY ELSE p]
    /\ vidmap_page_table = [p \in {0} |-> Home(terminal_num)]

SoundScreens == \A t \in Terminals : Sound(screen[t], buf_position[t])

IInv == Types /\ Windows /\ SoundScreens

\* The VGA page, the backups and the page of the keyboard are all different.
LEMMA PagesDiffer ==
    /\ VIDEO_MEMORY \in Pages /\ back_door_entry \in Pages /\ back_door_entry # VIDEO_MEMORY
    /\ \A t \in Terminals : /\ Backup(t) \in Pages
                             /\ Backup(t) # VIDEO_MEMORY /\ Backup(t) # back_door_entry
    /\ \A t, u \in Terminals : Backup(t) = Backup(u) => t = u
  BY TerminalsAssumption DEF Pages, back_door_entry, term_zero_entry, VIDEO_MEMORY, Backup, Terminals

\* So no two terminals have their screens in one page.
LEMMA HomesDiffer ==
    /\ \A t \in Terminals : Home(t) \in Pages
    /\ \A t, u \in Terminals : Home(t) = Home(u) => t = u
  BY PagesDiffer DEF Home

\* Where the three ways to a page lead.
LEMMA Translations ==
    ASSUME IInv
    PROVE  /\ Translate("kernel", VIDEO_MEMORY) = Home(terminal_num)
           /\ Translate("kernel", back_door_entry) = VIDEO_MEMORY
           /\ Translate("vidmap", 0) = Home(terminal_num)
           /\ \A t \in Terminals : Translate("kernel", Backup(t)) = Backup(t)
  <1>1. \A p \in Pages : Translate("kernel", p) = video_page_table[p]
    BY DEF Translate, page_directory, Window
  <1>2. Translate("vidmap", 0) = vidmap_page_table[0]
    BY DEF Translate, page_directory, Window
  <1> QED  BY <1>1, <1>2, PagesDiffer DEF IInv, Windows

\* Printing at the page of a terminal's screen with that terminal's cursor
\* changes that screen and no other.
LEMMA PrintStep ==
    ASSUME IInv, NEW w, NEW p, NEW t \in Terminals, Translate(w, p) = Home(t),
           NEW s \in Screen, SetScreen(w, p, t, s), UNCHANGED current_visible
    PROVE  /\ memory' \in [Pages -> Text]
           /\ screen_x' \in [Terminals -> Int] /\ screen_y' \in [Terminals -> Int]
           /\ screen' = [screen EXCEPT ![t] = s]
           /\ \A u \in Terminals : screen'[u] = IF u = t THEN s ELSE screen[u]
  <1>1. /\ memory' = [memory EXCEPT ![Home(t)] = s.text]
        /\ screen_x' = [screen_x EXCEPT ![t] = s.x]
        /\ screen_y' = [screen_y EXCEPT ![t] = s.y]
    BY DEF SetScreen
  <1>2. s.text \in Text /\ s.x \in Int /\ s.y \in Int /\ s = [text |-> s.text, x |-> s.x, y |-> s.y]
    BY DEF Screen
  <1>3. /\ memory' \in [Pages -> Text]
        /\ screen_x' \in [Terminals -> Int] /\ screen_y' \in [Terminals -> Int]
    BY <1>1, <1>2, HomesDiffer DEF IInv, Types
  <1>4. \A u \in Terminals : Home(u)' = Home(u)
    BY DEF Home
  <1>5. ASSUME NEW u \in Terminals PROVE screen'[u] = IF u = t THEN s ELSE screen[u]
    <2>1. screen'[u] = [text |-> memory'[Home(u)], x |-> screen_x'[u], y |-> screen_y'[u]]
      BY <1>4 DEF screen
    <2>2. CASE u = t
      BY <1>1, <1>2, <2>1, <2>2, HomesDiffer DEF IInv, Types
    <2>3. CASE u # t
      <3>1. memory'[Home(u)] = memory[Home(u)] /\ screen_x'[u] = screen_x[u] /\ screen_y'[u] = screen_y[u]
        BY <1>1, <2>3, HomesDiffer DEF IInv, Types
      <3> QED  BY <2>1, <2>3, <3>1 DEF screen
    <2> QED  BY <2>2, <2>3
  <1>6. screen' = [screen EXCEPT ![t] = s]
    BY <1>5 DEF screen
  <1> QED  BY <1>3, <1>5, <1>6

\* The screen printed on is that of the terminal whose page it is.
LEMMA ScreenAtHome ==
    ASSUME NEW w, NEW p, NEW t \in Terminals, Translate(w, p) = Home(t)
    PROVE  ScreenAt(w, p, t) = screen[t]
  BY DEF ScreenAt, screen

\* While the page tables and the two terminal numbers stay, so does what
\* Windows says.
LEMMA WindowsKept == ASSUME IInv, UNCHANGED <<tables, current_visible, terminal_num>> PROVE Windows'
  BY DEF IInv, Windows, tables, Home

\* At boot terminal 0 runs and is shown, and all screens are blank.
LEMMA InitInv == Init => IInv
  <1> SUFFICES ASSUME Init PROVE IInv
    OBVIOUS
  <1>1. 0 \in Terminals /\ BlankText \in Text /\ 0 \in LineLengths
    BY TerminalsAssumption, Rows DEF Terminals, BlankText, Text, LineLengths
  <1>2. Types
    <2>1. memory \in [Pages -> Text] /\ buf_position \in [Terminals -> LineLengths]
      BY <1>1 DEF Init
    <2>2. screen_x \in [Terminals -> Int] /\ screen_y \in [Terminals -> Int]
      BY DEF Init
    <2> QED  BY <1>1, <2>1, <2>2 DEF Init, Types
  <1>3. Windows
    <2>1. Home(terminal_num) = VIDEO_MEMORY
      BY DEF Init, Home
    <2>2. video_page_table = [p \in Pages |-> IF p = VIDEO_MEMORY THEN VIDEO_MEMORY
                                              ELSE IF p = back_door_entry THEN VIDEO_MEMORY ELSE p]
      BY PagesDiffer DEF Init, paging_init, term_page_int, video_table_init
    <2>3. vidmap_page_table = [p \in {0} |-> VIDEO_MEMORY]
      BY DEF Init, paging_init, vidmap_page_initialization
    <2> QED  BY <2>1, <2>2, <2>3 DEF Windows
  <1>4. ASSUME NEW t \in Terminals PROVE Sound(screen[t], buf_position[t])
    <2>1. screen[t] = [text |-> BlankText, x |-> 0, y |-> 0] /\ buf_position[t] = 0
      BY HomesDiffer DEF Init, screen
    <2>2. Position(screen[t]) = 0
      BY <2>1, Rows DEF Position
    <2> QED  BY <1>1, <2>1, <2>2, Rows DEF Sound, Screen
  <1> QED  BY <1>2, <1>3, <1>4 DEF IInv, SoundScreens

\* A program's text goes to its terminal's screen, shown or not.
LEMMA PrintsStep ==
    ASSUME IInv, NEW chars \in Texts, Prints(chars), stopped' \in BOOLEAN
    PROVE  /\ IInv'
           /\ screen' = [screen EXCEPT ![terminal_num] = PutAll(screen[terminal_num], chars)]
  <1> DEFINE n == terminal_num
             s == PutAll(screen[n], chars)
  <1>1. n \in Terminals /\ buf_position[n] \in LineLengths /\ Sound(screen[n], buf_position[n])
    BY DEF IInv, Types, SoundScreens
  <1>2. Sound(s, buf_position[n])
    BY <1>1, TextsAssumption, PutAllSound
  <1>3. Translate("kernel", VIDEO_MEMORY) = Home(n) /\ ScreenAt("kernel", VIDEO_MEMORY, n) = screen[n]
    BY <1>1, Translations, ScreenAtHome
  <1>4. SetScreen("kernel", VIDEO_MEMORY, n, s) /\ s \in Screen
        /\ UNCHANGED <<current_visible, terminal_num, tables, buf_position>>
    BY <1>2, <1>3 DEF Prints, Sound
  <1> HIDE DEF s
  <1>5. /\ memory' \in [Pages -> Text]
        /\ screen_x' \in [Terminals -> Int] /\ screen_y' \in [Terminals -> Int]
        /\ screen' = [screen EXCEPT ![n] = s]
        /\ \A u \in Terminals : screen'[u] = IF u = n THEN s ELSE screen[u]
    BY <1>1, <1>3, <1>4, PrintStep
  <1>6. Types' /\ Windows'
    BY <1>4, <1>5, WindowsKept DEF IInv, Types
  <1>7. SoundScreens'
    BY <1>2, <1>4, <1>5 DEF IInv, SoundScreens
  <1> QED  BY <1>5, <1>6, <1>7 DEF IInv, s

\* An echo goes to the screen shown, whichever terminal runs.
LEMMA EchoStep ==
    ASSUME IInv, NEW c, NEW m \in LineLengths, Echo(c, m), Sound(Put(screen[current_visible], c), m)
    PROVE  /\ IInv'
           /\ screen' = [screen EXCEPT ![current_visible] = Put(screen[current_visible], c)]
  <1> DEFINE v == current_visible
             s == Put(screen[v], c)
  <1>1. v \in Terminals /\ Sound(s, m) /\ s \in Screen
    BY DEF IInv, Types, Sound
  <1>2. Home(v) = VIDEO_MEMORY
    BY DEF Home
  <1>3. Translate("kernel", back_door_entry) = Home(v) /\ ScreenAt("kernel", back_door_entry, v) = screen[v]
    BY <1>1, <1>2, Translations, ScreenAtHome
  <1>4. SetScreen("kernel", back_door_entry, v, s)
        /\ buf_position' = [buf_position EXCEPT ![v] = m]
        /\ UNCHANGED <<current_visible, terminal_num, tables, stopped>>
    BY <1>3 DEF Echo
  <1> HIDE DEF s
  <1>5. /\ memory' \in [Pages -> Text]
        /\ screen_x' \in [Terminals -> Int] /\ screen_y' \in [Terminals -> Int]
        /\ screen' = [screen EXCEPT ![v] = s]
        /\ \A u \in Terminals : screen'[u] = IF u = v THEN s ELSE screen[u]
    BY <1>1, <1>3, <1>4, PrintStep
  <1>6. Types' /\ Windows'
    BY <1>4, <1>5, WindowsKept DEF IInv, Types
  <1>7. SoundScreens'
    BY <1>1, <1>4, <1>5 DEF IInv, Types, SoundScreens
  <1> QED  BY <1>5, <1>6, <1>7 DEF IInv, s

\* The guards of add_to_buffer keep the cursor in step with the line.
LEMMA KeyStep ==
    ASSUME IInv, NEW c \in Inks \cup {NL, BS}, add_to_buffer(c)
    PROVE  /\ IInv'
           /\ screen' = [screen EXCEPT ![current_visible] = Put(screen[current_visible], c)]
           /\ UNCHANGED <<current_visible, terminal_num>>
  <1> DEFINE n == buf_position[current_visible]
             s == screen[current_visible]
  <1>1. n \in LineLengths /\ Sound(s, n) /\ MAX_BUF_LENGTH \in Nat \ {0}
    BY Rows DEF IInv, Types, SoundScreens
  <1>2. \E m \in LineLengths : Echo(c, m) /\ Sound(Put(s, c), m)
    <2>1. CASE c = NL /\ Echo(c, 0)
      BY <1>1, <2>1, PutNewlineSound DEF LineLengths
    <2>2. CASE c = BS /\ n # 0 /\ Echo(c, n - 1)
      <3>1. n - 1 \in LineLengths
        BY <1>1, <2>2 DEF LineLengths
      <3> QED  BY <1>1, <2>2, <3>1, PutBackspaceSound
    <2>3. CASE c \in Inks /\ n # MAX_BUF_LENGTH - 1 /\ Echo(c, n + 1)
      <3>1. n + 1 \in LineLengths
        BY <1>1, <2>3 DEF LineLengths
      <3> HIDE DEF n, s
      <3> DEFINE m == n + 1
      <3>2. m = n + 1 /\ m \in LineLengths
        BY <3>1
      <3> HIDE DEF m
      <3>3. Sound(Put(s, c), m)
        BY <1>1, <2>3, <3>2, PutInkSound
      <3> QED  BY <2>3, <3>2, <3>3
    <2> QED  BY <2>1, <2>2, <2>3 DEF add_to_buffer
  <1>3. PICK m \in LineLengths : Echo(c, m) /\ Sound(Put(s, c), m)
    BY <1>2
  <1> QED  BY <1>3, EchoStep DEF Echo

\* Ctrl-L leaves blank screens with the cursor at home sound, whichever page
\* it blanks; while the visible terminal runs it is that terminal's.
LEMMA ClearStep ==
    ASSUME IInv, Clear
    PROVE  /\ IInv'
           /\ current_visible = terminal_num =>
                 screen' = [screen EXCEPT ![current_visible] = [text |-> BlankText, x |-> 0, y |-> 0]]
           /\ UNCHANGED <<current_visible, terminal_num>>
  <1> DEFINE v == current_visible
             s == [text |-> BlankText, x |-> 0, y |-> 0]
             page == Home(terminal_num)
  <1>1. v \in Terminals /\ terminal_num \in Terminals /\ 0 \in LineLengths
    BY Rows DEF IInv, Types, LineLengths
  <1>2. /\ memory' = [memory EXCEPT ![page] = BlankText]
        /\ screen_x' = [screen_x EXCEPT ![v] = 0]
        /\ screen_y' = [screen_y EXCEPT ![v] = 0]
        /\ buf_position' = [buf_position EXCEPT ![v] = 0]
        /\ UNCHANGED <<current_visible, terminal_num, tables, stopped>>
    BY Translations DEF Clear, SetScreen
  <1>3. BlankText \in Text
    BY DEF BlankText, Text
  <1>4. page \in Pages /\ \A u \in Terminals : Home(u) \in Pages /\ Home(u)' = Home(u)
    BY <1>1, <1>2, HomesDiffer DEF Home
  <1> HIDE DEF page
  <1>5. Types'
    BY <1>1, <1>2, <1>3, <1>4 DEF IInv, Types
  <1>6. Windows'
    BY <1>2, WindowsKept
  <1>7. ASSUME NEW u \in Terminals PROVE Sound(screen'[u], buf_position'[u])
    <2>1. screen'[u] = [text |-> memory'[Home(u)], x |-> screen_x'[u], y |-> screen_y'[u]]
      BY <1>4 DEF screen
    <2>2. memory'[Home(u)] \in Text
      BY <1>4, <1>5 DEF Types
    <2>3. CASE u = v
      <3>1. screen'[u] \in Screen /\ screen'[u].x = 0 /\ screen'[u].y = 0 /\ buf_position'[u] = 0
        BY <1>1, <1>2, <2>1, <2>2, <2>3 DEF IInv, Types, Screen
      <3>2. Position(screen'[u]) = 0
        BY <3>1, Rows DEF Position
      <3> QED  BY <3>1, <3>2, Rows DEF Sound
    <2>4. CASE u # v
      <3>1. /\ screen'[u] = [text |-> memory'[Home(u)], x |-> screen_x[u], y |-> screen_y[u]]
            /\ buf_position'[u] = buf_position[u]
        BY <1>2, <2>1, <2>4 DEF IInv, Types
      <3>2. screen[u] = [text |-> memory[Home(u)], x |-> screen_x[u], y |-> screen_y[u]]
        BY DEF screen
      <3>3. Sound(screen[u], buf_position[u])
        BY DEF IInv, SoundScreens
      <3> QED  BY <2>2, <3>1, <3>2, <3>3 DEF Sound, Screen, Position
    <2> QED  BY <2>3, <2>4
  <1>8. ASSUME v = terminal_num PROVE screen' = [screen EXCEPT ![v] = s]
    <2>1. s \in Screen
      BY <1>3 DEF Screen
    <2>2. Translate("kernel", VIDEO_MEMORY) = Home(v)
      BY <1>8, Translations
    <2>3. SetScreen("kernel", VIDEO_MEMORY, v, s)
      BY DEF Clear
    <2> HIDE DEF s
    <2> QED  BY <1>1, <1>2, <2>1, <2>2, <2>3, PrintStep
  <1> QED  BY <1>2, <1>5, <1>6, <1>7, <1>8 DEF IInv, SoundScreens

\* What a program draws through vidmap is on its terminal's screen.
LEMMA DrawStep ==
    ASSUME IInv, NEW i \in Cells, NEW c \in Inks, VidmapStore(i, c)
    PROVE  /\ IInv'
           /\ screen' = [screen EXCEPT ![terminal_num].text[i] = c]
           /\ UNCHANGED <<current_visible, terminal_num>>
  <1> DEFINE n == terminal_num
  <1>1. n \in Terminals /\ Home(n) \in Pages /\ memory \in [Pages -> Text]
    BY HomesDiffer DEF IInv, Types
  <1>2. /\ memory' = [memory EXCEPT ![Home(n)][i] = c]
        /\ UNCHANGED <<current_visible, terminal_num, tables, cursors, buf_position, stopped>>
    BY Translations DEF VidmapStore
  <1>3. /\ memory' \in [Pages -> Text]
        /\ memory'[Home(n)] = [memory[Home(n)] EXCEPT ![i] = c]
        /\ \A p \in Pages \ {Home(n)} : memory'[p] = memory[p]
    BY <1>1, <1>2 DEF Text
  <1>4. \A u \in Terminals : Home(u)' = Home(u)
    BY <1>2 DEF Home
  <1>5. ASSUME NEW u \in Terminals
        PROVE  screen'[u] = [text |-> IF u = n THEN [memory[Home(n)] EXCEPT ![i] = c] ELSE memory[Home(u)],
                             x |-> screen_x[u], y |-> screen_y[u]]
    <2>1. screen'[u] = [text |-> memory'[Home(u)], x |-> screen_x[u], y |-> screen_y[u]]
      BY <1>2, <1>4 DEF screen, cursors
    <2>2. Home(u) \in Pages /\ (u # n => Home(u) # Home(n))
      BY <1>1, HomesDiffer
    <2> QED  BY <1>3, <2>1, <2>2
  <1>6. screen' = [screen EXCEPT ![n].text[i] = c]
    BY <1>1, <1>5 DEF screen
  <1>7. Types' /\ Windows'
    BY <1>2, <1>3, WindowsKept DEF IInv, Types, cursors
  <1>8. ASSUME NEW u \in Terminals PROVE Sound(screen'[u], buf_position'[u])
    <2>1. screen'[u] = [text |-> memory'[Home(u)], x |-> screen_x[u], y |-> screen_y[u]]
      BY <1>2, <1>4 DEF screen, cursors
    <2>2. screen[u] = [text |-> memory[Home(u)], x |-> screen_x[u], y |-> screen_y[u]]
      BY DEF screen
    <2>3. memory'[Home(u)] \in Text /\ Sound(screen[u], buf_position[u]) /\ buf_position' = buf_position
      BY <1>2, <1>3, HomesDiffer DEF IInv, SoundScreens
    <2> QED  BY <2>1, <2>2, <2>3 DEF Sound, Screen, Position
  <1> QED  BY <1>2, <1>6, <1>7, <1>8 DEF IInv, SoundScreens

\* After term_page_switch both windows lead to the running terminal's screen.
LEMMA PageSwitch ==
    ASSUME IInv, term_page_switch(current_visible', terminal_num')
    PROVE  Windows'
  <1> DEFINE page == IF current_visible' = terminal_num' THEN VIDEO_MEMORY ELSE Backup(terminal_num')
  <1>1. Home(terminal_num)' = page
    BY DEF Home
  <1>2. /\ video_page_table' = [video_page_table EXCEPT ![VIDEO_MEMORY] = page]
        /\ vidmap_page_table' = [vidmap_page_table EXCEPT ![0] = page]
    BY DEF term_page_switch
  <1> HIDE DEF page
  <1>3. /\ video_page_table' = [p \in Pages |-> IF p = VIDEO_MEMORY THEN page
                                                ELSE IF p = back_door_entry THEN VIDEO_MEMORY ELSE p]
        /\ vidmap_page_table' = [p \in {0} |-> page]
    BY <1>2, PagesDiffer DEF IInv, Windows
  <1> QED  BY <1>1, <1>3 DEF Windows

\* A step that leaves every screen as it is keeps them sound.
LEMMA SoundKept ==
    ASSUME IInv, UNCHANGED <<screen, buf_position>>
    PROVE  SoundScreens'
  BY DEF IInv, SoundScreens

\* The copies of term_visible_switch move two screens and change none.
LEMMA SwitchStep ==
    ASSUME IInv, NEW dest \in Terminals, term_visible_switch(dest)
    PROVE  IInv' /\ UNCHANGED <<screen, terminal_num>> /\ current_visible' = dest
  <1> DEFINE v == current_visible
             saved == [memory EXCEPT ![Backup(v)] = memory[VIDEO_MEMORY]]
  <1>1. v \in Terminals /\ memory \in [Pages -> Text]
    BY DEF IInv, Types
  <1>2. /\ memory' = [saved EXCEPT ![VIDEO_MEMORY] = saved[Backup(dest)]]
        /\ current_visible' = dest
        /\ term_page_switch(dest, terminal_num)
        /\ UNCHANGED <<terminal_num, cursors, buf_position, stopped>>
    BY <1>1, Translations DEF term_visible_switch, Swapped
  <1>3. saved \in [Pages -> Text] /\ saved[Backup(v)] = memory[VIDEO_MEMORY]
        /\ \A p \in Pages : p # Backup(v) => saved[p] = memory[p]
    BY <1>1, PagesDiffer
  <1> HIDE DEF saved
  <1>4. /\ memory' \in [Pages -> Text] /\ memory'[VIDEO_MEMORY] = saved[Backup(dest)]
        /\ \A p \in Pages : p # VIDEO_MEMORY => memory'[p] = saved[p]
    BY <1>2, <1>3, PagesDiffer
  <1>5. ASSUME NEW t \in Terminals PROVE memory'[Home(t)'] = memory[Home(t)]
    <2>1. CASE t = dest
      <3>1. Home(t)' = VIDEO_MEMORY /\ memory'[Home(t)'] = saved[Backup(t)]
        BY <1>2, <1>4, <2>1 DEF Home
      <3> QED  BY <1>1, <1>3, <3>1, PagesDiffer DEF Home
    <2>2. CASE t # dest
      <3>1. Home(t)' = Backup(t) /\ memory'[Home(t)'] = saved[Backup(t)]
        BY <1>2, <1>4, <2>2, PagesDiffer DEF Home
      <3> QED  BY <1>1, <1>3, <3>1, PagesDiffer DEF Home
    <2> QED  BY <2>1, <2>2
  <1>6. UNCHANGED screen
    BY <1>2, <1>5 DEF screen, cursors
  <1>7. Types'
    BY <1>2, <1>4 DEF IInv, Types, cursors
  <1>8. Windows'
    BY <1>2, PageSwitch
  <1>9. SoundScreens'
    BY <1>2, <1>6, SoundKept
  <1> QED  BY <1>2, <1>6, <1>7, <1>8, <1>9 DEF IInv

\* The timer interrupt moves the windows and changes no screen.
LEMMA TickStep ==
    ASSUME IInv, Tick
    PROVE  IInv' /\ UNCHANGED <<screen, current_visible>> /\ terminal_num' \in Terminals
  <1>1. /\ terminal_num' = (terminal_num + 1) % NUM_OF_TERMINAL
        /\ term_page_switch(current_visible', terminal_num')
        /\ UNCHANGED <<current_visible, memory, cursors, buf_position, stopped>>
    BY DEF Tick
  <1>2. terminal_num' \in Terminals
    BY <1>1, TerminalsAssumption DEF IInv, Types, Terminals
  <1>3. UNCHANGED screen
    BY <1>1 DEF screen, Home, cursors
  <1>4. Types'
    BY <1>1, <1>2 DEF IInv, Types, cursors
  <1>5. Windows'
    BY <1>1, PageSwitch
  <1>6. SoundScreens'
    BY <1>1, <1>3, SoundKept
  <1> QED  BY <1>1, <1>2, <1>3, <1>4, <1>5, <1>6 DEF IInv

\* A step that changes nothing keeps the invariant and the screens.
LEMMA StutterStep == ASSUME IInv, UNCHANGED vars PROVE IInv' /\ UNCHANGED screen
  <1>1. UNCHANGED screen
    BY DEF vars, screen, Home
  <1>2. Types' /\ Windows'
    BY WindowsKept DEF vars, tables, IInv, Types
  <1>3. SoundScreens'
    BY <1>1, SoundKept DEF vars
  <1> QED  BY <1>1, <1>2, <1>3 DEF IInv

\* Every step keeps the invariant.
LEMMA NextInv == IInv /\ [Next]_vars => IInv'
  <1> SUFFICES ASSUME IInv, [Next]_vars PROVE IInv'
    OBVIOUS
  <1>1. ASSUME NEW chars \in Texts, Write(chars) \/ Exception(chars) PROVE IInv'
    BY <1>1, PrintsStep DEF Write, Exception, IInv, Types
  <1>2. CASE Program
    BY <1>1, <1>2, DrawStep DEF Program
  <1>3. CASE Key
    BY <1>3, KeyStep, ClearStep, SwitchStep DEF Key
  <1>4. CASE Tick
    BY <1>4, TickStep
  <1>5. CASE UNCHANGED vars
    BY <1>5, StutterStep
  <1> QED  BY <1>2, <1>3, <1>4, <1>5 DEF Next

\* The invariant holds in every state.
THEOREM Invariance == Spec => []IInv
  BY InitInv, NextInv, PTL DEF Spec

\* Every variable keeps its type: the windows lead to pages of the display,
\* and no cursor leaves its rows, or its columns by more than a line.
THEOREM TypeCorrect == Spec => []TypeOK
  <1>1. IInv => TypeOK
    <2> SUFFICES ASSUME IInv PROVE TypeOK
      OBVIOUS
    <2>1. video_page_table \in [Pages -> Pages] /\ vidmap_page_table \in [{0} -> Pages]
      BY PagesDiffer, HomesDiffer DEF IInv, Types, Windows
    <2>2. ASSUME NEW t \in Terminals
          PROVE  screen_x[t] \in 1 - MAX_BUF_LENGTH .. NUM_COLS /\ screen_y[t] \in 0 .. NUM_ROWS - 1
      <3>1. screen[t].x = screen_x[t] /\ screen[t].y = screen_y[t]
        BY DEF screen
      <3>2. Sound(screen[t], buf_position[t]) /\ buf_position[t] \in LineLengths
        BY DEF IInv, SoundScreens, Types
      <3>3. /\ screen_x[t] \in Int /\ buf_position[t] \in 0 .. MAX_BUF_LENGTH - 1
            /\ screen_x[t] \in buf_position[t] + 1 - MAX_BUF_LENGTH .. NUM_COLS
            /\ screen_y[t] \in 0 .. NUM_ROWS - 1
        BY <3>1, <3>2 DEF Sound, LineLengths, IInv, Types
      <3>4. MAX_BUF_LENGTH \in Nat \ {0} /\ NUM_COLS \in Nat
        BY Rows
      <3>5. 1 - MAX_BUF_LENGTH <= screen_x[t] /\ screen_x[t] <= NUM_COLS
        BY <3>3, <3>4
      <3> QED  BY <3>3, <3>4, <3>5
    <2>3. /\ screen_x \in [Terminals -> 1 - MAX_BUF_LENGTH .. NUM_COLS]
          /\ screen_y \in [Terminals -> 0 .. NUM_ROWS - 1]
      BY <2>2 DEF IInv, Types
    <2> QED  BY <2>1, <2>3 DEF IInv, Types, TypeOK, Text, LineLengths
  <1> QED  BY <1>1, Invariance, PTL

\* The line being typed at a terminal can always be erased without leaving
\* the screen, whatever programs print and scroll in between.
THEOREM LinesOnScreen == Spec => []LineOnScreen
  <1>1. IInv => LineOnScreen
    BY DEF IInv, SoundScreens, Sound, screen, Position, LineOnScreen
  <1> QED  BY <1>1, Invariance, PTL

(***************************************************************************)
(* The refinement of Screens.                                              *)
(***************************************************************************)
\* Screens prints as the driver does: both use Console.
LEMMA SamePrinting ==
    /\ \A s, c : Promised!Put(s, c) = Put(s, c)
    /\ \A s, chars : Promised!PutAll(s, chars) = PutAll(s, chars)
  <1>1. \A s, c : Promised!Put(s, c) = Put(s, c)
    BY DEF Promised!Put, Put, Promised!NextRow, NextRow, Promised!Stored, Stored, Promised!Position,
           Position, Promised!Scrolled, Scrolled, Promised!Cells, Cells, Promised!NL, NL,
           Promised!BS, BS, Promised!Blank, Blank
  <1>2. \A s, chars : Promised!PutAll(s, chars) = PutAll(s, chars)
    BY <1>1 DEF Promised!PutAll, PutAll
  <1> QED  BY <1>1, <1>2

\* At boot every terminal's screen is blank.
LEMMA PromisedInit == Init => Promised!Init
  <1> SUFFICES ASSUME Init PROVE Promised!Init
    OBVIOUS
  <1>1. screen = [t \in Terminals |-> [text |-> BlankText, x |-> 0, y |-> 0]]
    BY HomesDiffer DEF Init, screen
  <1>2. current_visible \in Terminals /\ terminal_num \in Terminals
    BY InitInv DEF IInv, Types
  <1> QED  BY <1>1, <1>2 DEF Promised!Init, screen, Home, Promised!BlankText, BlankText,
                             Promised!Cells, Cells, Promised!Blank, Blank

\* Every step of the driver is a step of Screens or leaves the screens as
\* they are.
LEMMA PromisedNext ==
    ASSUME ~ClearAnywhere, IInv, [Next]_vars
    PROVE  Promised!Next \/ UNCHANGED <<screen, current_visible, terminal_num>>
  <1>1. ASSUME NEW chars \in Texts, Write(chars) \/ Exception(chars) PROVE Promised!Next
    <2>1. screen' = [screen EXCEPT ![terminal_num] = PutAll(screen[terminal_num], chars)]
          /\ UNCHANGED <<current_visible, terminal_num>>
      BY <1>1, PrintsStep DEF Write, Exception, Prints, IInv, Types
    <2>2. Promised!ProgramPrints(chars)
      BY <2>1, SamePrinting DEF Promised!ProgramPrints, screen, Home
    <2> QED  BY <2>2 DEF Promised!Next
  <1>2. ASSUME NEW i \in Cells, NEW c \in Inks, VidmapStore(i, c) PROVE Promised!Next
    <2>1. screen' = [screen EXCEPT ![terminal_num].text[i] = c]
          /\ UNCHANGED <<current_visible, terminal_num>>
      BY <1>2, DrawStep
    <2>2. Promised!Draw(i, c)
      BY <2>1 DEF Promised!Draw, screen, Home
    <2> QED  BY <2>2 DEF Promised!Next, Promised!Cells, Cells
  <1>3. ASSUME NEW c \in Inks \cup {NL, BS}, add_to_buffer(c) PROVE Promised!Next
    <2>1. screen' = [screen EXCEPT ![current_visible] = Put(screen[current_visible], c)]
          /\ UNCHANGED <<current_visible, terminal_num>>
      BY <1>3, KeyStep
    <2>2. Promised!Echo(c)
      BY <2>1, SamePrinting DEF Promised!Echo, screen, Home
    <2> QED  BY <2>2 DEF Promised!Next, Promised!NL, NL, Promised!BS, BS
  <1>4. ASSUME Clear PROVE Promised!Next
    <2>1. current_visible = terminal_num
      BY <1>4 DEF Clear
    <2>2. screen' = [screen EXCEPT ![current_visible] = [text |-> BlankText, x |-> 0, y |-> 0]]
          /\ UNCHANGED <<current_visible, terminal_num>>
      BY <1>4, <2>1, ClearStep
    <2>3. Promised!Clear
      BY <2>2 DEF Promised!Clear, screen, Home, Promised!BlankText, BlankText,
                  Promised!Cells, Cells, Promised!Blank, Blank
    <2> QED  BY <2>3 DEF Promised!Next
  <1>5. ASSUME NEW t \in Terminals, term_visible_switch(t) PROVE Promised!Next
    <2>1. UNCHANGED <<screen, terminal_num>> /\ current_visible' = t
      BY <1>5, SwitchStep
    <2>2. Promised!Show(t)
      BY <2>1 DEF Promised!Show, screen, Home
    <2> QED  BY <2>2 DEF Promised!Next
  <1>6. ASSUME Tick PROVE Promised!Next
    <2>1. PICK t \in Terminals : terminal_num' = t
      BY <1>6, TickStep
    <2>2. Promised!Run(t)
      BY <1>6, <2>1, TickStep DEF Promised!Run, screen, Home
    <2> QED  BY <2>2 DEF Promised!Next
  <1>7. CASE UNCHANGED vars
    BY <1>7, StutterStep DEF vars
  <1>8. CASE Program
    BY <1>1, <1>2, <1>8 DEF Program
  <1>9. CASE Key
    BY <1>3, <1>4, <1>5, <1>9 DEF Key
  <1> QED  BY <1>6, <1>7, <1>8, <1>9 DEF Next

\* When Ctrl-L is pressed only while the terminal shown is the one that runs,
\* the display keeps the promise of Screens: each terminal's programs and keys
\* print on its own screen, shown or hidden, and showing or running another
\* terminal changes no screen.
THEOREM ScreensKept == ASSUME ~ClearAnywhere PROVE Spec => KeepsScreens
  <1>1. Init => Promised!Init
    BY PromisedInit
  <1>2. IInv /\ [Next]_vars => [Promised!Next]_(Promised!vars)
    BY PromisedNext DEF Promised!vars, screen, Home
  <1>3. Spec => []IInv
    BY Invariance
  <1> QED  BY <1>1, <1>2, <1>3, PTL DEF Spec, KeepsScreens, Promised!Spec
=============================================================================
