-------------------------- MODULE InterruptsProofs --------------------------
(***************************************************************************)
(* Proofs about Interrupts, for any number of terminals, any keys and any  *)
(* length of the keyboard's buffer, with keys pressed at boot or not:      *)
(* every interrupt is acknowledged at the right controller, and a key does *)
(* what its user meant when it was pressed.                                *)
(***************************************************************************)
EXTENDS Interrupts, SequenceTheorems, TLAPS

----------------------------------------------------------------------------
FlagStates == [Flags -> {0, 1}]

\* The four keys with a flag of their own.
LEMMA ModifierKeys ==
    /\ DOMAIN FlagOf = {29, 42, 54, 56}
    /\ FlagOf[29] = "control_flag" /\ FlagOf[42] = "left_shift_flag"
    /\ FlagOf[54] = "right_shift_flag" /\ FlagOf[56] = "alt_flag"
  BY DEF FlagOf, ALT_PRESSED, RIGHT_SHIFT_PRESSED, LEFT_SHIFT_PRESSED, CTRL_PRESSED

PrintableKeys == 1 .. 57 \ {1, 15, 28, 29, 42, 54, 56}

\* The two tables and is_letter agree: the keys of the letters, and no others,
\* have different characters in the tables where Caps Lock is to change them.
LEMMA Tables ==
    ASSUME NEW key \in PrintableKeys
    PROVE  LET c == keyboard_mapping_lowercase[key + 1]
               C == keyboard_mapping_capital[key + 1]
           IN  IF c \in 97 .. 122 THEN is_letter(key) /\ C = c - 32
               ELSE ~is_letter(key) \/ C = c
  BY DEF PrintableKeys, keyboard_mapping_lowercase, keyboard_mapping_capital, is_letter

(***************************************************************************)
(* The flags f are what the handler has once it has read every key pressed *)
(* so far: they agree with the keys that are down and with Caps Lock.      *)
(***************************************************************************)
Matches(f) ==
    /\ f \in FlagStates
    /\ \A key \in DOMAIN FlagOf : f[FlagOf[key]] = 1 <=> key \in down
    /\ f["caps_lock_flag"] = 1 <=> CAPS_LOCK_PRESSED \in down
    /\ f["caps_lock_counter"] = 1 <=> caps

\* With such flags the handler does with a key what its user means.
LEMMA MeantIsMeaning ==
    ASSUME NEW f, Matches(f), caps \in BOOLEAN, NEW key \in 1 .. 83
    PROVE  Meant(key) = Meaning(f, key)
  <1> USE DEF ENTER_PRESSED, OPCODE_L, F1, END_OF_PRINTABLE
  <1>1. /\ f["control_flag"] \in {0, 1} /\ (f["control_flag"] = 1 <=> CTRL_PRESSED \in down)
        /\ f["alt_flag"] \in {0, 1} /\ (f["alt_flag"] = 1 <=> ALT_PRESSED \in down)
        /\ f["left_shift_flag"] = 1 <=> LEFT_SHIFT_PRESSED \in down
        /\ f["right_shift_flag"] = 1 <=> RIGHT_SHIFT_PRESSED \in down
        /\ f["caps_lock_counter"] = 1 <=> caps
    BY ModifierKeys DEF Matches, FlagStates, Flags, CTRL_PRESSED, ALT_PRESSED, LEFT_SHIFT_PRESSED,
                        RIGHT_SHIFT_PRESSED
  <1>2. Captured = {28, 15, 1, 58, 29, 42, 54, 56}
    BY ModifierKeys DEF Captured, TAB_OPCODE, ESCAPE_OPCODE, CAPS_LOCK_PRESSED
  <1>3. CASE key = 28
    BY <1>2, <1>3 DEF Meant, Meaning
  <1>4. CASE key = 38 /\ CTRL_PRESSED \in down
    BY <1>1, <1>4 DEF Meant, Meaning
  <1>5. CASE key \in 59 .. 61
    BY <1>1, <1>5 DEF Meant, Meaning
  <1>6. CASE key # 28 /\ key \notin 59 .. 61 /\ (key \in Captured \/ key > 57)
    BY <1>2, <1>6 DEF Meant, Meaning
  <1>7. CASE key \in PrintableKeys /\ ~(key = 38 /\ CTRL_PRESSED \in down)
             /\ (CTRL_PRESSED \in down \/ ALT_PRESSED \in down)
    BY <1>1, <1>2, <1>7 DEF Meant, Meaning, PrintableKeys
  <1>8. CASE key \in PrintableKeys /\ CTRL_PRESSED \notin down /\ ALT_PRESSED \notin down
    <2>1. Meaning(f, key) = Types(Character(f, key))
      BY <1>1, <1>2, <1>8 DEF Meaning, PrintableKeys
    <2> DEFINE c == keyboard_mapping_lowercase[key + 1]
               shift == down \cap {LEFT_SHIFT_PRESSED, RIGHT_SHIFT_PRESSED} # {}
    <2>2. Meant(key) = IF c \in 97 .. 122 THEN Types(IF shift # caps THEN c - 32 ELSE c)
                       ELSE Types(IF shift THEN keyboard_mapping_capital[key + 1] ELSE c)
      BY <1>2, <1>8 DEF Meant, PrintableKeys
    <2>3. shift <=> f["right_shift_flag"] = 1 \/ f["left_shift_flag"] = 1
      BY <1>1
    <2> DEFINE C == keyboard_mapping_capital[key + 1]
               capital == IF f["caps_lock_counter"] = 1 /\ is_letter(key) THEN ~shift ELSE shift
    <2>4. Character(f, key) = IF capital THEN C ELSE c
      BY <2>3 DEF Character
    <2>5. IF c \in 97 .. 122 THEN is_letter(key) /\ C = c - 32 ELSE ~is_letter(key) \/ C = c
      BY <1>8, Tables
    <2>6. shift \in BOOLEAN
      OBVIOUS
    <2> HIDE DEF c, C, shift
    <2>7. CASE c \in 97 .. 122
      <3>1. capital <=> shift # caps
        BY <1>1, <2>5, <2>6, <2>7
      <3> QED  BY <2>1, <2>2, <2>4, <2>5, <2>7, <3>1
    <2>8. CASE c \notin 97 .. 122
      <3>1. C = c \/ (capital <=> shift)
        BY <2>5, <2>8
      <3> QED  BY <2>1, <2>2, <2>4, <2>8, <3>1 DEF C
    <2> QED  BY <2>7, <2>8
  <1> QED  BY <1>2, <1>3, <1>4, <1>5, <1>6, <1>7, <1>8 DEF PrintableKeys

\* The flags the handler computes are flags.
LEMMA ModifiersIsState ==
    ASSUME NEW f \in FlagStates, NEW code \in Int
    PROVE  Modifiers(f, code) \in FlagStates
  <1>1. CapsLock(f) \in FlagStates
    <2>1. f["caps_lock_counter"] \in {0, 1}
      BY DEF FlagStates, Flags
    <2>2. 1 - f["caps_lock_counter"] \in {0, 1}
      BY <2>1
    <2> QED  BY <2>2 DEF CapsLock, FlagStates
  <1>2. \A key \in DOMAIN FlagOf : FlagOf[key] \in Flags
    BY ModifierKeys DEF Flags
  <1>3. CASE code \in DOMAIN FlagOf
    BY <1>2, <1>3, ModifierKeys DEF Modifiers, Released, FlagStates, CAPS_LOCK_PRESSED
  <1>4. CASE code \in {157, 170, 182, 184}
    <2>1. Modifiers(f, code) = [f EXCEPT ![FlagOf[code - 128]] = 0] /\ code - 128 \in DOMAIN FlagOf
      BY <1>4, ModifierKeys DEF Modifiers, Released, CAPS_LOCK_PRESSED
    <2> QED  BY <1>2, <2>1 DEF FlagStates
  <1>5. CASE code \notin DOMAIN FlagOf /\ code \notin {157, 170, 182, 184}
    <2>1. Modifiers(f, code) \in {CapsLock(f), [f EXCEPT !["caps_lock_flag"] = 0], f}
      BY <1>5, ModifierKeys DEF Modifiers, Released, CAPS_LOCK_PRESSED
    <2> QED  BY <1>1, <2>1 DEF FlagStates, Flags
  <1> QED  BY <1>3, <1>4, <1>5

\* A key pressed, again and again while it is held down, changes the flags the
\* way it changes what the user holds down.
LEMMA PressMatches ==
    ASSUME NEW f, Matches(f), caps \in BOOLEAN, NEW key \in 1 .. 83, NEW g, g = Modifiers(f, key),
           down' = down \cup ({key} \cap Holdable),
           caps' = IF key = CAPS_LOCK_PRESSED /\ key \notin down THEN ~caps ELSE caps
    PROVE  Matches(g)'
  <1> USE DEF CAPS_LOCK_PRESSED
  <1>1. f \in FlagStates /\ g \in FlagStates
    BY ModifiersIsState DEF Matches
  <1>2. Holdable = {29, 42, 54, 56, 58}
    BY ModifierKeys DEF Holdable
  <1>3. CASE key \in DOMAIN FlagOf
    <2>1. g = [f EXCEPT ![FlagOf[key]] = 1]
      <3>1. key \notin {Released(k) : k \in DOMAIN FlagOf} /\ key # 58 /\ key # Released(58)
        BY <1>3, ModifierKeys DEF Released
      <3> QED  BY <1>3, <3>1 DEF Modifiers
    <2>2. UNCHANGED caps /\ down' = down \cup {key}
      <3>1. key \in Holdable /\ key # 58
        BY <1>2, <1>3, ModifierKeys
      <3> QED  BY <3>1
    <2> QED  BY <1>1, <1>3, <2>1, <2>2, ModifierKeys DEF Matches, FlagStates, Flags
  <1>4. CASE key = 58
    <2>1. g = CapsLock(f) /\ down' = down \cup {58}
      BY <1>2, <1>4, ModifierKeys DEF Modifiers, Released
    <2>2. CASE 58 \in down
      BY <1>1, <1>4, <2>1, <2>2, ModifierKeys DEF Matches, CapsLock
    <2>3. CASE 58 \notin down
      <3>1. g = [f EXCEPT !["caps_lock_flag"] = 1, !["caps_lock_counter"] = 1 - @]
        BY <2>1, <2>3 DEF Matches, CapsLock
      <3>2. g["caps_lock_flag"] = 1 /\ (g["caps_lock_counter"] = 1 <=> caps')
        <4>1. g["caps_lock_flag"] = 1 /\ g["caps_lock_counter"] = 1 - f["caps_lock_counter"]
              /\ f["caps_lock_counter"] \in {0, 1}
          BY <1>1, <3>1 DEF FlagStates, Flags
        <4>2. g["caps_lock_counter"] = 1 <=> ~(f["caps_lock_counter"] = 1)
          BY <4>1
        <4>3. caps' = ~caps
          BY <1>4, <2>3
        <4> QED  BY <4>1, <4>2, <4>3 DEF Matches
      <3>3. \A k \in DOMAIN FlagOf : g[FlagOf[k]] = f[FlagOf[k]] /\ k # 58
        BY <1>1, <3>1, ModifierKeys DEF FlagStates, Flags
      <3> QED  BY <1>1, <2>1, <3>2, <3>3 DEF Matches
    <2> QED  BY <2>2, <2>3
  <1>5. CASE key \notin DOMAIN FlagOf /\ key # 58
    <2>1. g = f /\ UNCHANGED <<down, caps>>
      BY <1>2, <1>5, ModifierKeys DEF Modifiers, Released
    <2> QED  BY <2>1 DEF Matches
  <1> QED  BY <1>3, <1>4, <1>5

\* So does a key released; and nothing is done with it.
LEMMA ReleaseMatches ==
    ASSUME NEW f, Matches(f), NEW key \in Holdable, NEW g, g = Modifiers(f, Released(key)),
           down' = down \ {key}, UNCHANGED caps
    PROVE  Matches(g)' /\ Meaning(f, Released(key)) = Nothing
  <1> USE DEF CAPS_LOCK_PRESSED
  <1>1. f \in FlagStates /\ key \in {29, 42, 54, 56, 58} /\ DOMAIN FlagOf = {29, 42, 54, 56}
    BY ModifierKeys DEF Matches, Holdable
  <1>2. g \in FlagStates
    BY <1>1, ModifiersIsState DEF Released
  <1>3. Meaning(f, Released(key)) = Nothing
    BY <1>1 DEF Meaning, Released, ENTER_PRESSED, END_OF_PRINTABLE, OPCODE_L, F1
  <1>4. CASE key \in DOMAIN FlagOf
    <2>1. g = [f EXCEPT ![FlagOf[key]] = 0]
      <3>1. Released(key) - 128 = key
        BY <1>1 DEF Released
      <3>2. Released(key) \in {Released(k) : k \in DOMAIN FlagOf}
        BY <1>4
      <3>3. Released(key) \notin DOMAIN FlagOf /\ Released(key) # 58 /\ Released(key) # Released(58)
        BY <1>1, <1>4 DEF Released
      <3> QED  BY <3>1, <3>2, <3>3 DEF Modifiers
    <2>2. ASSUME NEW k \in DOMAIN FlagOf PROVE g[FlagOf[k]] = 1 <=> k \in down'
      <3>1. g[FlagOf[k]] = IF k = key THEN 0 ELSE f[FlagOf[k]]
        BY <1>1, <1>4, <2>1, ModifierKeys DEF FlagStates, Flags
      <3> QED  BY <3>1 DEF Matches
    <2>3. g["caps_lock_flag"] = f["caps_lock_flag"] /\ g["caps_lock_counter"] = f["caps_lock_counter"]
      BY <1>1, <1>4, <2>1, ModifierKeys DEF FlagStates, Flags
    <2>4. g["caps_lock_flag"] = 1 <=> 58 \in down'
      BY <1>1, <1>4, <2>3 DEF Matches
    <2>5. g["caps_lock_counter"] = 1 <=> caps'
      BY <2>3 DEF Matches
    <2> QED  BY <1>2, <1>3, <2>2, <2>4, <2>5 DEF Matches
  <1>5. CASE key = 58
    <2>1. g = [f EXCEPT !["caps_lock_flag"] = 0]
      <3>1. Released(58) \notin DOMAIN FlagOf /\ Released(58) # 58
            /\ Released(58) \notin {Released(k) : k \in DOMAIN FlagOf}
        BY <1>1 DEF Released
      <3> QED  BY <1>5, <3>1 DEF Modifiers
    <2>2. \A k \in DOMAIN FlagOf : k # 58 /\ g[FlagOf[k]] = f[FlagOf[k]]
      BY <1>1, <2>1, ModifierKeys DEF FlagStates, Flags
    <2>3. g["caps_lock_flag"] = 0 /\ g["caps_lock_counter"] = f["caps_lock_counter"]
      BY <1>1, <2>1 DEF FlagStates, Flags
    <2>4. \A k \in DOMAIN FlagOf : g[FlagOf[k]] = 1 <=> k \in down'
      BY <1>5, <2>2 DEF Matches
    <2>5. g["caps_lock_flag"] = 1 <=> 58 \in down'
      BY <1>5, <2>3
    <2>6. g["caps_lock_counter"] = 1 <=> caps'
      BY <2>3 DEF Matches
    <2> QED  BY <1>2, <1>3, <2>4, <2>5, <2>6 DEF Matches
  <1> QED  BY <1>1, <1>4, <1>5

(***************************************************************************)
(* The inductive invariant.  What a key in the keyboard's buffer will do   *)
(* depends on the keys in front of it: Foreseen says that the flags the    *)
(* handler will have when it comes to each of them are those for which the *)
(* key does what was meant, and those after the last agree with the keys   *)
(* that are down.                                                          *)
(***************************************************************************)
Meanings == {Meaning(f, code) : f \in FlagStates, code \in Codes}
Event == [code : Codes, meant : Meanings]

Foreseen ==
    \E fs \in [0 .. Len(queue) -> FlagStates] :
        /\ fs[0] = flags
        /\ \A i \in 1 .. Len(queue) : /\ fs[i] = Modifiers(fs[i - 1], queue[i].code)
                                      /\ queue[i].meant = Meaning(fs[i - 1], queue[i].code)
        /\ Matches(fs[Len(queue)])

\* The keyboard's line is requested for a key nobody is reading.
Requested == KEYBOARD \in irr => handler = None /\ queue # << >>

IInv == TypeOK /\ queue \in Seq(Event) /\ Acknowledged /\ Requested /\ Foreseen

\* Scancodes are numbers.
LEMMA CodesAreNumbers == Codes \subseteq Int /\ \A key \in Keys : key \in 1 .. 83 /\ Released(key) \in Int
  <1>1. \A key \in Keys : key \in 1 .. 83
    BY KeysAssumption
  <1>2. \A key \in Keys : Released(key) \in Int
    BY <1>1 DEF Released
  <1> QED  BY <1>1, <1>2 DEF Codes

\* The lines of the three devices in the controllers.
LEMMA Lines ==
    ASSUME NEW S, S = {} \/ S = {KEYBOARD}
    PROVE  /\ send_eoi(S \cup {PIT, OnMaster(PIT)}, PIT) = S
           /\ send_eoi(S \cup {RTC, OnMaster(RTC)}, RTC) = S
           /\ S = {} => S \cup {KEYBOARD, OnMaster(KEYBOARD)} = {KEYBOARD}
           /\ send_eoi(S, KEYBOARD) = {}
  BY DEF send_eoi, OnMaster, PIT, KEYBOARD, RTC, SLAVE

\* At boot nothing is requested, in service or pressed.
LEMMA InitInv == Init => IInv
  <1> SUFFICES ASSUME Init PROVE IInv
    OBVIOUS
  <1>1. NoFlags \in FlagStates
    BY DEF NoFlags, FlagStates
  <1>2. TypeOK
    <2>1. Len(queue) <= QueueLength /\ DOMAIN queue = {}
      BY QueueAssumption DEF Init
    <2> QED  BY <1>1, <2>1 DEF Init, TypeOK, FlagStates, Boot, None
  <1>3. queue \in Seq(Event) /\ Acknowledged /\ Requested
    BY DEF Init, Acknowledged, Requested
  <1>4. Foreseen
    <2>1. Matches(flags)
      BY <1>1, ModifierKeys DEF Init, Matches, NoFlags, Flags
    <2> DEFINE fs == [i \in 0 .. 0 |-> flags]
    <2>2. Len(queue) = 0 /\ fs \in [0 .. 0 -> FlagStates] /\ fs[0] = flags
      BY <1>1 DEF Init
    <2> HIDE DEF fs
    <2> QED  BY <2>1, <2>2 DEF Foreseen
  <1> QED  BY <1>2, <1>3, <1>4 DEF IInv

\* What is foreseen does not change while no key is pressed or read.
LEMMA ForeseenKept == ASSUME IInv, UNCHANGED <<flags, queue, down, caps>> PROVE Foreseen'
  BY DEF IInv, Foreseen, Matches

\* A scancode added to the buffer finds, when its turn comes, the flags that the
\* keys in front of it leave.
LEMMA SendsInv ==
    ASSUME IInv, NEW code \in Codes, NEW meant, Sends(code, meant),
           down' \subseteq Holdable, caps' \in BOOLEAN,
           \A f : Matches(f) => meant = Meaning(f, code) /\ Matches(Modifiers(f, code))'
    PROVE  IInv'
  <1> DEFINE n == Len(queue)
             e == [code |-> code, meant |-> meant]
  <1>1. PICK fs \in [0 .. n -> FlagStates] :
            /\ fs[0] = flags
            /\ \A i \in 1 .. n : /\ fs[i] = Modifiers(fs[i - 1], queue[i].code)
                                 /\ queue[i].meant = Meaning(fs[i - 1], queue[i].code)
            /\ Matches(fs[n])
    BY DEF IInv, Foreseen
  <1>2. queue \in Seq(Event) /\ n \in Nat
    BY DEF IInv
  <1>3. PICK f : f = fs[n]
    OBVIOUS
  <1>4. f \in FlagStates /\ meant = Meaning(f, code) /\ Matches(Modifiers(f, code))'
    BY <1>1, <1>2, <1>3
  <1>5. PICK g : g = Modifiers(f, code)
    OBVIOUS
  <1>6. g \in FlagStates /\ Matches(g)'
    BY <1>4, <1>5, CodesAreNumbers, ModifiersIsState
  <1>7. e \in Event
    BY <1>4 DEF Event, Meanings
  <1>8. queue' = Append(queue, e)
    BY DEF Sends
  <1> HIDE DEF e
  <1>9. /\ queue' \in Seq(Event) /\ Len(queue') = n + 1 /\ queue'[n + 1] = e /\ queue' # << >>
        /\ \A i \in 1 .. n : queue'[i] = queue[i]
    BY <1>2, <1>7, <1>8, AppendProperties
  <1>10. Foreseen'
    <2> DEFINE gs == [i \in 0 .. n + 1 |-> IF i = n + 1 THEN g ELSE fs[i]]
    <2>1. gs \in [0 .. n + 1 -> FlagStates] /\ gs[0] = flags' /\ gs[n + 1] = g /\ \A i \in 0 .. n : gs[i] = fs[i]
      BY <1>1, <1>2, <1>6 DEF Sends
    <2> HIDE DEF gs
    <2>2. ASSUME NEW i \in 1 .. n + 1
          PROVE  /\ gs[i] = Modifiers(gs[i - 1], queue'[i].code)
                 /\ queue'[i].meant = Meaning(gs[i - 1], queue'[i].code)
      <3>1. CASE i = n + 1
        <4>1. gs[i - 1] = f /\ gs[i] = g /\ queue'[i] = e
          BY <1>2, <1>3, <1>9, <2>1, <3>1
        <4> QED  BY <1>4, <1>5, <4>1 DEF e
      <3>2. CASE i # n + 1
        <4>1. i \in 1 .. n /\ i - 1 \in 0 .. n /\ i \in 0 .. n
          BY <1>2, <3>2
        <4>2. gs[i - 1] = fs[i - 1] /\ gs[i] = fs[i] /\ queue'[i] = queue[i]
          BY <1>9, <2>1, <4>1
        <4> QED  BY <1>1, <4>1, <4>2
      <3> QED  BY <3>1, <3>2
    <2>3. gs \in [0 .. Len(queue') -> FlagStates] /\ gs[Len(queue')] = g
      BY <1>9, <2>1
    <2> QED  BY <1>6, <1>9, <2>1, <2>2, <2>3 DEF Foreseen
  <1>11. TypeOK'
    <2>1. Len(queue') <= QueueLength /\ \A i \in DOMAIN queue' : queue'[i].code \in Codes
      <3>1. Len(queue') <= QueueLength
        BY <1>2, <1>9, QueueAssumption DEF Sends
      <3>2. \A i \in DOMAIN queue' : queue'[i] \in Event
        BY <1>9
      <3>3. \A x \in Event : x.code \in Codes
        BY DEF Event
      <3> QED  BY ONLY <3>1, <3>2, <3>3
    <2>2. irr' \subseteq {PIT, KEYBOARD, RTC}
      BY DEF Sends, IInv, TypeOK
    <2> QED  BY <2>1, <2>2 DEF Sends, IInv, TypeOK
  <1>12. Acknowledged' /\ Requested'
    BY <1>9 DEF Sends, IInv, Acknowledged, Requested
  <1> QED  BY <1>9, <1>10, <1>11, <1>12 DEF IInv

\* A key pressed.
LEMMA PressInv ==
    ASSUME IInv, NEW key \in Keys, Press(key)
    PROVE  IInv'
  <1>1. key \in 1 .. 83 /\ key \in Codes /\ caps \in BOOLEAN
    BY CodesAreNumbers DEF IInv, TypeOK, Codes
  <1>2. PICK meant : meant = Meant(key)
    OBVIOUS
  <1>3. /\ Sends(key, Meant(key))
        /\ down' = down \cup ({key} \cap Holdable)
        /\ caps' = IF key = CAPS_LOCK_PRESSED /\ key \notin down THEN ~caps ELSE caps
    BY DEF Press
  <1>4. Sends(key, meant)
    BY <1>2, <1>3 DEF Sends
  <1>5. ASSUME NEW f, Matches(f) PROVE meant = Meaning(f, key) /\ Matches(Modifiers(f, key))'
    <2>1. PICK g : g = Modifiers(f, key)
      OBVIOUS
    <2>2. Matches(g)'
      BY <1>1, <1>3, <1>5, <2>1, PressMatches
    <2>3. meant = Meaning(f, key)
      BY <1>1, <1>2, <1>5, MeantIsMeaning
    <2> QED  BY <2>1, <2>2, <2>3
  <1>6. down' \subseteq Holdable
    BY <1>3 DEF IInv, TypeOK
  <1>7. caps' \in BOOLEAN
    BY <1>1, <1>3
  <1> QED  BY <1>1, <1>4, <1>5, <1>6, <1>7, SendsInv

\* A key released.
LEMMA ReleaseInv ==
    ASSUME IInv, NEW key \in Keys, Release(key)
    PROVE  IInv'
  <1>1. key \in Holdable /\ Released(key) \in Codes /\ caps \in BOOLEAN
    BY DEF IInv, TypeOK, Codes, Release
  <1>2. /\ Sends(Released(key), Nothing)
        /\ down' = down \ {key}
        /\ UNCHANGED caps
    BY DEF Release
  <1>3. PICK code : code = Released(key)
    OBVIOUS
  <1>4. code \in Codes /\ Sends(code, Nothing)
    BY <1>1, <1>2, <1>3
  <1>5. ASSUME NEW f, Matches(f) PROVE Nothing = Meaning(f, code) /\ Matches(Modifiers(f, code))'
    <2>1. PICK g : g = Modifiers(f, code)
      OBVIOUS
    <2>2. Matches(g)' /\ Meaning(f, Released(key)) = Nothing
      BY <1>1, <1>2, <1>3, <1>5, <2>1, ReleaseMatches
    <2> QED  BY <1>3, <2>1, <2>2
  <1>6. down' \subseteq Holdable
    BY <1>2 DEF IInv, TypeOK
  <1>7. caps' \in BOOLEAN
    BY <1>1, <1>2
  <1> QED  BY <1>4, <1>5, <1>6, <1>7, SendsInv

\* keyboard_interrupt_handler from its cli on: the flags move on to those
\* foreseen for the next key.
LEMMA KeyboardReadsInv ==
    ASSUME IInv, KeyboardReads
    PROVE  IInv'
  <1> DEFINE n == Len(queue)
  <1>1. handler = terminal_num /\ handler # None
    BY DEF KeyboardReads, IInv, TypeOK, Terminals, Boot, None
  <1>2. queue # << >> /\ isr = {KEYBOARD} /\ KEYBOARD \notin irr
    BY <1>1 DEF IInv, Acknowledged, Requested
  <1>3. queue \in Seq(Event) /\ n \in Nat \ {0} /\ Head(queue) = queue[1]
    BY <1>2 DEF IInv
  <1>4. /\ queue' = Tail(queue) /\ queue' \in Seq(Event) /\ Len(queue') = n - 1
        /\ \A i \in 1 .. n - 1 : queue'[i] = queue[i + 1]
    BY <1>2, <1>3, HeadTailProperties DEF KeyboardReads
  <1>5. PICK fs \in [0 .. n -> FlagStates] :
            /\ fs[0] = flags
            /\ \A i \in 1 .. n : /\ fs[i] = Modifiers(fs[i - 1], queue[i].code)
                                 /\ queue[i].meant = Meaning(fs[i - 1], queue[i].code)
            /\ Matches(fs[n])
    BY DEF IInv, Foreseen
  <1>6. flags' = fs[1] /\ fs[1] \in FlagStates
    BY <1>3, <1>5 DEF KeyboardReads
  <1>7. Foreseen'
    <2>0. PICK gs : gs = [i \in 0 .. n - 1 |-> fs[i + 1]]
      OBVIOUS
    <2>1. gs \in [0 .. n - 1 -> FlagStates] /\ gs[0] = fs[1] /\ \A i \in 0 .. n - 1 : gs[i] = fs[i + 1]
      BY <2>0, <1>3, <1>5
    <2>2. gs \in [0 .. Len(queue') -> FlagStates] /\ gs[0] = flags' /\ gs[Len(queue')] = fs[n]
      BY <1>3, <1>4, <1>6, <2>1
    <2>3. ASSUME NEW i \in 1 .. Len(queue')
          PROVE  /\ gs[i] = Modifiers(gs[i - 1], queue'[i].code)
                 /\ queue'[i].meant = Meaning(gs[i - 1], queue'[i].code)
      <3>1. i + 1 \in 1 .. n /\ i \in 1 .. n - 1 /\ i - 1 \in 0 .. n - 1 /\ (i + 1) - 1 = i /\ (i - 1) + 1 = i
        BY <1>3, <1>4
      <3>2. gs[i] = fs[i + 1] /\ gs[i - 1] = fs[i] /\ queue'[i] = queue[i + 1]
        BY <1>4, <2>1, <3>1
      <3>3. /\ fs[i + 1] = Modifiers(fs[(i + 1) - 1], queue[i + 1].code)
            /\ queue[i + 1].meant = Meaning(fs[(i + 1) - 1], queue[i + 1].code)
        BY <1>5, <3>1
      <3> QED  BY <3>1, <3>2, <3>3
    <2>4. PICK f : f = fs[n]
      OBVIOUS
    <2>5. Matches(f)'
      BY <1>5, <2>4 DEF Matches, KeyboardReads
    <2>6. (Matches(gs[Len(queue)]))'
      BY <2>2, <2>4, <2>5 DEF Matches
    <2> QED  BY <2>2, <2>3, <2>6 DEF Foreseen
  <1>8. TypeOK'
    <2>1. Len(queue') <= QueueLength /\ \A i \in DOMAIN queue' : queue'[i].code \in Codes
      <3>1. Len(queue') <= QueueLength
        BY <1>3, <1>4, QueueAssumption DEF IInv, TypeOK
      <3>2. queue' \in Seq(Event)
        BY <1>4
      <3>3. \A i \in DOMAIN queue' : queue'[i] \in Event
        BY <3>2
      <3> QED  BY <3>1, <3>3 DEF Event
    <2>2. isr' = {}
      BY <1>2, Lines DEF KeyboardReads, KeyAcknowledged
    <2>3. level' \in [Watched -> {0, 3}]
      BY DEF KeyboardReads, Returned, IInv, TypeOK
    <2>4. irr' \subseteq {PIT, KEYBOARD, RTC}
      BY DEF KeyboardReads, IInv, TypeOK
    <2> QED  BY <1>6, <2>1, <2>2, <2>3, <2>4 DEF KeyboardReads, FlagSaved, IInv, TypeOK, FlagStates
  <1>9. Acknowledged'
    BY <1>2, Lines DEF KeyboardReads, KeyAcknowledged, Acknowledged
  <1>10. Requested'
    BY <1>2, <1>3, <1>4 DEF KeyboardReads, Requested
  <1> QED  BY <1>4, <1>7, <1>8, <1>9, <1>10 DEF IInv

\* The first half of the keyboard handler: its line can be taken only when it
\* is not in service, so the handler is never interrupted by itself.
LEMMA KeyboardEntersInv ==
    ASSUME IInv, KeyboardEnters
    PROVE  IInv'
  <1>1. KEYBOARD \in irr /\ handler = None /\ queue # << >> /\ isr = {}
    BY DEF KeyboardEnters, Deliverable, IInv, Acknowledged, Requested
  <1>2. isr' = {KEYBOARD}
    BY <1>1, Lines DEF KeyboardEnters, InService
  <1>3. terminal_num # None
    BY DEF IInv, TypeOK, Terminals, Boot, None
  <1>4. TypeOK'
    BY <1>2 DEF KeyboardEnters, keyboard, IInv, TypeOK, KEYBOARD
  <1>5. Acknowledged' /\ Requested'
    BY <1>1, <1>2, <1>3 DEF KeyboardEnters, keyboard, Acknowledged, Requested
  <1>6. Foreseen' /\ queue' \in Seq(Event)
    BY ForeseenKept DEF KeyboardEnters, keyboard, IInv
  <1> QED  BY <1>4, <1>5, <1>6 DEF IInv

\* The handlers of the timer and of the clock leave nothing in service.
LEMMA OtherHandlersInv ==
    ASSUME IInv, PitHandler \/ RtcHandler
    PROVE  IInv'
  <1>1. isr = {} \/ isr = {KEYBOARD}
    BY DEF IInv, Acknowledged
  <1>2. isr' = isr /\ irr' \subseteq irr
    BY <1>1, Lines DEF PitHandler, RtcHandler, InService
  <1>3. terminal_num' \in Terminals \cup {Boot}
    <2>1. CASE PitHandler
      <3>1. terminal_num \in Int /\ NUM_OF_TERMINAL \in Nat \ {0}
        BY TerminalsAssumption DEF IInv, TypeOK, Terminals, Boot
      <3> QED  BY <2>1, <3>1 DEF PitHandler, Terminals
    <2>2. CASE RtcHandler
      BY <2>2 DEF RtcHandler, IInv, TypeOK
    <2> QED  BY <2>1, <2>2
  <1>4. TypeOK'
    BY <1>2, <1>3 DEF PitHandler, RtcHandler, keyboard, IInv, TypeOK
  <1>5. Acknowledged' /\ Requested'
    BY <1>2 DEF PitHandler, RtcHandler, keyboard, IInv, Acknowledged, Requested
  <1>6. Foreseen' /\ queue' \in Seq(Event)
    BY ForeseenKept DEF PitHandler, RtcHandler, keyboard, IInv
  <1> QED  BY <1>4, <1>5, <1>6 DEF IInv

\* The steps that touch neither the keys nor what is in service.
LEMMA QuietInv ==
    ASSUME IInv, TypeOK', UNCHANGED <<isr, handler, keyboard>>, KEYBOARD \in irr' => KEYBOARD \in irr
    PROVE  IInv'
  <1>1. Foreseen'
    BY ForeseenKept DEF keyboard
  <1>2. Acknowledged' /\ Requested' /\ queue' \in Seq(Event)
    BY DEF keyboard, IInv, Acknowledged, Requested
  <1> QED  BY <1>1, <1>2 DEF IInv

\* Every step keeps the invariant.
LEMMA NextInv == IInv /\ [Next]_vars => IInv'
  <1> SUFFICES ASSUME IInv, [Next]_vars PROVE IInv'
    OBVIOUS
  <1>1. CASE BootNext
    <2>1. TypeOK'
      BY <1>1 DEF BootNext, BootPic, BootKeyboard, BootSti, BootPit, BootStep, enable_irq, keyboard, IInv, TypeOK
    <2> QED  BY <1>1, <2>1, QuietInv DEF BootNext, BootPic, BootKeyboard, BootSti, BootPit, BootStep
  <1>2. CASE TimerRaises \/ ClockRaises
    <2>1. TypeOK'
      BY <1>2 DEF TimerRaises, ClockRaises, keyboard, IInv, TypeOK
    <2>2. KEYBOARD \in irr' => KEYBOARD \in irr
      BY <1>2 DEF TimerRaises, ClockRaises, KEYBOARD, PIT, RTC
    <2> QED  BY <1>2, <2>1, <2>2, QuietInv DEF TimerRaises, ClockRaises
  <1>3. CASE Devices
    BY <1>2, <1>3, PressInv, ReleaseInv DEF Devices
  <1>4. CASE Handlers
    BY <1>4, OtherHandlersInv, KeyboardEntersInv, KeyboardReadsInv DEF Handlers
  <1>5. CASE Program
    <2>1. TypeOK'
      BY <1>5 DEF Program, EnterSection, LeaveSection, OpenClock, enable_irq, pic, keyboard, IInv, TypeOK
    <2> QED  BY <1>5, <2>1, QuietInv DEF Program, EnterSection, LeaveSection, OpenClock, pic
  <1>6. CASE UNCHANGED vars
    <2>1. TypeOK'
      BY <1>6 DEF vars, pic, keyboard, IInv, TypeOK
    <2> QED  BY <1>6, <2>1, QuietInv DEF vars, pic
  <1> QED  BY <1>1, <1>3, <1>4, <1>5, <1>6 DEF Next

\* The invariant holds in every state.
THEOREM Invariance == Spec => []IInv
  BY InitInv, NextInv, PTL DEF Spec

\* Every variable keeps its type, and the keyboard's buffer its bound.
THEOREM TypeCorrect == Spec => []TypeOK
  <1>1. IInv => TypeOK
    BY DEF IInv
  <1> QED  BY <1>1, Invariance, PTL

\* Every interrupt is acknowledged, once and at the right controller: between
\* handlers only the keyboard's line can be in service, while its handler is
\* suspended, and then there is a key for it to read.
THEOREM AllAcknowledged == Spec => []Acknowledged
  <1>1. IInv => Acknowledged
    BY DEF IInv
  <1> QED  BY <1>1, Invariance, PTL

\* Every key does what its user meant when it was pressed, however late the
\* handler reads it, whatever is pressed, held, repeated or released meanwhile.
THEOREM KeysActAsMeant == Spec => []ActsAsMeant
  <1>1. IInv => ActsAsMeant
    <2> SUFFICES ASSUME IInv, queue # << >> PROVE Meaning(flags, Head(queue).code) = Head(queue).meant
      BY DEF ActsAsMeant
    <2>1. Len(queue) \in Nat \ {0} /\ Head(queue) = queue[1]
      BY DEF IInv
    <2> QED  BY <2>1 DEF IInv, Foreseen
  <1> QED  BY <1>1, Invariance, PTL
=============================================================================
