--------------------------- MODULE KeyboardProofs ---------------------------
(***************************************************************************)
(* keyboard_read() for every set of keys keymap knows and every size of    *)
(* the buffer: where a call may stand, that the flags follow the keys and  *)
(* keys are reported in order while nothing is dropped, and that the       *)
(* reading recovers when something has been.                               *)
(***************************************************************************)
EXTENDS KeyEvents, SequenceTheorems, TLAPS

-----------------------------------------------------------------------------
(* The codes of more than two bytes, and what they begin with.             *)

Octets == 0 .. 255
Whole == {PauseCode, PrintMake, PrintBreak}
Begun(s) == \E code \in Whole : Begins(s, code)

(* s has the bytes of code from the first on, as far as it goes.           *)
Starts(s, code) == \A j \in 1 .. Len(s) : s[j] = code[j]

LEMMA Points ==
  /\ PauseCode \in Seq(Octets) /\ Len(PauseCode) = 6
  /\ PauseCode[1] = 225 /\ PauseCode[2] = 29 /\ PauseCode[3] = 69
  /\ PauseCode[4] = 225 /\ PauseCode[5] = 157 /\ PauseCode[6] = 197
  /\ PrintMake \in Seq(Octets) /\ Len(PrintMake) = 4
  /\ PrintMake[1] = 224 /\ PrintMake[2] = 42 /\ PrintMake[3] = 224 /\ PrintMake[4] = 55
  /\ PrintBreak \in Seq(Octets) /\ Len(PrintBreak) = 4
  /\ PrintBreak[1] = 224 /\ PrintBreak[2] = 183 /\ PrintBreak[3] = 224 /\ PrintBreak[4] = 170
  BY DEF PauseCode, PrintMake, PrintBreak, Octets

LEMMA Prefix ==
  ASSUME NEW s \in Seq(Octets), NEW t \in Seq(Octets)
  PROVE  IsPrefix(s, t) <=> Len(s) <= Len(t) /\ Starts(s, t)
<1>1. SUFFICES ASSUME Len(s) <= Len(t)
               PROVE  SubSeq(s, 1, Len(s)) = SubSeq(t, 1, Len(s)) <=> Starts(s, t)
  BY DEF IsPrefix
<1>2. Len(s) \in Nat /\ Len(t) \in Nat
  BY LenProperties
<1> DEFINE u == SubSeq(t, 1, Len(s))
<1>3. SubSeq(s, 1, Len(s)) = s
  BY SubSeqFull
<1>4. /\ u \in Seq(Octets) /\ Len(u) = Len(s)
      /\ \A j \in 1 .. Len(s) : u[j] = t[j]
  <2>1. \A i \in 1 .. Len(s) : t[i] \in Octets
    BY <1>1, <1>2, ElementOfSeq
  <2>2. 1 \in Int /\ Len(s) \in Int
    BY <1>2
  <2>3. /\ u \in Seq(Octets) /\ Len(u) = IF 1 <= Len(s) THEN Len(s) - 1 + 1 ELSE 0
        /\ \A j \in 1 .. Len(s) - 1 + 1 : u[j] = t[1 + j - 1]
    BY <2>1, <2>2, SubSeqProperties
  <2> QED
    BY <1>2, <2>3
<1> HIDE DEF u
<1>5. s = u => Starts(s, t)
  BY <1>4 DEF Starts
<1>6. Starts(s, t) => s = u
  BY <1>4, SeqEqual DEF Starts
<1> QED
  BY <1>3, <1>5, <1>6 DEF u

LEMMA Beginning ==
  ASSUME NEW s \in Seq(Octets), NEW t \in Seq(Octets)
  PROVE  /\ Begins(s, t) <=> Len(s) < Len(t) /\ Starts(s, t)
         /\ s = t <=> Len(s) = Len(t) /\ Starts(s, t)
<1>1. Len(s) = Len(t) /\ Starts(s, t) => s = t
  BY SeqEqual DEF Starts
<1>2. s = t => Len(s) = Len(t) /\ Starts(s, t)
  BY DEF Starts
<1>3. Len(s) \in Nat /\ Len(t) \in Nat
  BY LenProperties
<1> QED
  BY <1>1, <1>2, <1>3, Prefix DEF Begins

LEMMA BegunPoints ==
  ASSUME NEW s \in Seq(Octets)
  PROVE  Begun(s) <=> \/ Len(s) < 6 /\ Starts(s, PauseCode)
                      \/ Len(s) < 4 /\ Starts(s, PrintMake)
                      \/ Len(s) < 4 /\ Starts(s, PrintBreak)
<1>1. Begun(s) <=> \/ Begins(s, PauseCode) \/ Begins(s, PrintMake) \/ Begins(s, PrintBreak)
  BY DEF Begun, Whole
<1>2. /\ Begins(s, PauseCode) <=> Len(s) < 6 /\ Starts(s, PauseCode)
      /\ Begins(s, PrintMake) <=> Len(s) < 4 /\ Starts(s, PrintMake)
      /\ Begins(s, PrintBreak) <=> Len(s) < 4 /\ Starts(s, PrintBreak)
  <2>1. PauseCode \in Seq(Octets) /\ Len(PauseCode) = 6
    BY Points
  <2>2. Begins(s, PauseCode) <=> Len(s) < 6 /\ Starts(s, PauseCode)
    BY <2>1, Beginning
  <2>3. PrintMake \in Seq(Octets) /\ Len(PrintMake) = 4
    BY Points
  <2>4. Begins(s, PrintMake) <=> Len(s) < 4 /\ Starts(s, PrintMake)
    BY <2>3, Beginning
  <2>5. PrintBreak \in Seq(Octets) /\ Len(PrintBreak) = 4
    BY Points
  <2>6. Begins(s, PrintBreak) <=> Len(s) < 4 /\ Starts(s, PrintBreak)
    BY <2>5, Beginning
  <2> QED
    BY <2>2, <2>4, <2>6
<1> QED
  BY <1>1, <1>2

LEMMA WholePoints ==
  ASSUME NEW s \in Seq(Octets)
  PROVE  s \in Whole <=> \/ Len(s) = 6 /\ Starts(s, PauseCode)
                         \/ Len(s) = 4 /\ Starts(s, PrintMake)
                         \/ Len(s) = 4 /\ Starts(s, PrintBreak)
  BY Points, Beginning DEF Whole

LEMMA NothingYet ==
  ASSUME NEW s \in Seq(Octets), Len(s) = 0
  PROVE  Begins(s, PauseCode) /\ Begun(s)
<1>1. Starts(s, PauseCode)
  BY DEF Starts
<1>2. PauseCode \in Seq(Octets) /\ Len(PauseCode) = 6
  BY Points
<1>3. Len(s) < Len(PauseCode)
  BY <1>2
<1>4. Begins(s, PauseCode)
  BY <1>1, <1>2, <1>3, Beginning
<1> QED
  BY <1>4 DEF Begun, Whole

LEMMA Appended ==
  ASSUME NEW s \in Seq(Octets), NEW b \in Octets
  PROVE  /\ Append(s, b) \in Seq(Octets)
         /\ Len(Append(s, b)) = Len(s) + 1
         /\ Append(s, b)[Len(s) + 1] = b
         /\ \A j \in 1 .. Len(s) : Append(s, b)[j] = s[j]
         /\ Len(s) \in Nat
  BY AppendProperties, LenProperties

LEMMA Short ==
  ASSUME NEW s \in Seq(Octets)
  PROVE  /\ s = << >> <=> Len(s) = 0
         /\ \A b \in Octets : s = <<b>> <=> Len(s) = 1 /\ s[1] = b
<1>1. s = << >> <=> Len(s) = 0
  BY EmptySeq
<1>2. ASSUME NEW b \in Octets, Len(s) = 1, s[1] = b PROVE s = <<b>>
  <2>1. <<b>> \in Seq(Octets) /\ Len(<<b>>) = 1 /\ <<b>>[1] = b
    OBVIOUS
  <2> DEFINE t == <<b>>
  <2>2. /\ t \in Seq(Octets) /\ Len(s) = Len(t)
        /\ \A i \in 1 .. Len(s) : s[i] = t[i]
    BY <1>2, <2>1
  <2> HIDE DEF t
  <2>3. s = t
    BY <2>2, SeqEqual
  <2> QED
    BY <2>3 DEF t
<1> QED
  BY <1>1, <1>2

(* How far a call has come is what it has taken.                           *)
LEMMA GotPoints ==
  ASSUME NEW s \in Seq(Octets), Begun(s), Len(s) > 0
  PROVE  /\ 1 <= Len(s) /\ Len(s) < 6
         /\ \/ s[1] = 225 /\ Starts(s, PauseCode)
            \/ s[1] = 224 /\ Len(s) < 4 /\ Starts(s, PrintMake)
            \/ s[1] = 224 /\ Len(s) < 4 /\ Starts(s, PrintBreak)
<1>1. Len(s) \in Nat
  BY LenProperties
<1>2. \A code : Starts(s, code) => s[1] = code[1]
  BY <1>1 DEF Starts
<1>3. PauseCode[1] = 225 /\ PrintMake[1] = 224 /\ PrintBreak[1] = 224
  BY Points
<1>4. \/ Len(s) < 6 /\ Starts(s, PauseCode)
      \/ Len(s) < 4 /\ Starts(s, PrintMake)
      \/ Len(s) < 4 /\ Starts(s, PrintBreak)
  BY BegunPoints
<1>5. Len(s) < 4 => Len(s) < 6
  BY <1>1
<1>6. 1 <= Len(s)
  BY <1>1
<1> QED
  BY <1>2, <1>3, <1>4, <1>5, <1>6

-----------------------------------------------------------------------------
(* One byte read: the bytes taken begin a code of several bytes, or are    *)
(* one, or the key is looked up.                                           *)

Shifted == IF modifiers \cap {SHIFT_L, SHIFT_R} # {} THEN 1 ELSE 0
Decoded(code, col) ==
  /\ got' = << >>
  /\ modifiers' = Flags(keymap(code % 128, col), code < 128)
  /\ IF code < 128 THEN in_process(keymap(code % 128, col)) ELSE UNCHANGED <<typed, shown>>

Taken == Append(got, Head(queue))

LEMMA FirstRead ==
  ASSUME ReadFirst
  PROVE  /\ got = << >>
         /\ \/ Head(queue) \in {224, 225} /\ Keep(<<Head(queue)>>)
            \/ Head(queue) \notin {224, 225} /\ Decoded(Head(queue), Shifted)
  BY DEF ReadFirst, Decode, Decoded, column, scan_code, Shifted

LEMMA ExtendedRead ==
  ASSUME ReadExtended
  PROVE  /\ got = <<224>>
         /\ \/ Head(queue) \in {42, 183} /\ Keep(<<224, Head(queue)>>)
            \/ Head(queue) \notin {42, 183} /\ Decoded(Head(queue), 2)
  BY DEF ReadExtended, Decode, Decoded, column, scan_code

LEMMA PauseRead ==
  ASSUME ReadPause
  PROVE  /\ got # << >> /\ got[1] = 225
         /\ \/ Begins(Taken, PauseCode) /\ Keep(Taken)
            \/ Taken = PauseCode /\ Keep(<< >>)
            \/ ~IsPrefix(Taken, PauseCode) /\ Decoded(225, Shifted)
  BY DEF ReadPause, Decode, Decoded, column, scan_code, Shifted, Taken

LEMMA PrintRead ==
  ASSUME ReadPrint
  PROVE  /\ Len(got) > 1 /\ got[1] = 224
         /\ \/ \E code \in {PrintMake, PrintBreak} : Begins(Taken, code) /\ Keep(Taken)
            \/ Taken \in {PrintMake, PrintBreak} /\ Keep(<< >>)
            \/ ~IsPrefix(Taken, PrintMake) /\ ~IsPrefix(Taken, PrintBreak) /\ Decoded(got[2], 2)
  BY DEF ReadPrint, Decode, Decoded, column, scan_code, Taken

LEMMA Reader ==
  ASSUME got \in Seq(Octets), Begun(got), keyboard_read, Head(queue) \in Octets
  PROVE  \/ Begun(Taken) /\ Keep(Taken)
         \/ Taken \in Whole /\ Keep(<< >>)
         \/ /\ ~Begun(Taken) /\ Taken \notin Whole
            /\ \E code \in Octets, col \in {0, 1, 2} :
                 /\ Decoded(code, col)
                 /\ got = << >> => code = Head(queue) /\ col = Shifted
                 /\ got = <<224>> => code = Head(queue) /\ col = 2
<1> DEFINE b == Head(queue)
<1>0. /\ Taken \in Seq(Octets) /\ Len(Taken) = Len(got) + 1 /\ Taken[Len(got) + 1] = b
      /\ \A j \in 1 .. Len(got) : Taken[j] = got[j]
      /\ Len(got) \in Nat
  BY Appended DEF Taken
<1>s. /\ \A c : Starts(Taken, c) => Taken[1] = c[1]
      /\ \A c : Starts(Taken, c) /\ Len(Taken) = 2 => Taken[2] = c[2]
      /\ \A c : Len(Taken) = 1 /\ Taken[1] = c[1] => Starts(Taken, c)
      /\ \A c : Len(Taken) = 2 /\ Taken[1] = c[1] /\ Taken[2] = c[2] => Starts(Taken, c)
  BY <1>0 DEF Starts
<1>p. /\ PauseCode[1] = 225 /\ PrintMake[1] = 224 /\ PrintBreak[1] = 224
      /\ PrintMake[2] = 42 /\ PrintBreak[2] = 183
  BY Points
<1>b. Begun(Taken) <=> \/ Len(Taken) < 6 /\ Starts(Taken, PauseCode)
                       \/ Len(Taken) < 4 /\ Starts(Taken, PrintMake)
                       \/ Len(Taken) < 4 /\ Starts(Taken, PrintBreak)
  BY <1>0, BegunPoints
<1>w. Taken \in Whole <=> \/ Len(Taken) = 6 /\ Starts(Taken, PauseCode)
                          \/ Len(Taken) = 4 /\ Starts(Taken, PrintMake)
                          \/ Len(Taken) = 4 /\ Starts(Taken, PrintBreak)
  BY <1>0, WholePoints
<1>c. Shifted \in {0, 1, 2} /\ 225 \in Octets /\ b \in Octets
  BY DEF Shifted, Octets
<1> HIDE DEF b
<1>1. CASE ReadFirst
  <2>1. /\ got = << >>
        /\ \/ b \in {224, 225} /\ Keep(<<b>>)
           \/ b \notin {224, 225} /\ Decoded(b, Shifted)
    BY <1>1, FirstRead DEF b
  <2>2. Len(got) = 0 /\ got # <<224>>
    BY <2>1, Short
  <2>3. Len(Taken) = 1 /\ Taken[1] = b
    BY <1>0, <2>2
  <2>4. Taken = <<b>>
    BY <1>0, <1>c, <2>3, Short
  <2>5. Begun(Taken) <=> b \in {224, 225}
    BY <1>s, <1>p, <1>b, <2>3
  <2>6. Taken \notin Whole
    BY <1>w, <2>3
  <2>7. CASE b \in {224, 225}
    BY <2>1, <2>4, <2>5, <2>7
  <2>8. CASE b \notin {224, 225}
    BY <1>c, <2>1, <2>2, <2>5, <2>6, <2>8 DEF b
  <2> QED
    BY <2>7, <2>8
<1>2. CASE ReadExtended
  <2>1. /\ got = <<224>>
        /\ \/ b \in {42, 183} /\ Keep(<<224, b>>)
           \/ b \notin {42, 183} /\ Decoded(b, 2)
    BY <1>2, ExtendedRead DEF b
  <2>2. Len(got) = 1 /\ got[1] = 224 /\ got # << >>
    BY <2>1
  <2>3. Len(Taken) = 2 /\ Taken[1] = 224 /\ Taken[2] = b
    BY <1>0, <2>2
  <2>4. Taken = <<224, b>>
    <3> DEFINE t == <<224, b>>
    <3>1. t \in Seq(Octets) /\ Len(t) = 2 /\ t[1] = 224 /\ t[2] = b
      BY <1>c DEF Octets
    <3> HIDE DEF t
    <3>2. \A i \in 1 .. Len(Taken) : Taken[i] = t[i]
      BY <2>3, <3>1
    <3>3. Taken = t
      BY <1>0, <2>3, <3>1, <3>2, SeqEqual
    <3> QED
      BY <3>3 DEF t
  <2>5. Begun(Taken) <=> b \in {42, 183}
    BY <1>s, <1>p, <1>b, <2>3
  <2>6. Taken \notin Whole
    BY <1>w, <2>3
  <2>7. CASE b \in {42, 183}
    BY <2>1, <2>4, <2>5, <2>7
  <2>8. CASE b \notin {42, 183}
    BY <1>c, <2>1, <2>2, <2>5, <2>6, <2>8 DEF b
  <2> QED
    BY <2>7, <2>8
<1>3. CASE ReadPause
  <2>1. /\ got # << >> /\ got[1] = 225
        /\ \/ Begins(Taken, PauseCode) /\ Keep(Taken)
           \/ Taken = PauseCode /\ Keep(<< >>)
           \/ ~IsPrefix(Taken, PauseCode) /\ Decoded(225, Shifted)
    BY <1>3, PauseRead
  <2>2. Len(got) > 0 /\ got # <<224>>
    BY <1>0, <2>1, Short
  <2>3. Taken[1] = 225
    BY <1>0, <2>1, <2>2
  <2>4. ~Starts(Taken, PrintMake) /\ ~Starts(Taken, PrintBreak)
    BY <1>s, <1>p, <2>3
  <2>5. /\ IsPrefix(Taken, PauseCode) <=> Len(Taken) <= 6 /\ Starts(Taken, PauseCode)
        /\ Begins(Taken, PauseCode) <=> Len(Taken) < 6 /\ Starts(Taken, PauseCode)
    <3>1. PauseCode \in Seq(Octets) /\ Len(PauseCode) = 6
      BY Points
    <3>2. Taken \in Seq(Octets)
      BY <1>0
    <3>3. IsPrefix(Taken, PauseCode) <=> Len(Taken) <= Len(PauseCode) /\ Starts(Taken, PauseCode)
      BY <3>1, <3>2, Prefix
    <3>4. Begins(Taken, PauseCode) <=> Len(Taken) < Len(PauseCode) /\ Starts(Taken, PauseCode)
      BY <3>1, <3>2, Beginning
    <3> QED
      BY <3>1, <3>3, <3>4
  <2>6. CASE Begins(Taken, PauseCode) /\ Keep(Taken)
    BY <1>b, <2>5, <2>6
  <2>7. CASE Taken = PauseCode /\ Keep(<< >>)
    BY <2>7 DEF Whole
  <2>8. CASE ~IsPrefix(Taken, PauseCode) /\ Decoded(225, Shifted)
    <3>1. ~Begun(Taken) /\ Taken \notin Whole
      BY <1>0, <1>b, <1>w, <2>4, <2>5, <2>8
    <3> QED
      BY <1>c, <2>1, <2>2, <2>8, <3>1
  <2> QED
    BY <2>1, <2>6, <2>7, <2>8
<1>4. CASE ReadPrint
  <2>1. /\ Len(got) > 1 /\ got[1] = 224
        /\ \/ \E code \in {PrintMake, PrintBreak} : Begins(Taken, code) /\ Keep(Taken)
           \/ Taken \in {PrintMake, PrintBreak} /\ Keep(<< >>)
           \/ ~IsPrefix(Taken, PrintMake) /\ ~IsPrefix(Taken, PrintBreak) /\ Decoded(got[2], 2)
    BY <1>4, PrintRead
  <2>2. got # << >> /\ got # <<224>> /\ got[2] \in Octets
    <3>1. got # << >> /\ got # <<224>>
      BY <2>1
    <3>2. 2 \in 1 .. Len(got)
      BY <1>0, <2>1
    <3> QED
      BY <3>1, <3>2, ElementOfSeq
  <2>3. Taken[1] = 224
    BY <1>0, <2>1
  <2>4. ~Starts(Taken, PauseCode)
    BY <1>s, <1>p, <2>3
  <2>5. ASSUME NEW code \in {PrintMake, PrintBreak}
        PROVE  /\ IsPrefix(Taken, code) <=> Len(Taken) <= 4 /\ Starts(Taken, code)
               /\ Begins(Taken, code) <=> Len(Taken) < 4 /\ Starts(Taken, code)
    <3>1. code \in Seq(Octets) /\ Len(code) = 4
      BY Points
    <3>2. Taken \in Seq(Octets)
      BY <1>0
    <3>3. IsPrefix(Taken, code) <=> Len(Taken) <= Len(code) /\ Starts(Taken, code)
      BY <3>1, <3>2, Prefix
    <3>4. Begins(Taken, code) <=> Len(Taken) < Len(code) /\ Starts(Taken, code)
      BY <3>1, <3>2, Beginning
    <3> QED
      BY <3>1, <3>3, <3>4
  <2>6. CASE \E code \in {PrintMake, PrintBreak} : Begins(Taken, code) /\ Keep(Taken)
    BY <1>b, <2>5, <2>6
  <2>7. CASE Taken \in {PrintMake, PrintBreak} /\ Keep(<< >>)
    BY <2>7 DEF Whole
  <2>8. CASE ~IsPrefix(Taken, PrintMake) /\ ~IsPrefix(Taken, PrintBreak) /\ Decoded(got[2], 2)
    <3>1. ~Begun(Taken) /\ Taken \notin Whole
      BY <1>0, <1>b, <1>w, <2>4, <2>5, <2>8
    <3> QED
      BY <2>2, <2>8, <3>1
  <2> QED
    BY <2>1, <2>6, <2>7, <2>8
<1> QED
  BY <1>1, <1>2, <1>3, <1>4 DEF keyboard_read

-----------------------------------------------------------------------------
(* Keys and their codes.                                                   *)

(* The four kinds of key: what they are called and what they send.         *)
Simple(e)  == e.key \in Plain \X {0} /\ Code[e] = <<FinalByte(e)>>
Prefixed(e) == e.key \in Extended \X {2} /\ Code[e] = <<224, FinalByte(e)>>
Special(e) == e.key \in {PRINTSCREEN, PAUSEBREAK} /\ Code[e] \in Whole

LEMMA Rows == /\ \A r \in Plain : r \in Nat /\ 0 < r /\ r <= 88
              /\ \A r \in Extended : r \in Nat /\ 0 < r /\ r <= 93 /\ r # 42 /\ r # 55 /\ r # 69
  BY DEF Plain, Extended

LEMMA Kinds ==
  ASSUME NEW e \in Event
  PROVE  Simple(e) \/ Prefixed(e) \/ Special(e)
<1>1. e.key \in Keys /\ e.make \in BOOLEAN
  BY DEF Event
<1>2. Code[e] = IF e.key = PAUSEBREAK THEN PauseCode
                ELSE IF e.key = PRINTSCREEN THEN IF e.make THEN PrintMake ELSE PrintBreak
                ELSE IF e.key[2] = 2 THEN <<224, FinalByte(e)>>
                ELSE <<FinalByte(e)>>
  BY DEF Code
<1>3. CASE e.key \in Plain \X {0}
  <2>1. e.key[2] = 0 /\ e.key # PAUSEBREAK /\ e.key # PRINTSCREEN
    BY <1>3 DEF PAUSEBREAK, PRINTSCREEN
  <2> QED
    BY <1>2, <1>3, <2>1 DEF Simple
<1>4. CASE e.key \in Extended \X {2}
  <2>1. e.key[2] = 2 /\ e.key[1] \in Extended
    BY <1>4
  <2>2. e.key # PAUSEBREAK /\ e.key # PRINTSCREEN
    BY <2>1, Rows DEF PAUSEBREAK, PRINTSCREEN
  <2> QED
    BY <1>2, <1>4, <2>1, <2>2 DEF Prefixed
<1>5. CASE e.key \in {PRINTSCREEN, PAUSEBREAK}
  BY <1>2, <1>5 DEF Special, Whole
<1> QED
  BY <1>1, <1>3, <1>4, <1>5, KeysAssumption

LEMMA Final ==
  ASSUME NEW e \in Event, NEW r, r = e.key[1], r \in Nat, r > 0, r <= 93
  PROVE  /\ FinalByte(e) \in Octets
         /\ FinalByte(e) = r \/ FinalByte(e) = r + 128
         /\ FinalByte(e) % 128 = r
         /\ FinalByte(e) < 128 <=> e.make
         /\ FinalByte(e) # 224 /\ FinalByte(e) # 225
<1>1. e.make \in BOOLEAN
  BY DEF Event
<1>2. CASE e.make
  BY <1>2 DEF FinalByte, Octets
<1>3. CASE ~e.make
  BY <1>3 DEF FinalByte, Octets
<1> QED
  BY <1>1, <1>2, <1>3

LEMMA CodeTyped ==
  ASSUME NEW e \in Event
  PROVE  Code[e] \in Seq(Octets) /\ Len(Code[e]) > 0 /\ Code[e] \in Seq(Bytes)
<1>1. Code[e] \in Seq(Octets) /\ Len(Code[e]) > 0
  <2>1. CASE Simple(e)
    <3>1. e.key[1] \in Plain
      BY <2>1 DEF Simple
    <3>2. FinalByte(e) \in Octets
      BY <3>1, Rows, Final
    <3> QED
      BY <2>1, <3>2 DEF Simple
  <2>2. CASE Prefixed(e)
    <3>1. e.key[1] \in Extended
      BY <2>2 DEF Prefixed
    <3>2. FinalByte(e) \in Octets /\ 224 \in Octets
      BY <3>1, Rows, Final DEF Octets
    <3> QED
      BY <2>2, <3>2 DEF Prefixed
  <2>3. CASE Special(e)
    <3>1. Code[e] = PauseCode \/ Code[e] = PrintMake \/ Code[e] = PrintBreak
      BY <2>3 DEF Special, Whole
    <3>2. PauseCode \in Seq(Octets) /\ Len(PauseCode) > 0
      BY Points
    <3>3. PrintMake \in Seq(Octets) /\ Len(PrintMake) > 0
      BY Points
    <3>4. PrintBreak \in Seq(Octets) /\ Len(PrintBreak) > 0
      BY Points
    <3> QED
      BY <3>1, <3>2, <3>3, <3>4
  <2> QED
    BY <2>1, <2>2, <2>3, Kinds
<1>2. \A i \in 1 .. Len(Code[e]) : Code[e][i] \in Bytes
  <2>1. DOMAIN Code[e] = 1 .. Len(Code[e])
    BY <1>1, LenProperties
  <2> QED
    BY <2>1 DEF Bytes, ToSet
<1>3. Code[e] \in [1 .. Len(Code[e]) -> Bytes] /\ Len(Code[e]) \in Nat
  BY <1>1, <1>2, LenProperties
<1> QED
  BY <1>1, <1>3, SeqDef

LEMMA BytesAreOctets == Bytes \subseteq Octets
<1> SUFFICES ASSUME NEW e \in Event, NEW b \in ToSet(Code[e]) PROVE b \in Octets
  BY DEF Bytes
<1>1. PICK i \in DOMAIN Code[e] : b = Code[e][i]
  BY DEF ToSet
<1>2. Code[e] \in Seq(Octets)
  BY CodeTyped
<1>3. i \in 1 .. Len(Code[e])
  BY <1>2, LenProperties
<1> QED
  BY <1>1, <1>2, <1>3, ElementOfSeq

-----------------------------------------------------------------------------
(* Types.                                                                  *)

TypeInv == TypeOK /\ got \in Seq(Octets)

(* The variables only keyboard_read() changes.                             *)
ReaderTyped ==
  /\ Begun(got) /\ got \in Seq(Octets)
  /\ modifiers \subseteq Modifiers
  /\ typed.key \in (0 .. 127) \X (0 .. 2) /\ typed.flags \subseteq Modifiers
  /\ shown \in Characters \cup {NoKey}

LEMMA KeymapTyped ==
  ASSUME NEW row \in 0 .. 127, NEW col \in {0, 1, 2}
  PROVE  keymap(row, col) \in (0 .. 127) \X (0 .. 2)
  BY DEF keymap, NoKey

LEMMA FlagsTyped ==
  ASSUME NEW key, NEW make \in BOOLEAN, modifiers \subseteq Modifiers
  PROVE  Flags(key, make) \subseteq Modifiers
<1>1. key \in Modifiers => FlagOf(key) \in Modifiers
  BY DEF FlagOf, Modifiers
<1> QED
  BY <1>1 DEF Flags

LEMMA InitType == Init => TypeInv
<1> SUFFICES ASSUME Init PROVE TypeInv
  OBVIOUS
<1>1. /\ queue = << >> /\ got = << >> /\ modifiers = {} /\ shown = NoKey
      /\ typed.key = NoKey /\ typed.flags = {}
      /\ line = << >> /\ down = {} /\ lost = FALSE
  BY DEF Init
<1>2. queue \in Seq(Bytes) /\ Len(queue) <= N /\ line \in Seq(Bytes) /\ got \in Seq(Octets)
  BY <1>1, KeysAssumption
<1>3. Begins(got, PauseCode)
  <2>1. Len(got) = 0
    BY <1>1
  <2> QED
    BY <1>2, <2>1, NothingYet
<1>4. typed.key \in (0 .. 127) \X (0 .. 2)
  BY <1>1 DEF NoKey
<1> QED
  BY <1>1, <1>2, <1>3, <1>4 DEF TypeInv, TypeOK

LEMMA HitType == ASSUME TypeInv, NEW e \in Event, Hit(e) PROVE TypeInv'
<1>1. /\ line' = Code[e] /\ lost' = FALSE
      /\ down' = IF e.make THEN down \cup ({e.key} \ {PAUSEBREAK}) ELSE down \ {e.key}
      /\ UNCHANGED <<queue, got, modifiers, typed, shown>>
  BY DEF Hit
<1>2. line' \in Seq(Bytes)
  BY <1>1, CodeTyped
<1>3. down' \subseteq Keys
  BY <1>1 DEF TypeInv, TypeOK, Event
<1> QED
  BY <1>1, <1>2, <1>3 DEF TypeInv, TypeOK

LEMMA ArriveType == ASSUME TypeInv, Arrive PROVE TypeInv'
<1>1. /\ line # << >> /\ line' = Tail(line)
      /\ UNCHANGED <<got, modifiers, typed, shown, down>>
      /\ \/ Len(queue) < N /\ queue' = Append(queue, Head(line)) /\ UNCHANGED lost
         \/ lost' = TRUE /\ UNCHANGED queue
  BY DEF Arrive
<1>2. line \in Seq(Bytes) /\ queue \in Seq(Bytes) /\ Len(queue) <= N /\ N \in Nat /\ lost \in BOOLEAN
  BY KeysAssumption DEF TypeInv, TypeOK
<1>3. Head(line) \in Bytes /\ line' \in Seq(Bytes)
  BY <1>1, <1>2, HeadTailProperties
<1>4. queue' \in Seq(Bytes) /\ Len(queue') <= N /\ lost' \in BOOLEAN
  <2>1. CASE Len(queue) < N /\ queue' = Append(queue, Head(line)) /\ UNCHANGED lost
    <3>1. Append(queue, Head(line)) \in Seq(Bytes) /\ Len(Append(queue, Head(line))) = Len(queue) + 1
          /\ Len(queue) \in Nat
      BY <1>2, <1>3, AppendProperties, LenProperties
    <3> QED
      BY <1>2, <2>1, <3>1
  <2>2. CASE lost' = TRUE /\ UNCHANGED queue
    BY <1>2, <2>2
  <2> QED
    BY <1>1, <2>1, <2>2
<1> QED
  BY <1>1, <1>3, <1>4 DEF TypeInv, TypeOK

LEMMA Taking ==
  ASSUME TypeInv, keyboard_read
  PROVE  /\ queue # << >> /\ queue' = Tail(queue) /\ UNCHANGED <<line, down, lost>>
         /\ Head(queue) \in Octets /\ Begun(got) /\ Taken \in Seq(Octets)
<1>1. queue # << >> /\ queue' = Tail(queue) /\ UNCHANGED <<line, down, lost>>
  BY DEF keyboard_read, ReadFirst, ReadPause, ReadExtended, ReadPrint, get_byte
<1>2. queue \in Seq(Bytes) /\ Begun(got) /\ got \in Seq(Octets)
  BY DEF TypeInv, TypeOK, Begun, Whole
<1>3. Head(queue) \in Bytes
  BY <1>1, <1>2, HeadTailProperties
<1>4. Head(queue) \in Octets
  BY <1>3, BytesAreOctets
<1> QED
  BY <1>1, <1>2, <1>4, Appended DEF Taken

LEMMA ReadType == ASSUME TypeInv, keyboard_read PROVE TypeInv'
<1>1. /\ queue # << >> /\ queue' = Tail(queue) /\ UNCHANGED <<line, down, lost>>
      /\ Head(queue) \in Octets /\ Begun(got) /\ Taken \in Seq(Octets)
  BY Taking
<1>2. /\ queue \in Seq(Bytes) /\ Len(queue) <= N /\ N \in Nat /\ got \in Seq(Octets)
      /\ modifiers \subseteq Modifiers
      /\ typed.key \in (0 .. 127) \X (0 .. 2) /\ typed.flags \subseteq Modifiers
      /\ shown \in Characters \cup {NoKey}
  BY KeysAssumption DEF TypeInv, TypeOK
<1>3. queue' \in Seq(Bytes) /\ Len(queue') <= N
  <2>1. Tail(queue) \in Seq(Bytes) /\ Len(Tail(queue)) = Len(queue) - 1 /\ Len(queue) \in Nat
    BY <1>1, <1>2, HeadTailProperties, LenProperties
  <2> QED
    BY <1>1, <1>2, <2>1
<1>4. << >> \in Seq(Octets) /\ Begun(<< >>)
  <2> DEFINE z == << >>
  <2>1. z \in Seq(Octets) /\ Len(z) = 0
    OBVIOUS
  <2> HIDE DEF z
  <2>2. z \in Seq(Octets) /\ Begun(z)
    BY <2>1, NothingYet
  <2> QED
    BY <2>2 DEF z
<1>5. ReaderTyped'
  <2>1. CASE Begun(Taken) /\ Keep(Taken)
    BY <1>1, <1>2, <2>1 DEF Keep, ReaderTyped
  <2>2. CASE Keep(<< >>)
    BY <1>2, <1>4, <2>2 DEF Keep, ReaderTyped
  <2>3. ASSUME NEW code \in Octets, NEW col \in {0, 1, 2}, Decoded(code, col)
        PROVE  ReaderTyped'
    <3>1. code % 128 \in 0 .. 127 /\ (code < 128) \in BOOLEAN
      BY DEF Octets
    <3> DEFINE row == code % 128
               key == keymap(row, col)
    <3>2. key \in (0 .. 127) \X (0 .. 2)
      <4>1. row \in 0 .. 127
        BY <3>1
      <4> HIDE DEF row
      <4> QED
        BY <4>1, KeymapTyped
    <3>3. got' = << >> /\ modifiers' = Flags(key, code < 128)
          /\ IF code < 128 THEN in_process(key) ELSE UNCHANGED <<typed, shown>>
      BY <2>3 DEF Decoded
    <3> HIDE DEF key
    <3>4. modifiers' \subseteq Modifiers
      BY <1>2, <3>1, <3>3, FlagsTyped
    <3>5. CASE in_process(key)
      BY <1>2, <1>4, <3>2, <3>3, <3>4, <3>5 DEF in_process, ReaderTyped
    <3>6. CASE UNCHANGED <<typed, shown>>
      BY <1>2, <1>4, <3>3, <3>4, <3>6 DEF ReaderTyped
    <3> QED
      BY <3>3, <3>5, <3>6
  <2>4. \/ Begun(Taken) /\ Keep(Taken)
        \/ Keep(<< >>)
        \/ \E code \in Octets, col \in {0, 1, 2} : Decoded(code, col)
    BY <1>1, <1>2, Reader
  <2> QED
    BY <2>1, <2>2, <2>3, <2>4
<1> QED
  BY <1>1, <1>3, <1>5 DEF TypeInv, TypeOK, Begun, Whole, ReaderTyped

LEMMA TypeStep == TypeInv /\ [Next]_vars => TypeInv'
<1>1. TypeInv /\ UNCHANGED vars => TypeInv'
  BY DEF vars, TypeInv, TypeOK
<1> QED
  BY <1>1, HitType, ArriveType, ReadType DEF Next

LEMMA TypeAlways == Spec => []TypeInv
  BY InitType, TypeStep, PTL DEF Spec

(* Whatever bytes arrive or are dropped, a call of keyboard_read() stands  *)
(* at the beginning or inside one of the three codes it knows, the buffer  *)
(* is within its bounds, and what is reported and shown is in keymap.      *)
THEOREM TypeCorrect == Spec => []TypeOK
  BY TypeAlways, PTL DEF TypeInv

-----------------------------------------------------------------------------
(* The bytes on their way: taken, buffered and still to come.              *)

Stream == (got \o queue) \o line

LEMMA StreamTyped ==
  ASSUME TypeInv
  PROVE  /\ got \in Seq(Octets) /\ queue \in Seq(Octets) /\ line \in Seq(Octets)
         /\ got \o queue \in Seq(Octets) /\ Stream \in Seq(Octets)
<1>1. got \in Seq(Octets) /\ queue \in Seq(Octets) /\ line \in Seq(Octets)
  BY BytesAreOctets, SeqMonotonic DEF TypeInv, TypeOK
<1>2. got \o queue \in Seq(Octets)
  BY <1>1, ConcatProperties
<1> QED
  BY <1>1, <1>2, ConcatProperties DEF Stream

LEMMA HeadThenTail ==
  ASSUME NEW s \in Seq(Octets), s # << >>
  PROVE  s = <<Head(s)>> \o Tail(s)
<1> DEFINE h == <<Head(s)>>
           r == Tail(s)
           u == h \o r
<1>1. /\ Head(s) \in Octets /\ r \in Seq(Octets) /\ Len(r) = Len(s) - 1
      /\ \A i \in 1 .. Len(r) : r[i] = s[i + 1]
      /\ Len(s) \in Nat /\ Head(s) = s[1]
  BY HeadTailProperties, LenProperties
<1>2. h \in Seq(Octets) /\ Len(h) = 1 /\ h[1] = s[1]
  BY <1>1
<1> HIDE DEF h, r
<1>3. /\ u \in Seq(Octets) /\ Len(u) = Len(h) + Len(r)
      /\ \A i \in 1 .. Len(h) + Len(r) : u[i] = IF i <= Len(h) THEN h[i] ELSE r[i - Len(h)]
  <2>1. h \in Seq(Octets) /\ r \in Seq(Octets)
    BY <1>1, <1>2
  <2> QED
    BY <2>1, ConcatProperties
<1> HIDE DEF u
<1>4. ASSUME NEW i \in 1 .. Len(s) PROVE u[i] = s[i]
  <2>1. CASE i = 1
    BY <1>1, <1>2, <1>3, <2>1
  <2>2. CASE i # 1
    <3> DEFINE k == i - 1
    <3>1. k \in 1 .. Len(r) /\ i = k + 1 /\ i \in 1 .. Len(h) + Len(r) /\ ~(i <= Len(h))
      BY <1>1, <1>2, <2>2
    <3>2. u[i] = r[k]
      BY <1>2, <1>3, <3>1
    <3> HIDE DEF k
    <3> QED
      BY <1>1, <3>1, <3>2
  <2> QED
    BY <2>1, <2>2
<1>5. u = s
  <2>1. Len(u) = Len(s)
    BY <1>1, <1>2, <1>3
  <2> QED
    BY <1>3, <1>4, <2>1, SeqEqual
<1> QED
  BY <1>5 DEF u, h, r

LEMMA Moved ==
  ASSUME NEW s \in Seq(Octets), NEW t \in Seq(Octets), t # << >>
  PROVE  Append(s, Head(t)) \o Tail(t) = s \o t
<1>1. Head(t) \in Octets /\ Tail(t) \in Seq(Octets)
  BY HeadTailProperties
<1> DEFINE h == <<Head(t)>>
<1>2. h \in Seq(Octets)
  BY <1>1
<1>3. Append(s, Head(t)) = s \o h
  BY <1>1, AppendIsConcat
<1>4. t = h \o Tail(t)
  BY HeadThenTail
<1> HIDE DEF h
<1>5. (s \o h) \o Tail(t) = s \o (h \o Tail(t))
  BY <1>1, <1>2, ConcatAssociative
<1> QED
  BY <1>3, <1>4, <1>5

(* A byte that comes in one end or is taken does not change the stream,    *)
(* bytes thrown away leave at its head.                                    *)
LEMMA ReadStream ==
  ASSUME TypeInv, keyboard_read
  PROVE  /\ got' = Taken => Stream' = Stream
         /\ got' = << >> => Stream = Taken \o Stream' /\ Stream' \in Seq(Octets)
         /\ \E left \in Seq(Octets) : Stream = Taken \o left
<1>1. /\ queue # << >> /\ queue' = Tail(queue) /\ line' = line /\ Taken \in Seq(Octets)
  BY Taking
<1>2. got \in Seq(Octets) /\ queue \in Seq(Octets) /\ line \in Seq(Octets)
  BY StreamTyped
<1>3. Tail(queue) \in Seq(Octets)
  BY <1>1, <1>2, HeadTailProperties
<1>4. Taken \o Tail(queue) = got \o queue
  BY <1>1, <1>2, Moved DEF Taken
<1>5. Stream = (Taken \o Tail(queue)) \o line
  BY <1>4 DEF Stream
<1>6. Stream = Taken \o (Tail(queue) \o line)
  <2> DEFINE r == Tail(queue)
  <2>1. r \in Seq(Octets) /\ Taken \in Seq(Octets) /\ line \in Seq(Octets)
    BY <1>1, <1>2, <1>3
  <2> HIDE DEF r
  <2>2. (Taken \o r) \o line = Taken \o (r \o line)
    BY <2>1, ConcatAssociative
  <2> QED
    BY <1>5, <2>2 DEF r
<1>7. ASSUME got' = << >> PROVE Stream' = Tail(queue) \o line
  <2>1. << >> \o Tail(queue) = Tail(queue)
    BY <1>3, ConcatEmptySeq
  <2> QED
    BY <1>1, <1>7, <2>1 DEF Stream
<1>9. Tail(queue) \o line \in Seq(Octets)
  BY <1>2, <1>3, ConcatProperties
<1>8. ASSUME got' = Taken PROVE Stream' = Stream
  BY <1>1, <1>5, <1>8 DEF Stream
<1> QED
  BY <1>6, <1>7, <1>8, <1>9

LEMMA ArriveStream ==
  ASSUME TypeInv, Arrive, Patient \/ ~lost'
  PROVE  Stream' = Stream /\ lost' = lost
<1>1. /\ line # << >> /\ line' = Tail(line) /\ got' = got
      /\ queue' = Append(queue, Head(line)) /\ lost' = lost
  BY DEF Arrive
<1>2. /\ got \in Seq(Octets) /\ queue \in Seq(Octets) /\ line \in Seq(Octets)
      /\ got \o queue \in Seq(Octets)
  BY StreamTyped
<1>3. Head(line) \in Octets /\ Tail(line) \in Seq(Octets)
  BY <1>1, <1>2, HeadTailProperties
<1> DEFINE h == <<Head(line)>>
<1>4. h \in Seq(Octets)
  BY <1>3
<1>5. Append(queue, Head(line)) = queue \o h /\ Append(got \o queue, Head(line)) = (got \o queue) \o h
  BY <1>2, <1>3, AppendIsConcat
<1> HIDE DEF h
<1>6. got \o (queue \o h) = (got \o queue) \o h
  BY <1>2, <1>4, ConcatAssociative
<1>7. Append(got \o queue, Head(line)) \o Tail(line) = (got \o queue) \o line
  BY <1>1, <1>2, Moved
<1> QED
  BY <1>1, <1>5, <1>6, <1>7 DEF Stream

LEMMA HitStream ==
  ASSUME TypeInv, NEW e \in Event, Hit(e)
  PROVE  Stream' = Stream \o Code[e]
<1>1. line = << >> /\ line' = Code[e] /\ got' = got /\ queue' = queue
  BY DEF Hit
<1>2. got \o queue \in Seq(Octets)
  BY StreamTyped
<1>3. Stream = got \o queue
  BY <1>1, <1>2, ConcatEmptySeq DEF Stream
<1> QED
  BY <1>1, <1>3 DEF Stream

-----------------------------------------------------------------------------
(* After a loss.                                                           *)

(* No key of one byte sends a byte of the codes of Pause and PrintScreen:  *)
(* after a loss such a byte can be taken for the rest of one.              *)
Distinct == \A e \in Event : Len(Code[e]) = 1 =>
              \A code \in Whole : Code[e][1] \notin ToSet(code)

(* Counted from their ends, s and code have the same bytes.                *)
EndAlike(s, code) == \A i \in 1 .. Len(s), k \in 1 .. Len(code) :
                       Len(s) - i = Len(code) - k => s[i] = code[k]

(* If nothing was dropped since, what is on its way ends as the code of    *)
(* the last key does.                                                      *)
SyncInv == ~lost => Stream = << >> \/ \E e \in Event : EndAlike(Stream, Code[e])

LEMMA EndOfWhole ==
  ASSUME NEW s \in Seq(Octets), NEW c \in Seq(Octets)
  PROVE  EndAlike(s \o c, c)
<1> DEFINE u == s \o c
<1>1. /\ Len(u) = Len(s) + Len(c)
      /\ \A i \in 1 .. Len(s) + Len(c) : u[i] = IF i <= Len(s) THEN s[i] ELSE c[i - Len(s)]
  BY ConcatProperties
<1>2. Len(s) \in Nat /\ Len(c) \in Nat
  BY LenProperties
<1> DEFINE a == Len(s)
           b == Len(c)
           n == Len(u)
<1>3. a \in Nat /\ b \in Nat /\ n = a + b
  BY <1>1, <1>2
<1>4. \A i \in 1 .. a + b : u[i] = IF i <= a THEN s[i] ELSE c[i - a]
  BY <1>1
<1> HIDE DEF u, a, b, n
<1>5. ASSUME NEW i \in 1 .. n, NEW k \in 1 .. b, n - i = b - k
      PROVE  u[i] = c[k]
  <2>1. ~(i <= a) /\ i - a = k /\ i \in 1 .. a + b
    BY <1>3, <1>5
  <2> QED
    BY <1>4, <2>1
<1> QED
  BY <1>5 DEF EndAlike, u, b, n

LEMMA EndOfRest ==
  ASSUME NEW s \in Seq(Octets), NEW t \in Seq(Octets), NEW c \in Seq(Octets),
         EndAlike(s \o t, c)
  PROVE  EndAlike(t, c)
<1> DEFINE u == s \o t
<1>1. /\ Len(u) = Len(s) + Len(t)
      /\ \A i \in 1 .. Len(s) + Len(t) : u[i] = IF i <= Len(s) THEN s[i] ELSE t[i - Len(s)]
  BY ConcatProperties
<1>2. Len(s) \in Nat /\ Len(t) \in Nat /\ Len(c) \in Nat
  BY LenProperties
<1>3. EndAlike(u, c)
  OBVIOUS
<1> HIDE DEF u
<1>4. ASSUME NEW i \in 1 .. Len(t), NEW k \in 1 .. Len(c), Len(t) - i = Len(c) - k
      PROVE  t[i] = c[k]
  <2> DEFINE j == Len(s) + i
  <2>1. /\ j \in 1 .. Len(s) + Len(t) /\ ~(j <= Len(s)) /\ j - Len(s) = i
        /\ Len(u) - j = Len(c) - k /\ j \in 1 .. Len(u)
    BY <1>1, <1>2, <1>4
  <2> HIDE DEF j
  <2>2. u[j] = t[i]
    BY <1>1, <2>1
  <2>3. u[j] = c[k]
    BY <1>3, <2>1 DEF EndAlike
  <2> QED
    BY <2>2, <2>3
<1> QED
  BY <1>4 DEF EndAlike

LEMMA SyncStep == ASSUME TypeInv, [Next]_vars, SyncInv PROVE SyncInv'
<1>0. Stream \in Seq(Octets)
  BY StreamTyped
<1>1. ASSUME NEW e \in Event, Hit(e) PROVE SyncInv'
  <2>1. Stream' = Stream \o Code[e]
    BY <1>1, HitStream
  <2>2. EndAlike(Stream', Code[e])
    BY <1>0, <2>1, CodeTyped, EndOfWhole
  <2> QED
    BY <2>2 DEF SyncInv
<1>2. CASE Arrive
  BY <1>2, ArriveStream DEF SyncInv
<1>3. CASE keyboard_read
  <2>1. lost' = lost /\ Head(queue) \in Octets /\ Begun(got) /\ Taken \in Seq(Octets)
    BY <1>3, Taking
  <2>2. got' = Taken \/ got' = << >>
    BY <1>3, <2>1, Reader DEF TypeInv, Keep, Decoded
  <2>3. CASE got' = Taken
    BY <1>3, <2>1, <2>3, ReadStream DEF SyncInv
  <2>4. CASE got' = << >>
    <3>1. Stream = Taken \o Stream'
      BY <1>3, <2>4, ReadStream
    <3>2. Stream' \in Seq(Octets)
      BY <1>3, <2>4, ReadStream
    <3>3. Stream = << >> => Stream' = << >>
      <4>1. Taken \o Stream' = << >> <=> Taken = << >> /\ Stream' = << >>
        BY <2>1, <3>2, ConcatEqualIffEmpty
      <4> QED
        BY <3>1, <4>1
    <3>4. ASSUME NEW e \in Event, EndAlike(Stream, Code[e]) PROVE EndAlike(Stream', Code[e])
      BY <2>1, <3>1, <3>2, <3>4, CodeTyped, EndOfRest
    <3> QED
      BY <2>1, <3>3, <3>4 DEF SyncInv
  <2> QED
    BY <2>2, <2>3, <2>4
<1>4. CASE UNCHANGED vars
  BY <1>4 DEF vars, SyncInv, Stream
<1> QED
  BY <1>1, <1>2, <1>3, <1>4 DEF Next

(* Nothing that a call may have begun with ends as a whole code does.      *)
LEMMA NoneInside ==
  ASSUME Distinct, NEW s \in Seq(Octets), Begun(s), Len(s) > 0, NEW e \in Event
  PROVE  ~EndAlike(s, Code[e])
<1> SUFFICES ASSUME EndAlike(s, Code[e]) PROVE FALSE
  OBVIOUS
<1> DEFINE c == Code[e]
           n == Len(s)
           m == Len(c)
<1>1. /\ 1 <= n /\ n < 6 /\ n \in Nat
      /\ \/ s[1] = 225 /\ Starts(s, PauseCode)
         \/ s[1] = 224 /\ n < 4 /\ Starts(s, PrintMake)
         \/ s[1] = 224 /\ n < 4 /\ Starts(s, PrintBreak)
  BY GotPoints, LenProperties
<1>2. c \in Seq(Octets) /\ m \in Nat /\ m > 0
  BY CodeTyped, LenProperties
<1>3. /\ s[n] = c[m]
      /\ n >= 2 /\ m >= 2 => s[n - 1] = c[m - 1]
  <2>1. n \in 1 .. n /\ m \in 1 .. m /\ n - n = m - m
    BY <1>1, <1>2
  <2>2. n >= 2 /\ m >= 2 =>
          n - 1 \in 1 .. n /\ m - 1 \in 1 .. m /\ n - (n - 1) = m - (m - 1)
    BY <1>1, <1>2
  <2> QED
    BY <2>1, <2>2 DEF EndAlike
<1> HIDE DEF c, n, m
<1>4. \/ n = 1 /\ s[n] \in {224, 225}
      \/ n = 2 /\ s[n] = 29 /\ s[n - 1] = 225
      \/ n = 2 /\ s[n] \in {42, 183}
      \/ n = 3 /\ s[n] \in {69, 224}
      \/ n = 4 /\ s[n] = 225
      \/ n = 5 /\ s[n] = 157 /\ s[n - 1] = 225
  <2>1. \A code : Starts(s, code) => s[n] = code[n] /\ (n > 1 => s[n - 1] = code[n - 1])
    BY <1>1 DEF Starts, n
  <2>2. Starts(s, PauseCode) => s[n] = PauseCode[n] /\ (n > 1 => s[n - 1] = PauseCode[n - 1])
    BY <2>1
  <2>3. Starts(s, PrintMake) => s[n] = PrintMake[n]
    BY <2>1
  <2>4. Starts(s, PrintBreak) => s[n] = PrintBreak[n]
    BY <2>1
  <2>5. CASE n = 1
    BY <1>1, <2>5
  <2>6. CASE n = 2
    BY <1>1, <2>2, <2>3, <2>4, <2>6, Points
  <2>7. CASE n = 3
    BY <1>1, <2>2, <2>3, <2>4, <2>7, Points
  <2>8. CASE n = 4
    BY <1>1, <2>2, <2>8, Points
  <2>9. CASE n = 5
    BY <1>1, <2>2, <2>9, Points
  <2> QED
    BY <1>1, <2>5, <2>6, <2>7, <2>8, <2>9
<1>5. CASE Simple(e)
  <2>1. m = 1
    BY <1>5 DEF Simple, m, c
  <2>2. \E code \in Whole : s[n] \in ToSet(code)
    <3>1. ASSUME NEW code \in Whole, Starts(s, code), n <= Len(code)
          PROVE  s[n] \in ToSet(code)
      <4>1. DOMAIN code = 1 .. Len(code)
        BY <3>1, Points, LenProperties DEF Whole
      <4> QED
        BY <1>1, <3>1, <4>1 DEF Starts, ToSet, n
    <3>2. n <= Len(PauseCode) /\ (n < 4 => n <= Len(PrintMake) /\ n <= Len(PrintBreak))
      BY <1>1, Points
    <3> QED
      BY <1>1, <3>1, <3>2 DEF Whole
  <2>3. s[n] = Code[e][1]
    BY <1>3, <2>1 DEF c
  <2> QED
    BY <2>1, <2>2, <2>3 DEF Distinct, m, c
<1>6. CASE Prefixed(e)
  <2>1. e.key[1] \in Extended /\ c = <<224, FinalByte(e)>>
    BY <1>6 DEF Prefixed, c
  <2>2. m = 2 /\ c[1] = 224 /\ c[2] = FinalByte(e)
    BY <2>1 DEF m
  <2>3. /\ FinalByte(e) # 224 /\ FinalByte(e) # 225 /\ FinalByte(e) # 42
        /\ FinalByte(e) # 183 /\ FinalByte(e) # 69
    BY <2>1, Rows, Final
  <2> QED
    BY <1>3, <1>4, <2>2, <2>3
<1>7. CASE Special(e)
  <2>1. c[m] \in {197, 55, 170}
    <3>1. c = PauseCode \/ c = PrintMake \/ c = PrintBreak
      BY <1>7 DEF Special, Whole, c
    <3>2. /\ PauseCode[Len(PauseCode)] = 197
          /\ PrintMake[Len(PrintMake)] = 55
          /\ PrintBreak[Len(PrintBreak)] = 170
      BY Points
    <3> QED
      BY <3>1, <3>2 DEF m
  <2> QED
    BY <1>3, <1>4, <2>1
<1> QED
  BY <1>5, <1>6, <1>7, Kinds

LEMMA SyncResyncs == ASSUME Distinct, TypeInv, SyncInv PROVE Resyncs
<1> SUFFICES ASSUME line = << >>, queue = << >>, ~lost, got # << >> PROVE FALSE
  BY DEF Resyncs
<1>1. got \in Seq(Octets) /\ Begun(got)
  BY DEF TypeInv, TypeOK, Begun, Whole
<1>2. Stream = got
  <2>1. got \o << >> = got
    BY <1>1, ConcatEmptySeq
  <2> QED
    BY <2>1 DEF Stream
<1>3. PICK e \in Event : EndAlike(got, Code[e])
  BY <1>2 DEF SyncInv
<1>4. Len(got) > 0
  BY <1>1, EmptySeq
<1> QED
  BY <1>1, <1>3, <1>4, NoneInside

(* Bytes dropped at a full buffer garble keys, for keys of any kind and    *)
(* buffers of any size, but once a later key has come through whole and    *)
(* been dealt with, the next is read from its first byte.                  *)
THEOREM AlwaysResyncs == ASSUME Distinct PROVE Spec => []Resyncs
<1>1. Init => SyncInv
  <2> SUFFICES ASSUME Init PROVE Stream = << >>
    BY DEF SyncInv
  <2>1. got = << >> /\ queue = << >> /\ line = << >>
    BY DEF Init
  <2> QED
    BY <2>1, StreamTyped, InitType, ConcatEmptySeq DEF Stream
<1>2. TypeInv /\ SyncInv /\ [Next]_vars => SyncInv'
  BY SyncStep
<1>3. TypeInv /\ SyncInv => Resyncs
  BY SyncResyncs
<1> QED
  BY <1>1, <1>2, <1>3, TypeAlways, PTL DEF Spec

-----------------------------------------------------------------------------
(* One key read: its bytes are kept until the last, which ends the call.   *)

(* What k is reported as now.                                              *)
Told(k) == IF modifiers \cap {SHIFT_L, SHIFT_R} = {} THEN Meaning[k] ELSE ShiftedMeaning[k]

(* The modifiers down after e if those in held were before.                *)
After(e, held) == IF e.key \notin Modifiers THEN held
                  ELSE IF e.make THEN held \cup {e.key}
                  ELSE held \ {e.key}

Reported(e) ==
  /\ got' = << >>
  /\ modifiers' = After(e, modifiers)
  /\ IF e.make /\ e.key \notin {PRINTSCREEN, PAUSEBREAK}
     THEN LET key == Told(e.key)
          IN /\ typed' = [key |-> key, flags |-> modifiers']
             /\ shown' = IF key \in Characters THEN key ELSE shown
     ELSE UNCHANGED <<typed, shown>>

LEMMA NeverBoth ==
  ASSUME NEW s \in Seq(Octets), s \in Whole
  PROVE  ~Begun(s)
<1> SUFFICES ASSUME Begun(s) PROVE FALSE
  OBVIOUS
<1>1. Len(s) \in Nat
  BY LenProperties
<1>2. \/ Len(s) = 6 /\ Starts(s, PauseCode)
      \/ Len(s) = 4 /\ Starts(s, PrintMake)
      \/ Len(s) = 4 /\ Starts(s, PrintBreak)
  BY WholePoints
<1>3. \/ Len(s) < 6 /\ Starts(s, PauseCode)
      \/ Len(s) < 4 /\ Starts(s, PrintMake)
      \/ Len(s) < 4 /\ Starts(s, PrintBreak)
  BY BegunPoints
<1>4. PauseCode[1] = 225 /\ PrintMake[1] = 224 /\ PrintBreak[1] = 224
  BY Points
<1>5. Len(s) = 6 \/ Len(s) = 4
  BY <1>2
<1>6. 1 \in 1 .. Len(s)
  BY <1>5
<1>7. \A code : Starts(s, code) => s[1] = code[1]
  BY <1>6 DEF Starts
<1>8. /\ Starts(s, PauseCode) => s[1] = 225
      /\ Starts(s, PrintMake) => s[1] = 224
      /\ Starts(s, PrintBreak) => s[1] = 224
  BY <1>4, <1>7
<1>9. CASE Len(s) = 6
  BY <1>3, <1>2, <1>8, <1>9
<1>10. CASE Len(s) = 4
  BY <1>3, <1>2, <1>8, <1>10
<1> QED
  BY <1>2, <1>9, <1>10

(* What keyboard_read() looks a key up as, and what that does to the       *)
(* flags.                                                                  *)
LEMMA SimpleLooked ==
  ASSUME NEW e \in Event, Simple(e), NEW row, row = e.key[1], NEW key,
         key = keymap(row, Shifted)
  PROVE  /\ key = Told(e.key)
         /\ Flags(key, e.make) = After(e, modifiers)
         /\ e.key \notin {PRINTSCREEN, PAUSEBREAK}
<1>1. e.key = <<row, 0>> /\ row \in Plain /\ e.key \in Keys /\ e.key[2] = 0
  BY DEF Simple, Event
<1>2. /\ Meaning[e.key] = keymap(e.key[1], e.key[2])
      /\ ShiftedMeaning[e.key] = keymap(e.key[1], IF e.key[2] = 2 THEN 2 ELSE 1)
  BY <1>1 DEF Meaning, ShiftedMeaning
<1>3. key = Told(e.key)
  BY <1>1, <1>2 DEF Shifted, Told
<1>4. key = <<row, IF row \in Unshifted THEN 0 ELSE Shifted>> /\ Shifted \in {0, 1}
  BY <1>1 DEF keymap, Shifted
<1>5. e.key \in Modifiers <=> row \in {42, 54, 29, 56}
  BY <1>1 DEF Modifiers, SHIFT_L, SHIFT_R, CTRL_L, CTRL_R, ALT_L, ALT_R
<1>6. key \in Modifiers <=> key[1] \in {42, 54, 29, 56} /\ key[2] = 0
  BY <1>4 DEF Modifiers, SHIFT_L, SHIFT_R, CTRL_L, CTRL_R, ALT_L, ALT_R
<1>7. row \in {42, 54, 29, 56} => row \in Unshifted
  BY DEF Unshifted
<1>8. e.key \in Modifiers <=> key \in Modifiers
  BY <1>4, <1>5, <1>6, <1>7
<1>9. e.key \in Modifiers => key = e.key /\ FlagOf(key) = key
  BY <1>1, <1>4, <1>5, <1>7 DEF FlagOf, ALT_R
<1>10. e.key \notin {PRINTSCREEN, PAUSEBREAK}
  BY <1>1 DEF PRINTSCREEN, PAUSEBREAK
<1> QED
  BY <1>3, <1>8, <1>9, <1>10 DEF Flags, After

LEMMA PrefixedLooked ==
  ASSUME NEW e \in Event, Prefixed(e), ALT_R \notin Keys, NEW row, row = e.key[1], NEW key,
         key = keymap(row, 2)
  PROVE  /\ key = Told(e.key)
         /\ Flags(key, e.make) = After(e, modifiers)
         /\ e.key \notin {PRINTSCREEN, PAUSEBREAK}
<1>1. e.key = <<row, 2>> /\ row \in Extended /\ e.key \in Keys /\ e.key[2] = 2
  BY DEF Prefixed, Event
<1>2. /\ Meaning[e.key] = keymap(e.key[1], e.key[2])
      /\ ShiftedMeaning[e.key] = keymap(e.key[1], IF e.key[2] = 2 THEN 2 ELSE 1)
  BY <1>1 DEF Meaning, ShiftedMeaning
<1>3. key = Told(e.key)
  BY <1>1, <1>2 DEF Told
<1>4. key = e.key /\ FlagOf(key) = key
  BY <1>1 DEF keymap, FlagOf
<1>5. e.key \notin {PRINTSCREEN, PAUSEBREAK}
  BY <1>1, Rows DEF PRINTSCREEN, PAUSEBREAK
<1> QED
  BY <1>3, <1>4, <1>5 DEF Flags, After

(* The look-up of a code, whatever key it is.                              *)
LEMMA LookedUp ==
  ASSUME NEW e \in Event, NEW code, NEW col, Decoded(code, col), NEW key,
         key = keymap(code % 128, col), code < 128 <=> e.make,
         key = Told(e.key),
         Flags(key, e.make) = After(e, modifiers),
         e.key \notin {PRINTSCREEN, PAUSEBREAK}
  PROVE  Reported(e)
<1>1. e.make \in BOOLEAN
  BY DEF Event
<1>2. Flags(key, code < 128) = Flags(key, e.make)
  BY <1>1 DEF Flags
<1>3. got' = << >> /\ modifiers' = Flags(key, code < 128)
      /\ IF code < 128 THEN in_process(key) ELSE UNCHANGED <<typed, shown>>
  BY DEF Decoded
<1> QED
  BY <1>1, <1>2, <1>3 DEF Reported, in_process

LEMMA SpecialRead ==
  ASSUME TypeInv, keyboard_read, NEW e \in Event, Special(e),
         Starts(Taken, Code[e]), Len(Taken) <= Len(Code[e])
  PROVE  \/ Len(Taken) < Len(Code[e]) /\ Keep(Taken)
         \/ Taken = Code[e] /\ Reported(e)
<1>1. Taken \in Seq(Octets) /\ Code[e] \in Seq(Octets) /\ Code[e] \in Whole
  BY Taking, CodeTyped DEF Special
<1>2. Len(Taken) \in Nat /\ Len(Code[e]) \in Nat
  BY <1>1, LenProperties
<1>3. /\ Len(Taken) < Len(Code[e]) => Begins(Taken, Code[e])
      /\ Len(Taken) = Len(Code[e]) => Taken = Code[e]
  BY <1>1, Beginning
<1>4. \/ Begun(Taken) /\ Keep(Taken)
      \/ Taken \in Whole /\ Keep(<< >>)
      \/ ~Begun(Taken) /\ Taken \notin Whole
  BY Taking, Reader DEF TypeInv
<1>5. CASE Len(Taken) < Len(Code[e])
  <2>1. Begun(Taken)
    BY <1>1, <1>3, <1>5 DEF Begun
  <2>2. Taken \notin Whole
    BY <1>1, <2>1, NeverBoth
  <2> QED
    BY <1>4, <1>5, <2>1, <2>2
<1>6. CASE Len(Taken) = Len(Code[e])
  <2>1. Taken = Code[e] /\ Taken \in Whole
    BY <1>1, <1>3, <1>6
  <2>2. Keep(<< >>)
    BY <1>1, <1>4, <2>1, NeverBoth
  <2>3. e.key \in {PRINTSCREEN, PAUSEBREAK}
    BY DEF Special
  <2>4. e.key \notin Modifiers
    BY <2>3 DEF PRINTSCREEN, PAUSEBREAK, Modifiers, SHIFT_L, SHIFT_R, CTRL_L, CTRL_R, ALT_L, ALT_R
  <2> QED
    BY <2>1, <2>2, <2>3, <2>4 DEF Keep, Reported, After
<1> QED
  BY <1>2, <1>5, <1>6

(* What Taken is when it has one byte or two.                              *)
LEMMA FewTaken ==
  ASSUME TypeInv, keyboard_read
  PROVE  /\ Taken \in Seq(Octets) /\ got \in Seq(Octets) /\ Head(queue) \in Octets
         /\ Len(got) \in Nat /\ Len(Taken) = Len(got) + 1
         /\ Len(Taken) = 1 => got = << >> /\ got # <<224>> /\ Taken[1] = Head(queue)
         /\ Len(Taken) = 2 => got # << >> /\ (Taken[1] = 224 => got = <<224>>)
                              /\ Taken[2] = Head(queue)
<1>1. got \in Seq(Octets) /\ Head(queue) \in Octets
  BY Taking DEF TypeInv
<1> DEFINE b == Head(queue)
           t == Taken
<1>2. /\ t \in Seq(Octets) /\ Len(t) = Len(got) + 1 /\ Len(got) \in Nat
      /\ t[Len(got) + 1] = b /\ \A j \in 1 .. Len(got) : t[j] = got[j]
  BY <1>1, Appended DEF Taken
<1> HIDE DEF b, t
<1>6. (Len(t) = 1 => Len(got) = 0) /\ (Len(t) = 2 => Len(got) = 1)
  <2> DEFINE n == Len(got)
  <2>1. Len(t) = n + 1 /\ n \in Nat
    BY <1>2
  <2> HIDE DEF n
  <2>2. (Len(t) = 1 => n = 0) /\ (Len(t) = 2 => n = 1)
    BY <2>1
  <2> QED
    BY <2>2 DEF n
<1>3. CASE Len(t) = 1
  <2>1. Len(got) = 0
    BY <1>3, <1>6
  <2>2. got = << >> /\ got # <<224>> /\ t[1] = b
    BY <1>1, <1>2, <2>1, Short
  <2> QED
    BY <1>1, <1>2, <1>3, <2>2 DEF b, t
<1>4. CASE Len(t) = 2
  <2>1. Len(got) = 1
    BY <1>4, <1>6
  <2>2. t[2] = b /\ t[1] = got[1]
    BY <1>2, <2>1
  <2>3. 224 \in Octets
    BY DEF Octets
  <2>4. got # << >> /\ (t[1] = 224 => got = <<224>>)
    BY <1>1, <2>1, <2>2, <2>3, Short
  <2> QED
    BY <1>1, <1>2, <1>4, <2>2, <2>4 DEF b, t
<1>5. CASE Len(t) # 1 /\ Len(t) # 2
  BY <1>1, <1>2, <1>5 DEF b, t
<1> QED
  BY <1>3, <1>4, <1>5

LEMMA SimpleRead ==
  ASSUME TypeInv, keyboard_read, NEW e \in Event, Simple(e),
         Starts(Taken, Code[e]), Len(Taken) <= Len(Code[e])
  PROVE  Taken = Code[e] /\ Reported(e)
<1> DEFINE b == FinalByte(e)
           row == e.key[1]
           key == keymap(row, Shifted)
<1>1. Code[e] = <<b>> /\ row \in Plain
  BY DEF Simple
<1>2. /\ b \in Octets /\ b % 128 = row /\ (b < 128 <=> e.make) /\ b # 224 /\ b # 225
  BY <1>1, Rows, Final
<1>3. Len(Code[e]) = 1 /\ Code[e][1] = b
  BY <1>1
<1> HIDE DEF b
<1>4. Len(Taken) = 1
  <2>1. Len(got) \in Nat /\ Len(Taken) = Len(got) + 1
    BY FewTaken
  <2> DEFINE n == Len(got)
             t == Len(Taken)
  <2>2. n \in Nat /\ t = n + 1 /\ t <= 1
    BY <1>3, <2>1
  <2> HIDE DEF n, t
  <2>3. t = 1
    BY <2>2
  <2> QED
    BY <2>3 DEF t
<1>5. got = << >> /\ Taken[1] = Head(queue) /\ Taken \in Seq(Octets)
  BY <1>4, FewTaken
<1>6. Head(queue) = b /\ Taken[1] = b
  <2>1. 1 \in 1 .. Len(Taken)
    BY <1>4
  <2> QED
    BY <1>3, <1>5, <2>1 DEF Starts
<1>7. Taken = Code[e]
  BY <1>1, <1>2, <1>4, <1>5, <1>6, Short
<1>8. ~Begun(Taken)
  <2>1. Len(Taken) > 0
    BY <1>4
  <2>2. Begun(Taken) => Taken[1] \in {224, 225}
    BY <1>5, <2>1, GotPoints
  <2> QED
    BY <1>2, <1>6, <2>2
<1>9. Taken \notin Whole
  BY <1>4, <1>5, WholePoints
<1>10. Decoded(b, Shifted)
  BY <1>5, <1>6, <1>8, <1>9, Taking, Reader DEF TypeInv
<1>11. /\ key = Told(e.key) /\ Flags(key, e.make) = After(e, modifiers)
       /\ e.key \notin {PRINTSCREEN, PAUSEBREAK}
  BY SimpleLooked
<1>12. key = keymap(b % 128, Shifted)
  BY <1>2
<1> HIDE DEF key
<1>13. Reported(e)
  BY <1>2, <1>10, <1>11, <1>12, LookedUp
<1> QED
  BY <1>7, <1>13

LEMMA PrefixedRead ==
  ASSUME ALT_R \notin Keys, TypeInv, keyboard_read, NEW e \in Event, Prefixed(e),
         Starts(Taken, Code[e]), Len(Taken) <= Len(Code[e])
  PROVE  \/ Len(Taken) < Len(Code[e]) /\ Keep(Taken)
         \/ Taken = Code[e] /\ Reported(e)
<1> DEFINE b == FinalByte(e)
           row == e.key[1]
           key == keymap(row, 2)
<1>1. Code[e] = <<224, b>> /\ row \in Extended
  BY DEF Prefixed
<1>2. /\ b \in Octets /\ b % 128 = row /\ (b < 128 <=> e.make)
      /\ b # 42 /\ b # 183
  BY <1>1, Rows, Final
<1>3. Len(Code[e]) = 2 /\ Code[e][1] = 224 /\ Code[e][2] = b
  BY <1>1
<1> HIDE DEF b
<1>4. Len(Taken) = 1 \/ Len(Taken) = 2
  <2>1. Len(got) \in Nat /\ Len(Taken) = Len(got) + 1
    BY FewTaken
  <2> DEFINE n == Len(got)
             t == Len(Taken)
  <2>2. n \in Nat /\ t = n + 1 /\ t <= 2
    BY <1>3, <2>1
  <2> HIDE DEF n, t
  <2>3. t = 1 \/ t = 2
    BY <2>2
  <2> QED
    BY <2>3 DEF t
<1>5. Taken \in Seq(Octets) /\ Taken[1] = 224
  <2>1. 1 \in 1 .. Len(Taken)
    BY <1>4
  <2> QED
    BY <1>3, <2>1, FewTaken DEF Starts
<1>6. Taken \notin Whole
  <2>1. Len(Taken) # 6 /\ Len(Taken) # 4
    <3> DEFINE n == Len(Taken)
    <3>1. n = 1 \/ n = 2
      BY <1>4
    <3> HIDE DEF n
    <3>2. n # 6 /\ n # 4
      BY <3>1
    <3> QED
      BY <3>2 DEF n
  <2> QED
    BY <1>5, <2>1, WholePoints
<1>7. CASE Len(Taken) = 1
  <2>1. Begun(Taken)
    <3>1. PrintMake[1] = 224
      BY Points
    <3>2. Starts(Taken, PrintMake)
      BY <1>5, <1>7, <3>1 DEF Starts
    <3>3. Len(Taken) < 4
      BY <1>7
    <3> QED
      BY <1>5, <3>2, <3>3, BegunPoints
  <2>2. Keep(Taken)
    BY <1>6, <2>1, Taking, Reader DEF TypeInv
  <2> QED
    BY <1>3, <1>7, <2>2
<1>8. CASE Len(Taken) = 2
  <2>1. got = <<224>> /\ Taken[2] = Head(queue)
    BY <1>5, <1>8, FewTaken
  <2>2. Taken[2] = b
    <3>1. 2 \in 1 .. Len(Taken)
      BY <1>8
    <3> QED
      BY <1>3, <3>1 DEF Starts
  <2>3. Taken = Code[e]
    <3>1. Code[e] \in Seq(Octets)
      BY CodeTyped
    <3> QED
      BY <1>3, <1>5, <1>8, <3>1, Beginning
  <2>4. ~Begun(Taken)
    <3>1. \A code : Starts(Taken, code) => Taken[1] = code[1] /\ Taken[2] = code[2]
      BY <1>8 DEF Starts
    <3>2. PauseCode[1] = 225 /\ PrintMake[2] = 42 /\ PrintBreak[2] = 183
      BY Points
    <3>3. Begun(Taken) => Starts(Taken, PauseCode) \/ Starts(Taken, PrintMake) \/ Starts(Taken, PrintBreak)
      BY <1>5, BegunPoints
    <3> QED
      BY <1>2, <1>5, <2>2, <3>1, <3>2, <3>3
  <2>5. Decoded(b, 2)
    BY <1>6, <2>1, <2>2, <2>4, Taking, Reader DEF TypeInv
  <2>6. /\ key = Told(e.key) /\ Flags(key, e.make) = After(e, modifiers)
        /\ e.key \notin {PRINTSCREEN, PAUSEBREAK}
    BY PrefixedLooked
  <2>7. key = keymap(b % 128, 2)
    BY <1>2
  <2> HIDE DEF key
  <2>8. Reported(e)
    BY <1>2, <2>5, <2>6, <2>7, LookedUp
  <2> QED
    BY <2>3, <2>8
<1> QED
  BY <1>4, <1>7, <1>8

LEMMA KeyRead ==
  ASSUME ALT_R \notin Keys, TypeInv, keyboard_read, NEW e \in Event,
         Starts(Taken, Code[e]), Len(Taken) <= Len(Code[e])
  PROVE  \/ Len(Taken) < Len(Code[e]) /\ Keep(Taken)
         \/ Taken = Code[e] /\ Reported(e)
  BY Kinds, SimpleRead, PrefixedRead, SpecialRead

-----------------------------------------------------------------------------
(* The bytes s are those of the events p, and with the modifiers from held *)
(* before them those in to are after them: rest[i] is what is left of s    *)
(* after i events, held[i] the modifiers then.                             *)

Links(p, s, from, to, rest, held) ==
  /\ rest[0] = s /\ rest[Len(p)] = << >>
  /\ held[0] = from /\ held[Len(p)] = to
  /\ \A i \in 1 .. Len(p) : /\ rest[i - 1] = Code[p[i]] \o rest[i]
                            /\ held[i] = After(p[i], held[i - 1])

Chain(p, s, from, to) ==
  \E rest \in [Nat -> Seq(Octets)], held \in [Nat -> SUBSET Modifiers] :
    Links(p, s, from, to, rest, held)

LEMMA AfterTyped ==
  ASSUME NEW e \in Event, NEW m \in SUBSET Modifiers
  PROVE  After(e, m) \in SUBSET Modifiers
  BY DEF After

LEMMA ChainNone ==
  ASSUME NEW s, NEW from, NEW to, Chain(<< >>, s, from, to)
  PROVE  s = << >> /\ from = to
  BY DEF Chain, Links

LEMMA ChainStart == Chain(<< >>, << >>, {}, {})
<1> DEFINE rest == [i \in Nat |-> << >>]
           held == [i \in Nat |-> {}]
<1>1. rest \in [Nat -> Seq(Octets)] /\ held \in [Nat -> SUBSET Modifiers]
  OBVIOUS
<1>2. Links(<< >>, << >>, {}, {}, rest, held)
  BY DEF Links
<1> QED
  BY <1>1, <1>2 DEF Chain

LEMMA Regrouped ==
  ASSUME NEW a \in Seq(Octets), NEW b \in Seq(Octets), NEW c \in Seq(Octets)
  PROVE  (a \o b) \o c = a \o (b \o c)
  BY ConcatAssociative

LEMMA ChainAdd ==
  ASSUME NEW p \in Seq(Event), NEW s \in Seq(Octets), NEW from, NEW to,
         NEW e \in Event, Chain(p, s, from, to)
  PROVE  Chain(Append(p, e), s \o Code[e], from, After(e, to))
<1>1. PICK rest \in [Nat -> Seq(Octets)], held \in [Nat -> SUBSET Modifiers] :
        Links(p, s, from, to, rest, held)
  BY DEF Chain
<1> DEFINE n == Len(p)
           c == Code[e]
           q == Append(p, e)
           rest2 == [i \in Nat |-> IF i <= n THEN rest[i] \o c ELSE << >>]
           held2 == [i \in Nat |-> IF i <= n THEN held[i] ELSE After(e, to)]
<1>2. n \in Nat /\ c \in Seq(Octets)
  BY CodeTyped, LenProperties
<1>3. Len(q) = n + 1 /\ q[n + 1] = e /\ \A i \in 1 .. n : q[i] = p[i]
  BY AppendProperties
<1>4. \A i \in 1 .. n : p[i] \in Event
  BY ElementOfSeq
<1>5. /\ rest[0] = s /\ rest[n] = << >> /\ held[0] = from /\ held[n] = to
      /\ \A i \in 1 .. n : rest[i - 1] = Code[p[i]] \o rest[i] /\ held[i] = After(p[i], held[i - 1])
  BY <1>1 DEF Links
<1> HIDE DEF n, c, q
<1>6. rest2 \in [Nat -> Seq(Octets)]
  <2>1. \A i \in Nat : rest[i] \o c \in Seq(Octets)
    BY <1>2, ConcatProperties
  <2> QED
    BY <2>1
<1>7. held2 \in [Nat -> SUBSET Modifiers]
  <2>1. to \in SUBSET Modifiers
    BY <1>2, <1>5
  <2>2. After(e, to) \in SUBSET Modifiers
    BY <2>1, AfterTyped
  <2> QED
    BY <2>2
<1>d. \A i \in Nat : /\ i <= n => rest2[i] = rest[i] \o c /\ held2[i] = held[i]
                     /\ ~(i <= n) => rest2[i] = << >> /\ held2[i] = After(e, to)
  OBVIOUS
<1> HIDE DEF rest2, held2
<1>a. \A a, b \in Seq(Octets) : (a \o b) \o c = a \o (b \o c)
  <2>1. c \in Seq(Octets)
    BY <1>2
  <2> QED
    BY <2>1, Regrouped
<1>8. /\ rest2[0] = s \o c /\ rest2[n + 1] = << >>
      /\ held2[0] = from /\ held2[n + 1] = After(e, to)
  <2>1. 0 \in Nat /\ 0 <= n /\ n + 1 \in Nat /\ ~(n + 1 <= n)
    BY <1>2
  <2> QED
    BY <1>5, <1>d, <2>1
<1>9. ASSUME NEW i \in 1 .. n + 1
      PROVE  rest2[i - 1] = Code[q[i]] \o rest2[i] /\ held2[i] = After(q[i], held2[i - 1])
  <2>1. CASE i \in 1 .. n
    <3> DEFINE j == i - 1
               a == Code[p[i]]
               b == rest[i]
    <3>1. i \in Nat /\ j \in Nat /\ i <= n /\ j <= n
      BY <1>2, <2>1
    <3>2. q[i] = p[i] /\ p[i] \in Event /\ rest[j] = a \o b /\ held[i] = After(p[i], held[j])
      BY <1>3, <1>4, <1>5, <2>1
    <3>3. a \in Seq(Octets) /\ b \in Seq(Octets)
      BY <3>1, <3>2, CodeTyped
    <3> HIDE DEF j, a, b
    <3>4. rest2[j] = rest[j] \o c /\ rest2[i] = rest[i] \o c
          /\ held2[i] = held[i] /\ held2[j] = held[j]
      BY <1>d, <3>1
    <3>5. (a \o b) \o c = a \o (b \o c)
      BY <1>a, <3>3
    <3>6. rest2[j] = Code[q[i]] \o rest2[i]
      BY <3>2, <3>4, <3>5 DEF a, b
    <3> QED
      BY <3>2, <3>4, <3>6 DEF j
  <2>2. CASE i = n + 1
    <3> DEFINE j == i - 1
    <3>1. i \in Nat /\ j = n /\ j \in Nat /\ j <= n /\ ~(i <= n)
      BY <1>2, <2>2
    <3> HIDE DEF j
    <3>2. q[i] = e
      BY <1>3, <2>2
    <3>3. rest2[j] = rest[j] \o c /\ rest2[i] = << >>
          /\ held2[j] = held[j] /\ held2[i] = After(e, to)
      BY <1>d, <3>1
    <3>4. << >> \o c = c /\ c \o << >> = c
      BY <1>2, ConcatEmptySeq
    <3>5. rest[j] = << >> /\ held[j] = to
      BY <1>5, <3>1
    <3> QED
      BY <3>2, <3>3, <3>4, <3>5 DEF c, j
  <2>3. i \in 1 .. n \/ i = n + 1
    BY <1>2
  <2> QED
    BY <2>1, <2>2, <2>3
<1>10. Links(q, s \o c, from, After(e, to), rest2, held2)
  BY <1>3, <1>8, <1>9 DEF Links
<1> QED
  BY <1>6, <1>7, <1>10 DEF Chain, q, c

LEMMA ChainHead ==
  ASSUME NEW p \in Seq(Event), p # << >>, NEW s, NEW from, NEW to, Chain(p, s, from, to)
  PROVE  \E r \in Seq(Octets) : /\ s = Code[Head(p)] \o r
                                /\ Chain(Tail(p), r, After(Head(p), from), to)
<1>1. PICK rest \in [Nat -> Seq(Octets)], held \in [Nat -> SUBSET Modifiers] :
        Links(p, s, from, to, rest, held)
  BY DEF Chain
<1> DEFINE n == Len(p)
           q == Tail(p)
           rest2 == [i \in Nat |-> rest[i + 1]]
           held2 == [i \in Nat |-> held[i + 1]]
<1>2. /\ n \in Nat /\ n > 0 /\ q \in Seq(Event) /\ Len(q) = n - 1 /\ Head(p) = p[1]
      /\ \A i \in 1 .. Len(q) : q[i] = p[i + 1]
  BY EmptySeq, LenProperties, HeadTailProperties
<1>3. /\ rest[0] = s /\ rest[n] = << >> /\ held[0] = from /\ held[n] = to
      /\ \A i \in 1 .. n : rest[i - 1] = Code[p[i]] \o rest[i] /\ held[i] = After(p[i], held[i - 1])
  BY <1>1 DEF Links
<1> HIDE DEF n, q
<1>4. rest2 \in [Nat -> Seq(Octets)] /\ held2 \in [Nat -> SUBSET Modifiers]
  OBVIOUS
<1>5. s = Code[Head(p)] \o rest[1] /\ held[1] = After(Head(p), from)
  <2>1. 1 \in 1 .. n /\ 1 - 1 = 0
    BY <1>2
  <2>2. rest[1 - 1] = Code[p[1]] \o rest[1] /\ held[1] = After(p[1], held[1 - 1])
    BY <1>3, <2>1
  <2> QED
    BY <1>2, <1>3, <2>1, <2>2
<1>6. /\ rest2[0] = rest[1] /\ held2[0] = held[1]
      /\ rest2[n - 1] = << >> /\ held2[n - 1] = to
  <2> DEFINE k == n - 1
  <2>1. k \in Nat /\ k + 1 = n
    BY <1>2
  <2> HIDE DEF k
  <2>2. rest2[k] = rest[k + 1] /\ held2[k] = held[k + 1]
    BY <2>1
  <2>3. rest2[0] = rest[1] /\ held2[0] = held[1]
    OBVIOUS
  <2> QED
    BY <1>3, <2>1, <2>2, <2>3 DEF k
<1>7. ASSUME NEW i \in 1 .. n - 1
      PROVE  rest2[i - 1] = Code[q[i]] \o rest2[i] /\ held2[i] = After(q[i], held2[i - 1])
  <2> DEFINE k == i + 1
  <2>1. k \in 1 .. n /\ k - 1 = i /\ i \in Nat /\ i - 1 \in Nat /\ (i - 1) + 1 = i /\ q[i] = p[k]
    BY <1>2
  <2>2. rest2[i - 1] = rest[k - 1] /\ rest2[i] = rest[k]
        /\ held2[i - 1] = held[k - 1] /\ held2[i] = held[k]
    BY <2>1
  <2> HIDE DEF k
  <2> QED
    BY <1>3, <2>1, <2>2
<1> HIDE DEF rest2, held2
<1>8. Links(q, rest[1], After(Head(p), from), to, rest2, held2)
  BY <1>2, <1>5, <1>6, <1>7 DEF Links
<1>9. Chain(q, rest[1], After(Head(p), from), to)
  BY <1>4, <1>8 DEF Chain
<1> QED
  BY <1>5, <1>9 DEF q

-----------------------------------------------------------------------------
(* The bytes taken, buffered and to come are those of the events not dealt *)
(* with, p; the first has not been taken whole; and the flags lead through *)
(* p to the keys that are down.                                            *)
FollowsAs(p, g, s, flags, to) ==
  /\ p \in Seq(Event)
  /\ p # << >> => Len(g) < Len(Code[Head(p)])
  /\ Chain(p, s, flags, to)

Follows(p) == FollowsAs(p, got, Stream, modifiers, down \cap Modifiers)

LEMMA FollowsStart == Init => Follows(<< >>)
<1> SUFFICES ASSUME Init PROVE Follows(<< >>)
  OBVIOUS
<1>1. got = << >> /\ queue = << >> /\ line = << >> /\ modifiers = {} /\ down = {}
  BY DEF Init
<1>2. Stream = << >>
  BY <1>1, InitType, StreamTyped, ConcatEmptySeq DEF Stream
<1>3. down \cap Modifiers = {}
  BY <1>1
<1>4. << >> \in Seq(Event)
  OBVIOUS
<1> QED
  BY <1>1, <1>2, <1>3, <1>4, ChainStart DEF Follows, FollowsAs

(* A key hit adds its code at the end and itself to what is pending.       *)
LEMMA HitFollows ==
  ASSUME TypeInv, NEW p, Follows(p), NEW e \in Event, Hit(e)
  PROVE  FollowsAs(Append(p, e), got', Stream', modifiers', (down \cap Modifiers)')
<1> DEFINE to == down \cap Modifiers
           q == Append(p, e)
<1>1. /\ p \in Seq(Event) /\ (p # << >> => Len(got) < Len(Code[Head(p)]))
      /\ Chain(p, Stream, modifiers, to)
  BY DEF Follows, FollowsAs
<1>2. Stream' = Stream \o Code[e] /\ Stream \in Seq(Octets)
  BY HitStream, StreamTyped
<1>3. got' = got /\ modifiers' = modifiers
      /\ down' = IF e.make THEN down \cup ({e.key} \ {PAUSEBREAK}) ELSE down \ {e.key}
  BY DEF Hit
<1>4. (down \cap Modifiers)' = After(e, to)
  <2>1. PAUSEBREAK \notin Modifiers
    BY DEF PAUSEBREAK, Modifiers, SHIFT_L, SHIFT_R, CTRL_L, CTRL_R, ALT_L, ALT_R
  <2>2. Modifiers' = Modifiers
    BY DEF Modifiers
  <2> QED
    BY <1>3, <2>1, <2>2 DEF After
<1>5. Chain(q, Stream', modifiers', After(e, to))
  BY <1>1, <1>2, <1>3, ChainAdd
<1>6. q \in Seq(Event)
  BY <1>1, AppendProperties
<1>7. Len(got) < Len(Code[Head(q)])
  <2>1. CASE p = << >>
    <3>1. Stream = << >>
      BY <1>1, <2>1, ChainNone
    <3>2. got \in Seq(Octets) /\ queue \in Seq(Octets) /\ line \in Seq(Octets)
      BY StreamTyped
    <3>3. got \o queue \in Seq(Octets)
      BY <3>2, ConcatProperties
    <3>4. got \o queue = << >>
      BY <3>1, <3>2, <3>3, ConcatEqualIffEmpty DEF Stream
    <3>5. got = << >>
      BY <3>2, <3>4, ConcatEqualIffEmpty
    <3>6. Len(got) = 0
      BY <3>5
    <3>7. Head(q) = e
      BY <2>1
    <3> QED
      BY <3>6, <3>7, CodeTyped
  <2>2. CASE p # << >>
    <3>1. Head(q) = Head(p)
      BY <1>1, <2>2, AppendProperties, HeadTailProperties, EmptySeq
    <3> QED
      BY <1>1, <2>2, <3>1
  <2> QED
    BY <2>1, <2>2
<1> QED
  BY <1>3, <1>4, <1>5, <1>6, <1>7 DEF FollowsAs

LEMMA ArriveFollows ==
  ASSUME Patient, TypeInv, NEW p, Follows(p), Arrive
  PROVE  FollowsAs(p, got', Stream', modifiers', (down \cap Modifiers)')
<1>1. got' = got /\ modifiers' = modifiers /\ down' = down
  BY DEF Arrive
<1>2. Stream' = Stream
  BY ArriveStream
<1> QED
  BY <1>1, <1>2 DEF Follows

LEMMA Joined ==
  ASSUME NEW s \in Seq(Octets), NEW t \in Seq(Octets), NEW u, u = s \o t
  PROVE  \A i \in 1 .. Len(s) + Len(t) : u[i] = IF i <= Len(s) THEN s[i] ELSE t[i - Len(s)]
  BY ConcatProperties

(* Two ways to divide the same bytes agree as far as the shorter goes.     *)
LEMMA SameStart ==
  ASSUME NEW s \in Seq(Octets), NEW t \in Seq(Octets), NEW c \in Seq(Octets), NEW r \in Seq(Octets),
         NEW u, u = s \o t, u = c \o r, Len(s) <= Len(c)
  PROVE  Starts(s, c)
<1>1. Len(s) \in Nat /\ Len(c) \in Nat /\ Len(t) \in Nat /\ Len(r) \in Nat
  BY LenProperties
<1>2. \A i \in 1 .. Len(s) + Len(t) : u[i] = IF i <= Len(s) THEN s[i] ELSE t[i - Len(s)]
  BY Joined
<1>3. \A i \in 1 .. Len(c) + Len(r) : u[i] = IF i <= Len(c) THEN c[i] ELSE r[i - Len(c)]
  BY Joined
<1>4. ASSUME NEW i \in 1 .. Len(s) PROVE s[i] = c[i]
  <2>1. /\ i \in 1 .. Len(s) + Len(t) /\ i <= Len(s)
        /\ i \in 1 .. Len(c) + Len(r) /\ i <= Len(c)
    BY <1>1
  <2> QED
    BY <1>2, <1>3, <2>1
<1> QED
  BY <1>4 DEF Starts

(* A byte read is the next of the oldest event's; the last of them ends    *)
(* the call and reports that event.                                        *)
LEMMA ReadFollows ==
  ASSUME ALT_R \notin Keys, TypeInv, NEW p, Follows(p), keyboard_read
  PROVE  /\ p \in Seq(Event) /\ p # << >>
         /\ \/ /\ got' # << >> /\ UNCHANGED <<modifiers, typed, shown>>
               /\ FollowsAs(p, got', Stream', modifiers', (down \cap Modifiers)')
            \/ /\ Reported(Head(p))
               /\ FollowsAs(Tail(p), got', Stream', modifiers', (down \cap Modifiers)')
<1> DEFINE to == down \cap Modifiers
           e == Head(p)
           q == Tail(p)
<1>1. /\ p \in Seq(Event) /\ (p # << >> => Len(got) < Len(Code[e]))
      /\ Chain(p, Stream, modifiers, to)
  BY DEF Follows, FollowsAs
<1>2. /\ Taken \in Seq(Octets) /\ Len(got) \in Nat /\ Len(Taken) = Len(got) + 1
  BY FewTaken
<1>3. PICK left \in Seq(Octets) : Stream = Taken \o left
  BY ReadStream
<1>4. p # << >>
  <2>1. Taken # << >>
    BY <1>2, EmptySeq
  <2>2. Stream # << >>
    BY <1>2, <1>3, <2>1, ConcatEqualIffEmpty
  <2> QED
    BY <1>1, <2>2, ChainNone
<1>5. e \in Event /\ q \in Seq(Event)
  BY <1>1, <1>4, HeadTailProperties
<1>6. PICK r \in Seq(Octets) : Stream = Code[e] \o r /\ Chain(q, r, After(e, modifiers), to)
  BY <1>1, <1>4, ChainHead
<1> HIDE DEF e, q
<1>7. Code[e] \in Seq(Octets) /\ Len(Code[e]) \in Nat
  BY <1>5, CodeTyped, LenProperties
<1>8. Len(Taken) <= Len(Code[e])
  <2> DEFINE n == Len(got)
  <2>1. n < Len(Code[e]) /\ n \in Nat /\ Len(Taken) = n + 1
    BY <1>1, <1>2, <1>4
  <2> HIDE DEF n
  <2> QED
    BY <1>7, <2>1
<1>9. Starts(Taken, Code[e])
  BY <1>2, <1>3, <1>6, <1>7, <1>8, SameStart
<1>10. to' = to
  <2>1. down' = down
    BY Taking
  <2> QED
    BY <2>1 DEF Modifiers, SHIFT_L, SHIFT_R, CTRL_L, CTRL_R, ALT_L, ALT_R
<1>11. CASE Len(Taken) < Len(Code[e]) /\ Keep(Taken)
  <2>1. got' = Taken /\ UNCHANGED <<modifiers, typed, shown>>
    BY <1>11 DEF Keep
  <2>2. Stream' = Stream
    BY <2>1, ReadStream
  <2>3. got' # << >>
    BY <1>2, <2>1, EmptySeq
  <2> QED
    BY <1>1, <1>4, <1>10, <1>11, <2>1, <2>2, <2>3 DEF FollowsAs, e
<1>12. CASE Taken = Code[e] /\ Reported(e)
  <2>1. got' = << >> /\ modifiers' = After(e, modifiers)
    BY <1>12 DEF Reported
  <2>2. Stream = Taken \o Stream' /\ Stream' \in Seq(Octets)
    BY <2>1, ReadStream
  <2>3. Stream' = r
    BY <1>2, <1>6, <1>12, <2>2, ConcatSimplifications
  <2>4. q # << >> => Len(got') < Len(Code[Head(q)])
    <3>1. q # << >> => Head(q) \in Event
      BY <1>5, HeadTailProperties
    <3>2. Len(got') = 0
      BY <2>1
    <3> QED
      BY <3>1, <3>2, CodeTyped
  <2> QED
    BY <1>1, <1>4, <1>5, <1>6, <1>10, <1>12, <2>1, <2>3, <2>4 DEF FollowsAs, e, q
<1> QED
  BY <1>5, <1>8, <1>9, <1>11, <1>12, KeyRead

LEMMA FollowsQuiet ==
  ASSUME TypeInv, NEW p, Follows(p)
  PROVE  ModifiersFollowKeys
<1> SUFFICES ASSUME line = << >>, queue = << >>, got = << >>
             PROVE  modifiers = down \cap Modifiers
  BY DEF ModifiersFollowKeys, Quiet
<1>1. p \in Seq(Event) /\ Chain(p, Stream, modifiers, down \cap Modifiers)
  BY DEF Follows, FollowsAs
<1>2. Stream = << >>
  BY StreamTyped, ConcatEmptySeq DEF Stream
<1>3. p = << >>
  <2> SUFFICES ASSUME p # << >> PROVE FALSE
    OBVIOUS
  <2>1. PICK r \in Seq(Octets) : Stream = Code[Head(p)] \o r
    BY <1>1, ChainHead
  <2>2. Head(p) \in Event
    BY <1>1, HeadTailProperties
  <2>3. Code[Head(p)] \in Seq(Octets) /\ Code[Head(p)] # << >>
    BY <2>2, CodeTyped, EmptySeq
  <2> DEFINE c == Code[Head(p)]
  <2>4. c \in Seq(Octets)
    BY <2>3
  <2> HIDE DEF c
  <2>5. c \o r = << >> => c = << >>
    BY <2>4, ConcatEqualIffEmpty
  <2> QED
    BY <1>2, <2>1, <2>3, <2>5 DEF c
<1> QED
  BY <1>1, <1>3, ChainNone

FollowsSome == \E p : Follows(p)

LEMMA FollowsSomeStep ==
  ASSUME Patient, ALT_R \notin Keys, TypeInv, FollowsSome, [Next]_vars
  PROVE  FollowsSome'
<1>1. PICK p : Follows(p)
  BY DEF FollowsSome
<1>2. ASSUME NEW q, FollowsAs(q, got', Stream', modifiers', (down \cap Modifiers)')
      PROVE  FollowsSome'
  BY <1>2 DEF FollowsSome, Follows
<1>3. ASSUME NEW e \in Event, Hit(e) PROVE FollowsSome'
  BY <1>1, <1>2, <1>3, HitFollows
<1>4. CASE Arrive
  BY <1>1, <1>2, <1>4, ArriveFollows
<1>5. CASE keyboard_read
  BY <1>1, <1>2, <1>5, ReadFollows
<1>6. CASE UNCHANGED vars
  <2>1. got' = got /\ Stream' = Stream /\ modifiers' = modifiers /\ (down \cap Modifiers)' = down \cap Modifiers
    BY <1>6 DEF vars, Stream
  <2> QED
    BY <1>1, <1>2, <2>1 DEF Follows
<1> QED
  BY <1>3, <1>4, <1>5, <1>6 DEF Next

(* When every byte has been dealt with, each flag says whether its key is  *)
(* down: for every set of keys without the right Alt key, whose code       *)
(* keyboard_read() gives to the left one's flag, and while no byte is      *)
(* dropped.                                                                *)
THEOREM FlagsFollowKeys ==
  ASSUME Patient, ALT_R \notin Keys
  PROVE  Spec => []ModifiersFollowKeys
<1>1. Init => FollowsSome
  BY FollowsStart DEF FollowsSome
<1>2. TypeInv /\ FollowsSome /\ [Next]_vars => FollowsSome'
  BY FollowsSomeStep
<1>3. TypeInv /\ FollowsSome => ModifiersFollowKeys
  BY FollowsQuiet DEF FollowsSome
<1> QED
  BY <1>1, <1>2, <1>3, TypeAlways, PTL DEF Spec

-----------------------------------------------------------------------------
(* The events pending in KeyEvents are those that are followed.            *)

LEMMA EventsType == EventsSpec => []TypeInv
<1>1. EventsInit => TypeInv
  BY InitType DEF EventsInit
<1>2. TypeInv /\ [EventsNext]_eventVars => TypeInv'
  BY TypeStep DEF EventsNext, Next, eventVars
<1> QED
  BY <1>1, <1>2, PTL DEF EventsSpec

LEMMA EventsStep ==
  ASSUME Patient, ALT_R \notin Keys, TypeInv, Follows(pending), [EventsNext]_eventVars
  PROVE  Follows(pending)' /\ [KR!Next]_(KR!vars)
<1>1. PICK p : p = pending
  OBVIOUS
<1>2. Follows(p)
  BY <1>1
<1>3. ASSUME NEW e \in Event, Hit(e), pending' = Append(pending, e)
      PROVE  Follows(pending)' /\ [KR!Next]_(KR!vars)
  <2>1. FollowsAs(Append(p, e), got', Stream', modifiers', (down \cap Modifiers)')
    BY <1>2, <1>3, HitFollows
  <2>2. e \in KR!Event /\ UNCHANGED <<modifiers, typed, shown>>
    BY <1>3 DEF Event, KR!Event, Hit
  <2>3. KR!Hit(e)
    BY <1>3, <2>2 DEF KR!Hit
  <2> QED
    BY <1>1, <1>3, <2>1, <2>2, <2>3 DEF Follows, KR!Next
<1>4. CASE Arrive /\ UNCHANGED pending
  <2>1. FollowsAs(p, got', Stream', modifiers', (down \cap Modifiers)')
    BY <1>2, <1>4, ArriveFollows
  <2>2. UNCHANGED KR!vars
    BY <1>4 DEF KR!vars, Arrive
  <2> QED
    BY <1>1, <1>4, <2>1, <2>2 DEF Follows
<1>5. CASE keyboard_read /\ pending' = IF got' = << >> THEN Tail(pending) ELSE pending
  <2>1. /\ p \in Seq(Event) /\ p # << >>
        /\ \/ /\ got' # << >> /\ UNCHANGED <<modifiers, typed, shown>>
              /\ FollowsAs(p, got', Stream', modifiers', (down \cap Modifiers)')
           \/ /\ Reported(Head(p))
              /\ FollowsAs(Tail(p), got', Stream', modifiers', (down \cap Modifiers)')
    BY <1>2, <1>5, ReadFollows
  <2>2. CASE got' # << >> /\ UNCHANGED <<modifiers, typed, shown>>
             /\ FollowsAs(p, got', Stream', modifiers', (down \cap Modifiers)')
    BY <1>1, <1>5, <2>2 DEF Follows, KR!vars
  <2>3. CASE Reported(Head(p)) /\ FollowsAs(Tail(p), got', Stream', modifiers', (down \cap Modifiers)')
    <3>1. got' = << >> /\ pending' = Tail(p)
      BY <1>1, <1>5, <2>3 DEF Reported
    <3>2. KR!Hold(Head(pending))
      BY <1>1, <2>3 DEF Reported, After, KR!Hold
    <3>3. IF Head(pending).make /\ Head(pending).key \notin {PRINTSCREEN, PAUSEBREAK}
          THEN KR!Tell(IF modifiers \cap {SHIFT_L, SHIFT_R} = {} THEN Meaning[Head(pending).key]
                       ELSE ShiftedMeaning[Head(pending).key])
          ELSE UNCHANGED <<typed, shown>>
      BY <1>1, <2>3 DEF Reported, Told, KR!Tell
    <3>4. KR!Report
      BY <1>1, <2>1, <3>1, <3>2, <3>3 DEF KR!Report
    <3> QED
      BY <2>3, <3>1, <3>4 DEF Follows, KR!Next
  <2> QED
    BY <2>1, <2>2, <2>3
<1>6. CASE UNCHANGED eventVars
  <2>1. got' = got /\ Stream' = Stream /\ modifiers' = modifiers /\ (down \cap Modifiers)' = down \cap Modifiers
        /\ pending' = pending /\ typed' = typed /\ shown' = shown
    BY <1>6 DEF eventVars, vars, Stream
  <2> QED
    BY <1>2, <1>1, <2>1 DEF Follows, KR!vars
<1> QED
  BY <1>3, <1>4, <1>5, <1>6 DEF EventsNext

(* The safety half of ReportsKeysInOrder: whatever keys are hit, and       *)
(* however their bytes and the calls of keyboard_read() fall, each key is  *)
(* reported once, in the order of the keys, as what it is and with the     *)
(* modifiers of its time, while no byte is dropped.                        *)
THEOREM ReportsInOrderAlways ==
  ASSUME Patient, ALT_R \notin Keys
  PROVE  EventsSpec => KR!Spec
<1>1. EventsInit => Follows(pending) /\ KR!Init
  BY FollowsStart DEF EventsInit, Init, KR!Init
<1>2. TypeInv /\ Follows(pending) /\ [EventsNext]_eventVars
        => Follows(pending)' /\ [KR!Next]_(KR!vars)
  BY EventsStep
<1> QED
  BY <1>1, <1>2, EventsType, PTL DEF EventsSpec, KR!Spec
=============================================================================
