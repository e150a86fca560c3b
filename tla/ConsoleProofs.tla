--------------------------- MODULE ConsoleProofs ---------------------------
(***************************************************************************)
(* For a screen of any size: the cursor comes back to the screen however   *)
(* characters of the thread and lines of handlers are interleaved, and the *)
(* screen shows the text unless a handler prints inside a call.            *)
(***************************************************************************)
EXTENDS ConsoleText, SequenceTheorems, TLAPS

(* The points at which a call has not yet brought cursor_x, or cursor_y,   *)
(* back: of the thread, which starts on the screen, and of a handler,      *)
(* which starts wherever the thread was interrupted.                       *)
BeforeWrap == {"idle", "cell", "column", "home", "row"}
Wrapping == {"wrap", "next_home"}
Scrolling == {"next_row", "scroll", "copy", "blank", "bottom"}
OffColumn(a) == IF a = "thread" THEN Wrapping ELSE BeforeWrap \cup Wrapping
OffRow(a) == OffColumn(a) \cup Scrolling

OnColumn == cursor_x < Width
OnRow    == cursor_y < Height

Bounds(a) ==
  Runs(a) => /\ call[a].pc \notin OffColumn(a) => OnColumn
             /\ call[a].pc \notin OffRow(a) => OnRow

(* A handler's call is in progress only while it prints.                   *)
HandlerIdle == ~printing => call["handler"].pc = "idle"

(* What a call has loaded and how far it has copied.                       *)
Bytes == 0 .. Byte - 1
Activation == [pc : Points, c : Characters \cup {NoValue},
               reg : Int \cup Glyphs \cup {NoValue}, i : 0 .. Height * Width]
LocalsOK(f) ==
  /\ f.pc \in {"column", "row", "next_row"} => f.reg \in Bytes \cup {NoValue}
  /\ f.pc = "cell" => f.c \in Glyphs
  /\ f.pc = "copy" => f.reg \in Glyphs \cup {NoValue} /\ f.i \in 0 .. LastRow - 1
  /\ f.pc = "blank" => f.i \in Cells
  /\ f.pc = "locate" => f.reg \in Int \cup {NoValue}
  /\ f.pc \in {"high", "relocate", "low"} => f.reg \in Int

Typed ==
  /\ TypeOK
  /\ call \in [Activations -> Activation]
  /\ \A a \in Activations : LocalsOK(call[a])

IInv == Typed /\ (\A a \in Activations : Bounds(a)) /\ HandlerIdle

-----------------------------------------------------------------------------
(* Arithmetic of the screen and of bytes.                                  *)

LEMMA ScreenSize ==
  /\ LastRow \in Nat /\ LastRow > 0
  /\ LastRow + Width = Height * Width /\ Height * Width \in Nat
<1>1. Height - 1 \in Nat /\ Height - 1 > 0 /\ Width \in Nat /\ Width > 0
  BY ConsoleAssumption
<1>2. \A m, n \in Nat : m > 0 /\ n > 0 => m * n \in Nat /\ m * n > 0
  OBVIOUS
<1>3. \A m, n \in Nat : (m - 1) * n + n = m * n
  OBVIOUS
<1> QED
  BY <1>1, <1>2, <1>3, ConsoleAssumption DEF LastRow

LEMMA ByteOf == \A n \in Int : n % Byte \in Bytes
  BY ConsoleAssumption DEF Bytes

LEMMA LoadedValues ==
  ASSUME TypeOK, NEW k
  PROVE  Location \in Int /\ NextColumn(k) \in Bytes /\ NextRow \in Bytes
<1>1. cursor_x \in Nat /\ cursor_y \in Nat
  BY ConsoleAssumption DEF TypeOK
<1>2. ((cursor_x + TabStop) \div TabStop) * TabStop \in Int
  BY <1>1, ConsoleAssumption
<1>3. Location \in Int
  BY <1>1, ConsoleAssumption DEF Location
<1>4. NextRow \in Bytes
  BY <1>1, ByteOf DEF NextRow
<1>5. NextColumn(k) \in Bytes
  BY <1>1, <1>2, ByteOf DEF NextColumn
<1> QED
  BY <1>3, <1>4, <1>5

-----------------------------------------------------------------------------
(* A step that replaces the locals of one call.                            *)
LEMMA CallUpdate ==
  ASSUME call \in [Activations -> Activation],
         \A b \in Activations : LocalsOK(call[b]),
         NEW a \in Activations, NEW f \in Activation, LocalsOK(f),
         call' = [call EXCEPT ![a] = f]
  PROVE  /\ call' \in [Activations -> Activation]
         /\ call'[a] = f
         /\ \A b \in Activations \ {a} : call'[b] = call[b]
         /\ \A b \in Activations : LocalsOK(call'[b])
<1>1. /\ call' \in [Activations -> Activation]
      /\ call'[a] = f
      /\ \A b \in Activations \ {a} : call'[b] = call[b]
  OBVIOUS
<1> QED
  BY <1>1

LEMMA RegUpdate ==
  ASSUME NEW f \in Activation, NEW v \in Int \cup Glyphs \cup {NoValue}
  PROVE  /\ [f EXCEPT !.reg = v] \in Activation
         /\ [f EXCEPT !.reg = v].pc = f.pc
         /\ [f EXCEPT !.reg = v].c = f.c
         /\ [f EXCEPT !.reg = v].reg = v
         /\ [f EXCEPT !.reg = v].i = f.i
  BY DEF Activation
LEMMA GoToUpdate ==
  ASSUME Typed, NEW a \in Activations,
         NEW p \in Points \ {"cell", "high", "relocate", "low"},
         NEW n \in 0 .. Height * Width,
         p = "copy" => n \in 0 .. LastRow - 1,
         p = "blank" => n \in Cells,
         GoTo(a, p, n)
  PROVE  /\ call' \in [Activations -> Activation]
         /\ call'[a].pc = p
         /\ \A b \in Activations \ {a} : call'[b] = call[b]
         /\ \A b \in Activations : LocalsOK(call'[b])
<1> DEFINE f == [call[a] EXCEPT !.pc = p, !.reg = NoValue, !.i = n]
<1>1. call[a] \in Activation
  BY DEF Typed
<1>2. f \in Activation /\ f.pc = p /\ f.reg = NoValue /\ f.i = n
  BY <1>1 DEF Activation
<1>3. LocalsOK(f)
  BY <1>2 DEF LocalsOK
<1>4. call' = [call EXCEPT ![a] = f]
  BY DEF GoTo, Typed
<1> HIDE DEF f
<1> QED
  BY <1>2, <1>3, <1>4, CallUpdate DEF Typed

LEMMA JumpUpdate ==
  ASSUME Typed, NEW a \in Activations, NEW p \in {"high", "relocate", "low"},
         call[a].reg \in Int, Jump(a, p)
  PROVE  /\ call' \in [Activations -> Activation]
         /\ call'[a].pc = p
         /\ \A b \in Activations \ {a} : call'[b] = call[b]
         /\ \A b \in Activations : LocalsOK(call'[b])
<1> DEFINE f == [call[a] EXCEPT !.pc = p]
<1>1. call[a] \in Activation
  BY DEF Typed
<1>2. f \in Activation /\ f.pc = p /\ f.reg = call[a].reg
  BY <1>1 DEF Activation, Points
<1>3. LocalsOK(f)
  BY <1>2 DEF LocalsOK
<1>4. call' = [call EXCEPT ![a] = f]
  BY DEF Jump, Typed
<1> HIDE DEF f
<1> QED
  BY <1>2, <1>3, <1>4, CallUpdate DEF Typed

-----------------------------------------------------------------------------
LEMMA IInvInit == Init => IInv
<1> SUFFICES ASSUME Init PROVE IInv
  OBVIOUS
<1> USE ConsoleAssumption DEF Init
<1>1. 0 \in Bytes /\ 0 \in 0 .. Height * Width
  BY ScreenSize DEF Bytes
<1>2. \A a \in Activations :
        call[a].pc = "idle" /\ call[a].c = NoValue /\ call[a].i = 0
  BY DEF Idle
<1>3. Idle \in Activation /\ LocalsOK(Idle)
  BY <1>1 DEF Idle, Activation, LocalsOK, Points
<1>4. Typed
  BY <1>1, <1>2, <1>3 DEF Typed, TypeOK, Bytes, Points
<1>5. OnColumn /\ OnRow
  BY DEF OnColumn, OnRow
<1> QED
  BY <1>2, <1>4, <1>5 DEF IInv, Bounds, HandlerIdle, Activations

(* What remains to show of a step of the activation that runs.             *)
LEMMA StepKeeps ==
  ASSUME IInv, NEW a \in Activations, Runs(a),
         UNCHANGED printing,
         call' \in [Activations -> Activation],
         \A b \in Activations \ {a} : call'[b] = call[b],
         \A b \in Activations : LocalsOK(call'[b]),
         video_memory' \in [Cells -> Glyphs],
         cursor_x' \in Bytes, cursor_y' \in Bytes,
         index' \in {HIGH, LOW}, location' \in [{HIGH, LOW} -> Bytes],
         call'[a].pc \notin OffColumn(a) => OnColumn',
         call'[a].pc \notin OffRow(a) => OnRow'
  PROVE  IInv'
<1>1. TypeOK'
  BY DEF IInv, Typed, TypeOK, Bytes, Activation
<1>2. Typed'
  BY <1>1 DEF Typed
<1>3. Bounds(a)'
  BY DEF Bounds
<1>4. \A b \in Activations \ {a} : Bounds(b)'
  BY DEF Bounds, Runs, Activations
<1>5. HandlerIdle'
  BY DEF IInv, HandlerIdle, Runs, Activations
<1> QED
  BY <1>2, <1>3, <1>4, <1>5 DEF IInv
LEMMA IInvNext == IInv /\ [Next]_vars => IInv'
<1> SUFFICES ASSUME IInv, [Next]_vars PROVE IInv'
  OBVIOUS
<1>c. /\ Width \in Nat /\ Width > 0 /\ Height \in Nat /\ Height - 1 \in Bytes
      /\ 0 \in Bytes /\ Height - 1 < Height /\ 0 \in 0 .. Height * Width
      /\ 0 \in 0 .. LastRow - 1 /\ LastRow \in Cells
  <2>1. /\ Width \in Nat /\ Width > 0 /\ Height \in Nat /\ Height > 1
        /\ Byte \in Nat /\ Byte > Height + 1
    BY ConsoleAssumption
  <2> QED
    BY <2>1, ScreenSize DEF Bytes, Cells
<1>t. /\ video_memory \in [Cells -> Glyphs]
      /\ cursor_x \in Bytes /\ cursor_y \in Bytes
      /\ index \in {HIGH, LOW} /\ location \in [{HIGH, LOW} -> Bytes]
      /\ call \in [Activations -> Activation]
      /\ \A a \in Activations : LocalsOK(call[a])
      /\ \A a \in Activations : Bounds(a)
  BY DEF IInv, Typed, TypeOK, Bytes
<1>i. Typed
  BY DEF IInv
<1>1. CASE Interrupt
  <2>1. Typed'
    BY <1>1, <1>i DEF Interrupt, shared, Typed, TypeOK
  <2>2. \A a \in Activations : Bounds(a)'
    BY <1>1 DEF Interrupt, shared, IInv, HandlerIdle, Bounds, Runs, Activations,
      OffColumn, OffRow, BeforeWrap
  <2> QED
    BY <1>1, <2>1, <2>2 DEF Interrupt, IInv, HandlerIdle
<1>2. ASSUME NEW a \in Activations, NEW k \in Characters, Putc(a, k)
      PROVE  IInv'
  <2> DEFINE f == [pc |-> First(k), c |-> k, reg |-> NoValue, i |-> 0]
  <2>1. f.pc = First(k) /\ f.c = k /\ f.reg = NoValue /\ f.i = 0
    OBVIOUS
  <2>2. First(k) \in {"cell", "home", "column", "wrap"} /\ (First(k) = "cell" => k \in Glyphs)
    BY DEF First
  <2>3. f \in Activation /\ LocalsOK(f)
    BY <2>1, <2>2, <1>c DEF Activation, LocalsOK, Points, Loads
  <2>4. call' = [call EXCEPT ![a] = f] /\ Runs(a) /\ call[a].pc = "idle"
        /\ UNCHANGED <<shared, printing>>
    BY <1>2 DEF Putc, At
  <2> HIDE DEF f
  <2>5. /\ call' \in [Activations -> Activation] /\ call'[a] = f
        /\ \A b \in Activations \ {a} : call'[b] = call[b]
        /\ \A b \in Activations : LocalsOK(call'[b])
    BY <2>3, <2>4, <1>t, CallUpdate
  <2>6. /\ f.pc \notin OffColumn(a) => OnColumn
        /\ f.pc \notin OffRow(a) => OnRow
    BY <2>1, <2>2, <2>4, <1>t DEF Bounds, OffColumn, OffRow, BeforeWrap, Wrapping, Scrolling
  <2> QED
    BY <2>4, <2>5, <2>6, <1>t, StepKeeps DEF shared, OnColumn, OnRow
(* The cursor off the screen or on it, before a step of a call.            *)
<1>b. ASSUME NEW a \in Activations, Runs(a)
      PROVE  /\ call[a].pc \notin OffColumn(a) => OnColumn
             /\ call[a].pc \notin OffRow(a) => OnRow
  BY <1>b, <1>t DEF Bounds
(* A step to another point that leaves the cursor alone.                   *)
<1>g. ASSUME NEW a \in Activations, NEW p \in Points, Runs(a), call[a].pc = p,
             NEW q \in Points \ {"cell", "high", "relocate", "low"},
             NEW n \in 0 .. Height * Width,
             q = "copy" => n \in 0 .. LastRow - 1, q = "blank" => n \in Cells,
             GoTo(a, q, n), UNCHANGED <<index, location, printing>>,
             video_memory' \in [Cells -> Glyphs],
             cursor_x' \in Bytes, cursor_y' \in Bytes,
             q \notin OffColumn(a) => OnColumn',
             q \notin OffRow(a) => OnRow'
      PROVE  IInv'
  <2>1. /\ call' \in [Activations -> Activation] /\ call'[a].pc = q
        /\ \A b \in Activations \ {a} : call'[b] = call[b]
        /\ \A b \in Activations : LocalsOK(call'[b])
    BY <1>g, <1>i, GoToUpdate
  <2> QED
    BY <1>g, <2>1, <1>t, StepKeeps
<1>3. ASSUME NEW a \in Activations, Load(a) PROVE IInv'
  <2> DEFINE v == Value(call[a])
             f == [call[a] EXCEPT !.reg = v]
  <2>1. call[a] \in Activation /\ LocalsOK(call[a]) /\ Runs(a)
        /\ UNCHANGED <<shared, printing>> /\ call[a].pc \in Loads
    BY <1>3, <1>t DEF Load
  <2>2. /\ call[a].pc \in {"column", "row", "next_row"} => v \in Bytes
        /\ call[a].pc = "copy" => v \in Glyphs
        /\ call[a].pc \in {"cell", "locate"} => v \in Int
    <3>1. TypeOK
      BY <1>i DEF Typed
    <3>2. CASE call[a].pc = "copy"
      <4>1. call[a].i \in 0 .. LastRow - 1
        BY <2>1, <3>2 DEF LocalsOK
      <4>2. call[a].i + Width \in Cells
        BY <4>1, ScreenSize, <1>c DEF Cells
      <4> QED
        BY <4>2, <3>2, <1>t DEF Value
    <3>3. CASE call[a].pc # "copy"
      BY <3>1, <3>3, LoadedValues DEF Value
    <3> QED
      BY <3>2, <3>3
  <2>3. v \in Int \cup Glyphs \cup {NoValue}
    BY <2>1, <2>2 DEF Loads, Bytes
  <2> HIDE DEF v
  <2>4. f \in Activation /\ f.pc = call[a].pc /\ f.c = call[a].c /\ f.i = call[a].i
        /\ f.reg = v
    BY <2>1, <2>3, RegUpdate
  <2>5. call' = [call EXCEPT ![a] = f]
    BY <1>3, <1>t DEF Load, v
  <2> HIDE DEF f
  <2>6. LocalsOK(f)
    BY <2>1, <2>2, <2>4 DEF LocalsOK, Loads
  <2>7. /\ call' \in [Activations -> Activation] /\ call'[a] = f
        /\ \A b \in Activations \ {a} : call'[b] = call[b]
        /\ \A b \in Activations : LocalsOK(call'[b])
    BY <2>4, <2>5, <2>6, <1>t, CallUpdate
  <2> QED
    BY <2>1, <2>4, <2>7, <1>b, <1>t, StepKeeps DEF shared, OnColumn, OnRow
<1>4. ASSUME NEW a \in Activations, StoreCell(a) PROVE IInv'
  <2>1. /\ Runs(a) /\ call[a].pc = "cell" /\ call[a].c \in Glyphs
        /\ GoTo(a, "column", 0)
        /\ UNCHANGED <<cursor_x, cursor_y, index, location, printing>>
    BY <1>4, <1>t DEF StoreCell, Loaded, At, Go, LocalsOK
  <2>2. video_memory' \in [Cells -> Glyphs]
    BY <1>4, <2>1, <1>t DEF StoreCell
  <2>3. /\ "column" \notin OffColumn(a) => OnColumn'
        /\ "column" \notin OffRow(a) => OnRow'
    BY <2>1, <1>b DEF OffColumn, OffRow, BeforeWrap, Wrapping, Scrolling, OnColumn, OnRow
  <2> QED
    BY <2>1, <2>2, <2>3, <1>g, <1>t, <1>c DEF Points, Loads
<1>5. ASSUME NEW a \in Activations, StoreColumn(a) PROVE IInv'
  <2>1. /\ Runs(a) /\ call[a].pc = "column" /\ cursor_x' \in Bytes
        /\ GoTo(a, "wrap", 0)
        /\ UNCHANGED <<video_memory, cursor_y, index, location, printing>>
    BY <1>5, <1>t DEF StoreColumn, Loaded, At, Go, LocalsOK
  <2>2. "wrap" \in OffColumn(a) /\ "wrap" \in OffRow(a)
    BY DEF OffColumn, OffRow, BeforeWrap, Wrapping
  <2> QED
    BY <2>1, <2>2, <1>g, <1>t, <1>c DEF Points, Loads
<1>6. ASSUME NEW a \in Activations,
             Home(a, "home", IF call[a].c = "newline" THEN "row" ELSE "wrap")
      PROVE  IInv'
  <2> DEFINE q == IF call[a].c = "newline" THEN "row" ELSE "wrap"
  <2>1. /\ Runs(a) /\ call[a].pc = "home" /\ cursor_x' = 0
        /\ GoTo(a, q, 0) /\ q \in {"row", "wrap"}
        /\ UNCHANGED <<video_memory, cursor_y, index, location, printing>>
    BY <1>6 DEF Home, At, Go
  <2> HIDE DEF q
  <2>2. /\ q \notin OffColumn(a) => OnColumn'
        /\ q \notin OffRow(a) => OnRow'
    BY <2>1, <1>b, <1>c DEF OffColumn, OffRow, BeforeWrap, Wrapping, Scrolling, OnColumn, OnRow
  <2> QED
    BY <2>1, <2>2, <1>g, <1>t, <1>c DEF Points, Loads
<1>7. ASSUME NEW a \in Activations, StoreRow(a, "row", "wrap") PROVE IInv'
  <2>1. /\ Runs(a) /\ call[a].pc = "row" /\ cursor_y' \in Bytes
        /\ GoTo(a, "wrap", 0)
        /\ UNCHANGED <<video_memory, cursor_x, index, location, printing>>
    BY <1>7, <1>t DEF StoreRow, Loaded, At, Go, LocalsOK
  <2>2. "wrap" \in OffColumn(a) /\ "wrap" \in OffRow(a)
    BY DEF OffColumn, OffRow, BeforeWrap, Wrapping
  <2> QED
    BY <2>1, <2>2, <1>g, <1>t, <1>c DEF Points, Loads
<1>8. ASSUME NEW a \in Activations, Wrap(a) PROVE IInv'
  <2> DEFINE q == IF cursor_x >= Width THEN "next_home" ELSE "scroll"
  <2>1. /\ Runs(a) /\ call[a].pc = "wrap" /\ GoTo(a, q, 0)
        /\ UNCHANGED <<shared, printing>>
    BY <1>8 DEF Wrap, At, Go
  <2>2. q \in {"next_home", "scroll"} /\ (q = "scroll" => OnColumn)
    BY <1>t, <1>c DEF OnColumn, Bytes
  <2> HIDE DEF q
  <2>3. /\ q \notin OffColumn(a) => OnColumn'
        /\ q \notin OffRow(a) => OnRow'
    BY <2>1, <2>2 DEF shared, OffColumn, OffRow, BeforeWrap, Wrapping, Scrolling, OnColumn
  <2> QED
    BY <2>1, <2>2, <2>3, <1>g, <1>t, <1>c DEF Points, Loads, shared
<1>9. ASSUME NEW a \in Activations, Home(a, "next_home", "next_row") PROVE IInv'
  <2>1. /\ Runs(a) /\ call[a].pc = "next_home" /\ cursor_x' = 0
        /\ GoTo(a, "next_row", 0)
        /\ UNCHANGED <<video_memory, cursor_y, index, location, printing>>
    BY <1>9 DEF Home, At, Go
  <2>2. OnColumn' /\ "next_row" \in OffRow(a)
    BY <2>1, <1>c DEF OnColumn, OffRow, Scrolling
  <2> QED
    BY <2>1, <2>2, <1>g, <1>t, <1>c DEF Points, Loads
<1>10. ASSUME NEW a \in Activations, StoreRow(a, "next_row", "scroll") PROVE IInv'
  <2>1. /\ Runs(a) /\ call[a].pc = "next_row" /\ cursor_y' \in Bytes
        /\ GoTo(a, "scroll", 0)
        /\ UNCHANGED <<video_memory, cursor_x, index, location, printing>>
    BY <1>10, <1>t DEF StoreRow, Loaded, At, Go, LocalsOK
  <2>2. OnColumn' /\ "scroll" \in OffRow(a)
    BY <2>1, <1>b DEF OnColumn, OffColumn, OffRow, BeforeWrap, Wrapping, Scrolling
  <2> QED
    BY <2>1, <2>2, <1>g, <1>t, <1>c DEF Points, Loads
<1>11. ASSUME NEW a \in Activations, Scroll(a) PROVE IInv'
  <2> DEFINE q == IF cursor_y >= Height THEN "copy" ELSE "locate"
  <2>1. /\ Runs(a) /\ call[a].pc = "scroll" /\ GoTo(a, q, 0)
        /\ UNCHANGED <<shared, printing>>
    BY <1>11 DEF Scroll, At, Go
  <2>2. q \in {"copy", "locate"} /\ (q = "locate" => OnRow)
    BY <1>t, <1>c DEF OnRow, Bytes
  <2> HIDE DEF q
  <2>3. /\ OnColumn'
        /\ q \notin OffRow(a) => OnRow'
    BY <2>1, <2>2, <1>b
    DEF shared, OffColumn, OffRow, BeforeWrap, Wrapping, Scrolling, OnColumn, OnRow
  <2> QED
    BY <2>1, <2>2, <2>3, <1>g, <1>t, <1>c DEF Points, Loads, shared
<1>12. ASSUME NEW a \in Activations, CopyCell(a) PROVE IInv'
  <2> DEFINE q == IF call[a].i + 1 < LastRow THEN "copy" ELSE "blank"
             n == call[a].i + 1
  <2>1. /\ Runs(a) /\ call[a].pc = "copy" /\ GoTo(a, q, n)
        /\ call[a].reg \in Glyphs /\ call[a].i \in 0 .. LastRow - 1
        /\ video_memory' = [video_memory EXCEPT ![call[a].i] = call[a].reg]
        /\ UNCHANGED <<cursor_x, cursor_y, index, location, printing>>
    BY <1>12, <1>t DEF CopyCell, Loaded, At, LocalsOK
  <2>2. video_memory' \in [Cells -> Glyphs]
    BY <2>1, <1>t
  <2>3. /\ q \in {"copy", "blank"} /\ n \in 0 .. Height * Width
        /\ q = "copy" => n \in 0 .. LastRow - 1
        /\ q = "blank" => n \in Cells
    BY <2>1, ScreenSize, <1>c DEF Cells
  <2> HIDE DEF q, n
  <2>4. OnColumn' /\ q \in OffRow(a)
    BY <2>1, <2>3, <1>b DEF OnColumn, OffColumn, OffRow, BeforeWrap, Wrapping, Scrolling
  <2> QED
    BY <2>1, <2>2, <2>3, <2>4, <1>g, <1>t DEF Points, Loads
<1>13. ASSUME NEW a \in Activations, BlankCell(a) PROVE IInv'
  <2> DEFINE n == call[a].i + 1
  <2>1. /\ Runs(a) /\ call[a].pc = "blank" /\ call[a].i \in Cells
        /\ video_memory' = [video_memory EXCEPT ![call[a].i] = Blank]
        /\ UNCHANGED <<cursor_x, cursor_y, index, location, printing>>
    BY <1>13, <1>t DEF BlankCell, At, LocalsOK
  <2>2. video_memory' \in [Cells -> Glyphs]
    BY <2>1, <1>t, ConsoleAssumption
  <2>3. OnColumn' /\ "blank" \in OffRow(a) /\ "bottom" \in OffRow(a)
    BY <2>1, <1>b DEF OnColumn, OffColumn, OffRow, BeforeWrap, Wrapping, Scrolling
  <2>4. CASE n \in Cells
    <3>1. GoTo(a, "blank", n) /\ n \in 0 .. Height * Width
      BY <1>13, <2>4, ScreenSize DEF BlankCell, Cells
    <3> HIDE DEF n
    <3> QED
      BY <2>1, <2>2, <2>3, <2>4, <3>1, <1>g, <1>t DEF Points, Loads
  <2>5. CASE n \notin Cells
    <3>1. GoTo(a, "bottom", 0)
      BY <1>13, <2>5 DEF BlankCell
    <3> QED
      BY <2>1, <2>2, <2>3, <3>1, <1>g, <1>t, <1>c DEF Points, Loads
  <2> QED
    BY <2>4, <2>5
<1>14. ASSUME NEW a \in Activations, Bottom(a) PROVE IInv'
  <2>1. /\ Runs(a) /\ call[a].pc = "bottom" /\ cursor_y' = Height - 1
        /\ GoTo(a, "locate", 0)
        /\ UNCHANGED <<video_memory, cursor_x, index, location, printing>>
    BY <1>14 DEF Bottom, At, Go
  <2>2. OnColumn' /\ OnRow'
    BY <2>1, <1>b, <1>c DEF OnColumn, OnRow, OffColumn, BeforeWrap, Wrapping, Scrolling
  <2> QED
    BY <2>1, <2>2, <1>g, <1>t, <1>c DEF Points, Loads
(* The steps of move_cursor() before the last: the cursor is on the screen. *)
<1>j. ASSUME NEW a \in Activations, Runs(a), call[a].pc \in {"locate", "high", "relocate"},
             NEW p \in {"high", "relocate", "low"}, Jump(a, p), call[a].reg \in Int,
             UNCHANGED <<video_memory, cursor_x, cursor_y, printing>>,
             index' \in {HIGH, LOW}, location' \in [{HIGH, LOW} -> Bytes]
      PROVE  IInv'
  <2>1. /\ call' \in [Activations -> Activation] /\ call'[a].pc = p
        /\ \A b \in Activations \ {a} : call'[b] = call[b]
        /\ \A b \in Activations : LocalsOK(call'[b])
    BY <1>j, <1>i, JumpUpdate
  <2>2. OnColumn' /\ OnRow'
    BY <1>j, <1>b DEF OnColumn, OnRow, OffColumn, OffRow, BeforeWrap, Wrapping, Scrolling
  <2> QED
    BY <1>j, <2>1, <2>2, <1>t, StepKeeps
<1>15. ASSUME NEW a \in Activations, SelectHigh(a) PROVE IInv'
  <2>1. Runs(a) /\ call[a].pc = "locate" /\ call[a].reg \in Int
    BY <1>15, <1>t DEF SelectHigh, Loaded, At, LocalsOK
  <2> QED
    BY <1>15, <2>1, <1>j, <1>t DEF SelectHigh
<1>16. ASSUME NEW a \in Activations, OutHigh(a) PROVE IInv'
  <2>1. Runs(a) /\ call[a].pc = "high" /\ call[a].reg \in Int
    BY <1>16, <1>t DEF OutHigh, At, LocalsOK
  <2>2. (call[a].reg \div Byte) % Byte \in Bytes
    BY <2>1, ByteOf, ConsoleAssumption
  <2>3. location' \in [{HIGH, LOW} -> Bytes]
    BY <1>16, <2>2, <1>t DEF OutHigh
  <2> QED
    BY <1>16, <2>1, <2>3, <1>j, <1>t DEF OutHigh
<1>17. ASSUME NEW a \in Activations, SelectLow(a) PROVE IInv'
  <2>1. Runs(a) /\ call[a].pc = "relocate" /\ call[a].reg \in Int
    BY <1>17, <1>t DEF SelectLow, At, LocalsOK
  <2> QED
    BY <1>17, <2>1, <1>j, <1>t DEF SelectLow
<1>18. ASSUME NEW a \in Activations, OutLow(a) PROVE IInv'
  <2>1. /\ Runs(a) /\ call[a].pc = "low" /\ call[a].reg \in Int
        /\ call' = [call EXCEPT ![a] = Idle]
        /\ printing' = (printing /\ call[a].c # "newline")
        /\ UNCHANGED <<video_memory, cursor_x, cursor_y, index>>
    BY <1>18, <1>t DEF OutLow, At, LocalsOK
  <2>2. location' \in [{HIGH, LOW} -> Bytes]
    BY <1>18, <2>1, ByteOf, <1>t DEF OutLow
  <2>3. Idle \in Activation /\ LocalsOK(Idle) /\ Idle.pc = "idle"
    BY <1>c DEF Idle, Activation, LocalsOK, Points
  <2>4. /\ call' \in [Activations -> Activation] /\ call'[a].pc = "idle"
        /\ \A b \in Activations \ {a} : call'[b] = call[b]
        /\ \A b \in Activations : LocalsOK(call'[b])
    BY <2>1, <2>3, <1>t, CallUpdate
  <2>5. OnColumn' /\ OnRow'
    BY <2>1, <1>b DEF OnColumn, OnRow, OffColumn, OffRow, BeforeWrap, Wrapping, Scrolling
  <2>6. printing' \in BOOLEAN
    BY <2>1, <1>i DEF Typed, TypeOK
  <2>7. Typed'
    BY <2>1, <2>2, <2>4, <2>6, <1>t DEF Typed, TypeOK, Bytes, Activation
  <2>8. HandlerIdle'
    BY <2>1, <2>4 DEF IInv, HandlerIdle, Runs, Activations
  <2> QED
    BY <2>5, <2>7, <2>8 DEF IInv, Bounds
<1>19. CASE UNCHANGED vars
  BY <1>19 DEF vars, shared, IInv, Typed, TypeOK, Bounds, Runs, HandlerIdle, OnColumn, OnRow
<1> QED
  BY <1>1, <1>2, <1>3, <1>4, <1>5, <1>6, <1>7, <1>8, <1>9, <1>10, <1>11,
     <1>12, <1>13, <1>14, <1>15, <1>16, <1>17, <1>18, <1>19
  DEF Next, PutcStep, ScrollStep, MoveStep

LEMMA IInvInvariant == Spec => []IInv
  BY IInvInit, IInvNext, PTL DEF Spec

(* Every variable of the console keeps its type, for a screen of any size. *)
THEOREM TypeCorrect == Spec => []TypeOK
<1>1. IInv => TypeOK
  BY DEF IInv, Typed
<1> QED
  BY <1>1, IInvInvariant, PTL

(* However characters of the thread and lines of handlers are mixed, the   *)
(* cursor is on the screen when nobody prints, for a screen of any size.   *)
THEOREM CursorReturnsToScreen == Spec => []CursorOnScreen
<1>1. IInv => CursorOnScreen
  <2> SUFFICES ASSUME IInv, Quiet PROVE OnColumn /\ OnRow
    BY DEF CursorOnScreen, OnColumn, OnRow
  <2>1. printing = FALSE /\ call["thread"].pc = "idle"
    BY DEF Quiet, IInv, Typed, TypeOK
  <2>2. Runs("thread") /\ Bounds("thread")
    BY <2>1 DEF Runs, IInv, Activations
  <2> QED
    BY <2>1, <2>2 DEF Bounds, OffColumn, OffRow, Wrapping, Scrolling
<1> QED
  BY <1>1, IInvInvariant, PTL

-----------------------------------------------------------------------------
(* Rows and columns: i is in row i \div w and column i % w.                *)

LEMMA Grows ==
  ASSUME NEW a \in Nat, NEW b \in Nat, NEW c \in Nat, a <= b
  PROVE  a * c <= b * c /\ c * a <= c * b
  OBVIOUS

LEMMA Divided ==
  ASSUME NEW w \in Nat, w > 0, NEW i \in Nat
  PROVE /\ i \div w \in Nat /\ i % w \in Nat /\ i % w < w
        /\ i = (i \div w) * w + (i % w)
<1>1. i % w \in 0 .. w - 1
  OBVIOUS
<1>2. i = (i \div w) * w + (i % w)
  OBVIOUS
<1>3. i \div w \in Nat
  OBVIOUS
<1> QED
  BY <1>1, <1>2, <1>3

LEMMA Place ==
  ASSUME NEW w \in Nat, w > 0, NEW q \in Nat, NEW m \in Nat, m < w
  PROVE  (q * w + m) \div w = q /\ (q * w + m) % w = m
<1> DEFINE i == q * w + m
           d == i \div w
           r == i % w
<1>1. i \in Nat /\ i = q * w + m
  OBVIOUS
<1>2. d \in Nat /\ r \in Nat /\ r < w /\ i = d * w + r
  BY <1>1, Divided
<1> HIDE DEF i, d, r
<1>3. d = q
  <2>1. CASE d < q
    <3>1. (d + 1) * w <= q * w
      BY <1>2, <2>1, Grows
    <3>2. (d + 1) * w = d * w + w
      BY <1>2
    <3> DEFINE u == d * w
               v == q * w
    <3>3. u \in Int /\ v \in Int /\ u + w <= v /\ u + r = v + m
      BY <1>1, <1>2, <3>1, <3>2
    <3> HIDE DEF u, v
    <3> QED
      BY <1>2, <3>3
  <2>2. CASE q < d
    <3>1. (q + 1) * w <= d * w
      BY <1>2, <2>2, Grows
    <3>2. (q + 1) * w = q * w + w
      BY <1>2
    <3> DEFINE u == d * w
               v == q * w
    <3>3. u \in Int /\ v \in Int /\ v + w <= u /\ u + r = v + m
      BY <1>1, <1>2, <3>1, <3>2
    <3> HIDE DEF u, v
    <3> QED
      BY <1>2, <3>3
  <2> QED
    BY <1>2, <2>1, <2>2
<1>4. r = m
  BY <1>1, <1>2, <1>3
<1> QED
  BY <1>3, <1>4 DEF i, d, r

LEMMA Below ==
  ASSUME NEW w \in Nat, w > 0, NEW i \in Nat
  PROVE  /\ (i + w) \div w = i \div w + 1 /\ (i + w) % w = i % w
         /\ \A h \in Nat : i < h * w <=> i \div w < h
<1> DEFINE d == i \div w
           r == i % w
<1>1. d \in Nat /\ r \in Nat /\ r < w /\ i = d * w + r
  BY Divided
<1> HIDE DEF d, r
<1>2. (d + 1) * w + r = i + w /\ d + 1 \in Nat
  BY <1>1
<1> DEFINE k == i + w
<1>3. k = (d + 1) * w + r
  BY <1>2
<1> HIDE DEF k
<1>4. k \div w = d + 1 /\ k % w = r
  BY <1>1, <1>2, <1>3, Place
<1>5. ASSUME NEW h \in Nat PROVE i < h * w <=> d < h
  <2>1. CASE d < h
    <3>1. (d + 1) * w <= h * w
      BY <1>1, <2>1, Grows
    <3> DEFINE u == d * w
               v == h * w
    <3>2. u \in Int /\ v \in Int /\ u + w <= v /\ i = u + r
      BY <1>1, <1>2, <3>1
    <3> HIDE DEF u, v
    <3>3. i < v
      BY <1>1, <3>2
    <3> QED
      BY <2>1, <3>3 DEF v
  <2>2. CASE h <= d
    <3>1. h * w <= d * w
      BY <1>1, <2>2, Grows
    <3> DEFINE u == d * w
               v == h * w
    <3>2. u \in Int /\ v \in Int /\ v <= u /\ i = u + r
      BY <1>1, <3>1
    <3> HIDE DEF u, v
    <3>3. ~(i < v)
      BY <1>1, <3>2
    <3> QED
      BY <1>1, <2>2, <3>3 DEF v
  <2> QED
    BY <1>1, <2>1, <2>2
<1> QED
  BY <1>4, <1>5 DEF d, r, k

LEMMA TabPlace ==
  ASSUME NEW x \in Nat, NEW t \in Nat, t > 0
  PROVE  ((x + t) \div t) * t = x + t - (x % t) /\ x % t \in 0 .. t - 1
<1> DEFINE d == x \div t
           r == x % t
<1>1. d \in Nat /\ r \in Nat /\ r < t /\ x = d * t + r
  BY Divided
<1>2. (x + t) \div t = d + 1
  BY Below
<1> HIDE DEF d, r
<1>3. (d + 1) * t = d * t + t
  BY <1>1
<1> QED
  BY <1>1, <1>2, <1>3 DEF r

LEMMA Sizes ==
  /\ Width \in Nat /\ Width > 0 /\ Height \in Nat /\ Height > 1 /\ Height - 1 \in Nat
  /\ TabStop \in Nat /\ TabStop > 0 /\ Byte \in Nat /\ Byte > Width + TabStop /\ Byte > Height + 1
  /\ LastRow \in Nat /\ LastRow = (Height - 1) * Width /\ LastRow + Width = Height * Width
  /\ Height * Width \in Nat
  BY ConsoleAssumption, ScreenSize DEF LastRow

LEMMA CellPlace ==
  ASSUME NEW i \in Cells
  PROVE  /\ i \in Nat /\ i \div Width \in Nat /\ i \div Width < Height /\ i % Width \in T!Columns
         /\ i < LastRow <=> i \div Width < Height - 1
         /\ i < LastRow => /\ i + Width \in Cells
                           /\ (i + Width) \div Width = i \div Width + 1
                           /\ (i + Width) % Width = i % Width
<1>1. i \in Nat /\ i < Height * Width
  BY Sizes DEF Cells
<1>2. /\ i \div Width \in Nat /\ i % Width \in Nat /\ i % Width < Width
      /\ i \div Width < Height
      /\ i < (Height - 1) * Width <=> i \div Width < Height - 1
      /\ (i + Width) \div Width = i \div Width + 1 /\ (i + Width) % Width = i % Width
  BY <1>1, Sizes, Divided, Below
<1> DEFINE d == i \div Width
           r == i % Width
<1>3. r \in T!Columns
  BY <1>2, Sizes DEF T!Columns
<1>4. i < LastRow => i + Width \in Cells
  BY <1>1, Sizes DEF Cells
<1> QED
  BY <1>1, <1>2, <1>3, <1>4, Sizes

(* The cell in row y and column x, and no other, is there.                 *)
LEMMA OnePlace ==
  ASSUME NEW x \in T!Columns, NEW y \in Nat, y < Height
  PROVE  /\ y * Width + x \in Cells
         /\ \A i \in Cells : i = y * Width + x <=> i \div Width = y /\ i % Width = x
<1> DEFINE p == y * Width + x
           h == Height * Width
           b == y * Width
<1>1. x \in Nat /\ x < Width /\ p \in Nat /\ b \in Nat
  BY Sizes DEF T!Columns
<1>2. p \div Width = y /\ p % Width = x
  BY <1>1, Sizes, Place
<1>3. (y + 1) * Width <= Height * Width /\ (y + 1) * Width = b + Width
  BY Sizes, Grows
<1>4. h \in Nat /\ b + Width <= h /\ p = b + x
  BY <1>3, Sizes
<1>5. Cells = 0 .. h - 1
  BY DEF Cells
<1> HIDE DEF b, h
<1>6. p \in Cells
  BY <1>1, <1>4, <1>5, Sizes
<1> HIDE DEF p
<1>7. ASSUME NEW i \in Cells, i \div Width = y, i % Width = x PROVE i = p
  <2>1. i \in Nat
    BY CellPlace
  <2>2. i = (i \div Width) * Width + (i % Width)
    BY <2>1, Sizes, Divided
  <2> QED
    BY <1>7, <2>2 DEF p
<1> QED
  BY <1>2, <1>6, <1>7 DEF p

-----------------------------------------------------------------------------
(* Texts and what the screen shows of them.                                *)

Line  == [T!Columns -> Glyphs]
Texts == {t \in Seq(Line) : Len(t) > 0 /\ Len(t) <= Height}

ScreenOf(text) == [i \in Cells |-> LET n == 1 + i \div Width IN
                     IF n \in DOMAIN text THEN text[n][i % Width] ELSE Blank]

(* The picture v with k in place n; with its rows copied up from cell i    *)
(* on and the last one blanked; blanked from cell i on.                    *)
Put(v, n, k) == [j \in Cells |-> IF j = n THEN k ELSE v[j]]
Copied(v, i) == [j \in Cells |-> IF j < i THEN v[j]
                                 ELSE IF j < LastRow THEN v[j + Width] ELSE Blank]
Blanked(v, i) == [j \in Cells |-> IF j < i THEN v[j] ELSE Blank]

LEMMA ScreenIs == T!Screen = ScreenOf(lines)
  BY DEF T!Screen, ScreenOf, Cells

LEMMA CopyOne ==
  ASSUME NEW v \in [Cells -> Glyphs], NEW i \in 0 .. LastRow - 1,
         NEW w, w = [v EXCEPT ![i] = v[i + Width]]
  PROVE  /\ Copied(w, i + 1) = Copied(v, i)
         /\ ~(i + 1 < LastRow) => Blanked(w, i + 1) = Copied(v, i)
<1>1. \A j \in Cells : w[j] = IF j = i THEN v[i + Width] ELSE v[j]
  OBVIOUS
<1>2. i \in Nat /\ i < LastRow /\ \A j \in Cells : j \in Nat
  BY Sizes, CellPlace
<1>3. \A j \in Cells : j < LastRow => j + Width \in Cells
  BY CellPlace
<1>4. ASSUME NEW j \in Cells
      PROVE  /\ Copied(w, i + 1)[j] = Copied(v, i)[j]
             /\ ~(i + 1 < LastRow) => Blanked(w, i + 1)[j] = Copied(v, i)[j]
  <2>1. CASE j < i
    BY <1>1, <1>2, <2>1 DEF Copied, Blanked
  <2>2. CASE j = i
    BY <1>1, <1>2, <2>2 DEF Copied, Blanked
  <2>3. CASE i < j /\ j < LastRow
    <3>1. j + Width \in Cells /\ j + Width # i /\ ~(j < i + 1) /\ ~(j < i) /\ i + 1 < LastRow
      BY <1>2, <1>3, <2>3, Sizes
    <3> QED
      BY <1>1, <2>3, <3>1 DEF Copied, Blanked
  <2>4. CASE ~(j < LastRow)
    <3>1. ~(j < i + 1) /\ ~(j < i)
      BY <1>2, <2>4, Sizes
    <3> QED
      BY <2>4, <3>1 DEF Copied, Blanked
  <2> QED
    BY <1>2, <2>1, <2>2, <2>3, <2>4
<1>5. Copied(w, i + 1) = Copied(v, i)
  BY <1>4 DEF Copied
<1>6. ~(i + 1 < LastRow) => Blanked(w, i + 1) = Copied(v, i)
  BY <1>4 DEF Copied, Blanked
<1> QED
  BY <1>5, <1>6

LEMMA BlankOne ==
  ASSUME NEW v \in [Cells -> Glyphs], NEW i \in Cells,
         NEW w, w = [v EXCEPT ![i] = Blank]
  PROVE  /\ Blanked(w, i + 1) = Blanked(v, i)
         /\ i + 1 \notin Cells => w = Blanked(v, i)
<1>1. w \in [Cells -> Glyphs] /\ \A j \in Cells : w[j] = IF j = i THEN Blank ELSE v[j]
  BY ConsoleAssumption
<1>2. i \in Nat /\ \A j \in Cells : j \in Nat
  BY CellPlace
<1>3. \A j \in Cells : Blanked(w, i + 1)[j] = Blanked(v, i)[j]
  BY <1>1, <1>2 DEF Blanked
<1>4. Blanked(w, i + 1) = Blanked(v, i)
  BY <1>3 DEF Blanked
<1>5. ASSUME i + 1 \notin Cells PROVE w = Blanked(v, i)
  <2>1. \A j \in Cells : ~(i < j)
    BY <1>2, <1>5, Sizes DEF Cells
  <2>2. \A j \in Cells : w[j] = Blanked(v, i)[j]
    BY <1>1, <1>2, <2>1 DEF Blanked
  <2> QED
    BY <1>1, <2>2 DEF Blanked
<1> QED
  BY <1>4, <1>5

LEMMA TextParts ==
  ASSUME NEW t \in Texts
  PROVE  /\ t \in Seq(Line) /\ Len(t) \in Nat /\ Len(t) > 0 /\ Len(t) <= Height
         /\ DOMAIN t = 1 .. Len(t) /\ \A n \in 1 .. Len(t) : t[n] \in Line
         /\ ScreenOf(t) \in [Cells -> Glyphs]
         /\ \A i \in Cells : ScreenOf(t)[i] = IF 1 + i \div Width <= Len(t)
                                              THEN t[1 + i \div Width][i % Width] ELSE Blank
<1>1. t \in Seq(Line) /\ Len(t) \in Nat /\ Len(t) > 0 /\ Len(t) <= Height
      /\ DOMAIN t = 1 .. Len(t)
  BY LenProperties DEF Texts
<1>2. \A n \in 1 .. Len(t) : t[n] \in Line
  BY <1>1, ElementOfSeq
<1>3. ASSUME NEW i \in Cells
      PROVE  /\ ScreenOf(t)[i] = IF 1 + i \div Width <= Len(t)
                                 THEN t[1 + i \div Width][i % Width] ELSE Blank
             /\ ScreenOf(t)[i] \in Glyphs
  <2> DEFINE d == i \div Width
             r == i % Width
  <2>1. d \in Nat /\ r \in T!Columns
    BY CellPlace
  <2>2. ScreenOf(t)[i] = IF 1 + d \in DOMAIN t THEN t[1 + d][r] ELSE Blank
    BY DEF ScreenOf
  <2> HIDE DEF d, r
  <2>3. 1 + d \in DOMAIN t <=> 1 + d <= Len(t)
    BY <1>1, <2>1
  <2>4. 1 + d <= Len(t) => t[1 + d][r] \in Glyphs
    BY <1>1, <1>2, <2>1, <2>3 DEF Line
  <2> QED
    BY <2>2, <2>3, <2>4, ConsoleAssumption DEF d, r
<1>4. ScreenOf(t) \in [Cells -> Glyphs]
  BY <1>3 DEF ScreenOf
<1> QED
  BY <1>1, <1>2, <1>3, <1>4

LEMMA TextPut ==
  ASSUME NEW t \in Texts, NEW x \in T!Columns, NEW k \in Glyphs,
         NEW u, u = [t EXCEPT ![Len(t)][x] = k]
  PROVE  /\ u \in Texts /\ Len(u) = Len(t)
         /\ ScreenOf(u) = Put(ScreenOf(t), (Len(t) - 1) * Width + x, k)
<1> DEFINE n == Len(t)
           p == (n - 1) * Width + x
<1>1. /\ t \in Seq(Line) /\ n \in Nat /\ n > 0 /\ n <= Height /\ n - 1 \in Nat /\ n - 1 < Height
      /\ DOMAIN t = 1 .. n /\ \A m \in 1 .. n : t[m] \in Line /\ n \in 1 .. n
  BY TextParts, Sizes
<1>2. t \in [1 .. n -> Line]
  BY <1>1, LenProperties
<1> DEFINE l == [t[n] EXCEPT ![x] = k]
<1>3. u = [t EXCEPT ![n] = l]
  OBVIOUS
<1>a. l = [t[n] EXCEPT ![x] = k]
  OBVIOUS
<1> HIDE DEF n, l
<1>4. l \in Line
  BY <1>1, <1>a DEF Line
<1>5. /\ u \in [1 .. n -> Line]
      /\ \A m \in 1 .. n : m # n => u[m] = t[m]
      /\ u[n] = l
  BY <1>1, <1>2, <1>3, <1>4
<1>6. u \in Seq(Line) /\ Len(u) = n
  BY <1>1, <1>5, LenProperties, SeqDef
<1>7. u \in Texts
  BY <1>1, <1>6 DEF Texts
<1>8. \A i \in Cells : i = p <=> i \div Width = n - 1 /\ i % Width = x
  BY <1>1, OnePlace
<1> HIDE DEF p
<1>9. ASSUME NEW i \in Cells PROVE ScreenOf(u)[i] = IF i = p THEN k ELSE ScreenOf(t)[i]
  <2> DEFINE d == i \div Width
             r == i % Width
  <2>1. d \in Nat /\ r \in T!Columns /\ (i = p <=> d = n - 1 /\ r = x)
    BY <1>8, CellPlace
  <2>2. /\ ScreenOf(t)[i] = IF 1 + d <= n THEN t[1 + d][r] ELSE Blank
        /\ ScreenOf(u)[i] = IF 1 + d <= n THEN u[1 + d][r] ELSE Blank
    BY <1>6, <1>7, TextParts DEF n
  <2> HIDE DEF d, r
  <2>3. CASE 1 + d = n
    <3>1. u[1 + d][r] = IF r = x THEN k ELSE t[1 + d][r]
      BY <1>1, <1>5, <1>a, <2>1, <2>3 DEF Line
    <3>2. d = n - 1 /\ 1 + d <= n
      BY <1>1, <2>1, <2>3
    <3> QED
      BY <2>1, <2>2, <3>1, <3>2
  <2>4. CASE 1 + d # n
    <3>1. d # n - 1 /\ (1 + d <= n => 1 + d \in 1 .. n)
      BY <1>1, <2>1, <2>4
    <3> QED
      BY <1>5, <2>1, <2>2, <2>4, <3>1
  <2> QED
    BY <2>3, <2>4
<1>10. ScreenOf(u) = Put(ScreenOf(t), p, k)
  <2>1. ScreenOf(u) \in [Cells -> Glyphs]
    BY <1>7, TextParts
  <2> QED
    BY <1>9, <2>1 DEF Put
<1> QED
  BY <1>6, <1>7, <1>10 DEF n, p

LEMMA EmptyIsLine == T!EmptyLine \in Line /\ \A r \in T!Columns : T!EmptyLine[r] = Blank
  BY ConsoleAssumption DEF T!EmptyLine, Line

(* A line more: there is room below, or the first one leaves the screen.   *)
LEMMA TextMore ==
  ASSUME NEW t \in Texts, NEW u, u = T!Shown(Append(t, T!EmptyLine))
  PROVE  /\ u \in Texts
         /\ Len(t) < Height => Len(u) = Len(t) + 1 /\ ScreenOf(u) = ScreenOf(t)
         /\ ~(Len(t) < Height) => Len(u) = Height /\ ScreenOf(u) = Copied(ScreenOf(t), 0)
<1> DEFINE n == Len(t)
           e == T!EmptyLine
           s == Append(t, e)
<1>1. /\ t \in Seq(Line) /\ n \in Nat /\ n > 0 /\ n <= Height
      /\ \A m \in 1 .. n : t[m] \in Line
  BY TextParts
<1>2. e \in Line /\ \A r \in T!Columns : e[r] = Blank
  BY EmptyIsLine
<1> HIDE DEF e
<1>3. /\ s \in Seq(Line) /\ Len(s) = n + 1 /\ s[n + 1] = e
      /\ \A m \in 1 .. n : s[m] = t[m]
  BY <1>1, <1>2, AppendProperties
<1>4. u = IF n + 1 > Height THEN Tail(s) ELSE s
  BY <1>3 DEF T!Shown, e
<1> HIDE DEF n, s
<1>5. CASE n < Height
  <2>1. u = s
    BY <1>1, <1>4, <1>5, Sizes
  <2>2. Len(u) = n + 1 /\ u \in Texts
    BY <1>1, <1>3, <1>5, <2>1, Sizes DEF Texts
  <2>3. ASSUME NEW i \in Cells PROVE ScreenOf(u)[i] = ScreenOf(t)[i]
    <3> DEFINE d == i \div Width
               r == i % Width
    <3>1. d \in Nat /\ r \in T!Columns
      BY CellPlace
    <3>2. /\ ScreenOf(t)[i] = IF 1 + d <= n THEN t[1 + d][r] ELSE Blank
          /\ ScreenOf(u)[i] = IF 1 + d <= n + 1 THEN u[1 + d][r] ELSE Blank
      BY <2>2, TextParts DEF n
    <3> HIDE DEF d, r
    <3>3. CASE 1 + d <= n
      <4>1. 1 + d \in 1 .. n /\ 1 + d <= n + 1
        BY <1>1, <3>1, <3>3
      <4> QED
        BY <1>3, <2>1, <3>2, <3>3, <4>1
    <3>4. CASE 1 + d = n + 1
      <4>1. ~(1 + d <= n)
        BY <1>1, <3>1, <3>4
      <4>2. u[1 + d][r] = Blank
        BY <1>2, <1>3, <2>1, <3>1, <3>4
      <4> QED
        BY <3>2, <4>1, <4>2
    <3>5. CASE ~(1 + d <= n) /\ 1 + d # n + 1
      <4>1. ~(1 + d <= n + 1)
        BY <1>1, <3>1, <3>5
      <4> QED
        BY <3>2, <3>5, <4>1
    <3> QED
      BY <3>3, <3>4, <3>5
  <2>4. ScreenOf(u) = ScreenOf(t)
    BY <2>3 DEF ScreenOf
  <2> QED
    BY <1>5, <2>2, <2>4 DEF n
<1>6. CASE ~(n < Height)
  <2>1. u = Tail(s) /\ n = Height
    BY <1>1, <1>4, <1>6, Sizes
  <2>2. u \in Seq(Line) /\ Len(u) = n /\ \A m \in 1 .. n : u[m] = s[m + 1]
    <3>1. s # << >>
      BY <1>1, <1>3, EmptySeq
    <3>2. /\ Tail(s) \in Seq(Line) /\ Len(Tail(s)) = Len(s) - 1
          /\ \A m \in 1 .. Len(Tail(s)) : Tail(s)[m] = s[m + 1]
      BY <1>3, <3>1, HeadTailProperties
    <3>3. Len(s) - 1 = n
      BY <1>1, <1>3
    <3> QED
      BY <2>1, <3>2, <3>3
  <2>3. u \in Texts
    BY <1>1, <2>1, <2>2 DEF Texts
  <2>4. ASSUME NEW i \in Cells PROVE ScreenOf(u)[i] = Copied(ScreenOf(t), 0)[i]
    <3> DEFINE d == i \div Width
               r == i % Width
               j == i + Width
    <3>1. /\ d \in Nat /\ r \in T!Columns /\ d < n /\ i \in Nat
          /\ i < LastRow <=> d < n - 1
          /\ i < LastRow => j \in Cells /\ j \div Width = d + 1 /\ j % Width = r
      BY <2>1, CellPlace
    <3>2. ScreenOf(u)[i] = IF 1 + d <= n THEN u[1 + d][r] ELSE Blank
      BY <2>2, <2>3, TextParts
    <3>3. Copied(ScreenOf(t), 0)[i] = IF i < LastRow THEN ScreenOf(t)[j] ELSE Blank
      BY <3>1 DEF Copied
    <3>4. \A m \in Cells : ScreenOf(t)[m] = IF 1 + m \div Width <= n
                                           THEN t[1 + m \div Width][m % Width] ELSE Blank
      BY TextParts DEF n
    <3> HIDE DEF d, r, j
    <3>5. u[1 + d] = s[d + 2] /\ 1 + d <= n
      <4>1. 1 + d \in 1 .. n /\ (1 + d) + 1 = d + 2 /\ 1 + d <= n
        BY <1>1, <3>1
      <4> QED
        BY <2>2, <4>1
    <3>6. CASE i < LastRow
      <4>1. d + 2 \in 1 .. n /\ 1 + (d + 1) = d + 2 /\ d + 2 <= n
        BY <1>1, <3>1, <3>6
      <4>2. ScreenOf(t)[j] = t[d + 2][r]
        BY <3>1, <3>4, <3>6, <4>1
      <4>3. s[d + 2] = t[d + 2]
        BY <1>3, <4>1
      <4> QED
        BY <3>2, <3>3, <3>5, <3>6, <4>2, <4>3
    <3>7. CASE ~(i < LastRow)
      <4>1. d + 2 = n + 1
        BY <1>1, <3>1, <3>7
      <4>2. s[d + 2][r] = Blank
        BY <1>2, <1>3, <3>1, <4>1
      <4> QED
        BY <3>2, <3>3, <3>5, <3>7, <4>2
    <3> QED
      BY <3>6, <3>7
  <2>5. ScreenOf(u) = Copied(ScreenOf(t), 0)
    BY <2>4 DEF ScreenOf, Copied
  <2> QED
    BY <1>6, <2>1, <2>2, <2>3, <2>5 DEF n
<1> QED
  BY <1>5, <1>6

-----------------------------------------------------------------------------
(* What is still to do of a call, at each of its points: the picture and   *)
(* the cursor are the text's (Ends); once the screen has been scrolled;    *)
(* once a column past the edge has gone to the next line.                  *)

Ends(v, x, y) == v = ScreenOf(lines) /\ x = column /\ y + 1 = Len(lines)
ScrolledEnds(v, x, y) ==
  IF y >= Height THEN Ends(Copied(v, 0), x, Height - 1) ELSE Ends(v, x, y)
WrappedEnds(v, x, y) ==
  IF x >= Width THEN ScrolledEnds(v, 0, (y + 1) % Byte) ELSE ScrolledEnds(v, x, y)

Moving == {"locate", "high", "relocate", "low", "idle"}

(* What the call f has still to write to video memory and the cursor.      *)
Written(f) ==
  /\ f.pc = "cell" => WrappedEnds(Put(video_memory, Location, f.c), (cursor_x + 1) % Byte, cursor_y)
  /\ f.pc = "column" => WrappedEnds(video_memory, NextColumn(f.c), cursor_y)
  /\ f.pc = "home" => WrappedEnds(video_memory, 0, IF f.c = "newline" THEN NextRow ELSE cursor_y)
  /\ f.pc = "row" => WrappedEnds(video_memory, cursor_x, NextRow)
  /\ f.pc = "wrap" => WrappedEnds(video_memory, cursor_x, cursor_y)
  /\ f.pc = "next_home" => ScrolledEnds(video_memory, 0, NextRow)
  /\ f.pc = "next_row" => ScrolledEnds(video_memory, cursor_x, NextRow)
  /\ f.pc = "scroll" => ScrolledEnds(video_memory, cursor_x, cursor_y)
  /\ f.pc = "copy" => Ends(Copied(video_memory, f.i), cursor_x, Height - 1)
  /\ f.pc = "blank" => Ends(Blanked(video_memory, f.i), cursor_x, Height - 1)
  /\ f.pc = "bottom" => Ends(video_memory, cursor_x, Height - 1)
  /\ f.pc \in Moving => Ends(video_memory, cursor_x, cursor_y)

(* What it has told the CRTC.                                              *)
Located(f) ==
  /\ f.pc \in {"high", "relocate", "low"} => f.reg = Location
  /\ f.pc = "high" => index = HIGH
  /\ f.pc \in {"relocate", "low"} => location[HIGH] = (Location \div Byte) % Byte
  /\ f.pc = "low" => index = LOW
  /\ f.pc = "idle" => CursorShown = Location

(* When f has done what is left of it, the screen shows the text: true of  *)
(* the call in progress, as no other is when the text is followed.         *)
Shows(f) ==
  /\ f.pc \in Loads => f.reg \in {NoValue, Value(f)}
  /\ Written(f) /\ Located(f)

Follows ==
  ~mixed => /\ lines \in Texts /\ column \in T!Columns
            /\ printing => call["thread"].pc = "idle"
            /\ \A a \in Activations : Runs(a) => Shows(call[a])

TextInv == IInv /\ Follows

(* Where a step leaves the locals of its call.                             *)
LEMMA GoToParts ==
  ASSUME Typed, NEW a \in Activations, NEW p \in Points, NEW n \in 0 .. Height * Width,
         GoTo(a, p, n)
  PROVE  /\ call'[a].pc = p /\ call'[a].c = call[a].c
         /\ call'[a].reg = NoValue /\ call'[a].i = n
<1> DEFINE f == [call[a] EXCEPT !.pc = p, !.reg = NoValue, !.i = n]
<1>1. call[a] \in Activation /\ call \in [Activations -> Activation]
  BY DEF Typed
<1>2. f.pc = p /\ f.c = call[a].c /\ f.reg = NoValue /\ f.i = n
  BY <1>1 DEF Activation
<1>3. call' = [call EXCEPT ![a] = f]
  BY DEF GoTo
<1> HIDE DEF f
<1> QED
  BY <1>1, <1>2, <1>3

LEMMA JumpParts ==
  ASSUME Typed, NEW a \in Activations, NEW p \in Points, Jump(a, p)
  PROVE  /\ call'[a].pc = p /\ call'[a].c = call[a].c
         /\ call'[a].reg = call[a].reg /\ call'[a].i = call[a].i
<1> DEFINE f == [call[a] EXCEPT !.pc = p]
<1>1. call[a] \in Activation /\ call \in [Activations -> Activation]
  BY DEF Typed
<1>2. f.pc = p /\ f.c = call[a].c /\ f.reg = call[a].reg /\ f.i = call[a].i
  BY <1>1 DEF Activation
<1>3. call' = [call EXCEPT ![a] = f]
  BY DEF Jump
<1> HIDE DEF f
<1> QED
  BY <1>1, <1>2, <1>3

(* A step to another point that is not in move_cursor().                   *)
LEMMA GoShows ==
  ASSUME Typed, NEW a \in Activations,
         NEW p \in Points \ {"idle", "high", "relocate", "low"},
         NEW n \in 0 .. Height * Width, GoTo(a, p, n), Written(call[a])'
  PROVE  Shows(call[a])'
<1>1. call'[a].pc = p /\ call'[a].reg = NoValue
  BY GoToParts
<1> QED
  BY <1>1 DEF Shows, Located

(* Every step of a call brings what it shows on.                           *)
LEMMA PutShows ==
  ASSUME IInv, NEW a \in Activations, Runs(a), Shows(call[a]), UNCHANGED <<lines, column>>,
         \/ StoreCell(a) \/ StoreColumn(a)
         \/ Home(a, "home", IF call[a].c = "newline" THEN "row" ELSE "wrap")
         \/ StoreRow(a, "row", "wrap")
         \/ Wrap(a) \/ Home(a, "next_home", "next_row") \/ StoreRow(a, "next_row", "scroll")
  PROVE  Shows(call[a])'
<1>t. /\ Typed /\ LocalsOK(call[a]) /\ Written(call[a])
      /\ call[a].pc \in Loads => call[a].reg \in {NoValue, Value(call[a])}
      /\ cursor_x \in Bytes /\ cursor_y \in Bytes
  BY DEF IInv, Typed, TypeOK, Shows, Bytes
<1>z. 0 \in 0 .. Height * Width /\ "backspace" \notin Glyphs /\ "tab" \notin Glyphs
  BY ConsoleAssumption, Sizes DEF Controls
<1>1. ASSUME StoreCell(a) PROVE Shows(call[a])'
  <2>1. /\ call[a].pc = "cell" /\ GoTo(a, "column", 0) /\ call[a].c \in Glyphs
        /\ video_memory' = Put(video_memory, Location, call[a].c)
        /\ UNCHANGED <<cursor_x, cursor_y>>
    BY <1>1, <1>t DEF StoreCell, Loaded, At, Go, Value, Loads, LocalsOK, Put
  <2>2. call'[a].pc = "column" /\ call'[a].c = call[a].c
    BY <2>1, <1>t, <1>z, GoToParts DEF Points, Loads
  <2>3. WrappedEnds(Put(video_memory, Location, call[a].c), (cursor_x + 1) % Byte, cursor_y)
    BY <2>1, <1>t DEF Written
  <2>4. NextColumn(call[a].c)' = (cursor_x + 1) % Byte
    BY <2>1, <2>2, <1>z DEF NextColumn
  <2>5. WrappedEnds(video_memory, NextColumn(call[a].c), cursor_y)'
    BY <2>1, <2>3, <2>4 DEF WrappedEnds, ScrolledEnds, Ends
  <2>6. Written(call[a])'
    BY <2>2, <2>5 DEF Written, Moving
  <2> QED
    BY <2>1, <2>6, <1>t, <1>z, GoShows DEF Points, Loads
<1>2. ASSUME StoreColumn(a) PROVE Shows(call[a])'
  <2>1. /\ call[a].pc = "column" /\ GoTo(a, "wrap", 0)
        /\ cursor_x' = NextColumn(call[a].c)
        /\ UNCHANGED <<video_memory, cursor_y>>
    BY <1>2, <1>t DEF StoreColumn, Loaded, At, Go, Value, Loads
  <2>2. call'[a].pc = "wrap"
    BY <2>1, <1>t, <1>z, GoToParts DEF Points, Loads
  <2>3. WrappedEnds(video_memory, NextColumn(call[a].c), cursor_y)
    BY <2>1, <1>t DEF Written
  <2>5. WrappedEnds(video_memory, cursor_x, cursor_y)'
    BY <2>1, <2>3 DEF WrappedEnds, ScrolledEnds, Ends
  <2>6. Written(call[a])'
    BY <2>2, <2>5 DEF Written, Moving
  <2> QED
    BY <2>1, <2>6, <1>t, <1>z, GoShows DEF Points, Loads
<1>3. ASSUME Home(a, "home", IF call[a].c = "newline" THEN "row" ELSE "wrap")
      PROVE  Shows(call[a])'
  <2> DEFINE q == IF call[a].c = "newline" THEN "row" ELSE "wrap"
  <2>1. /\ call[a].pc = "home" /\ GoTo(a, q, 0) /\ cursor_x' = 0
        /\ UNCHANGED <<video_memory, cursor_y>>
    BY <1>3 DEF Home, At, Go
  <2>2. q \in {"row", "wrap"} /\ (q = "row" <=> call[a].c = "newline")
    OBVIOUS
  <2> HIDE DEF q
  <2>3. call'[a].pc = q
    BY <2>1, <2>2, <1>t, <1>z, GoToParts DEF Points, Loads
  <2>4. WrappedEnds(video_memory, 0, IF call[a].c = "newline" THEN NextRow ELSE cursor_y)
    BY <2>1, <1>t DEF Written
  <2>5. ASSUME q = "row" PROVE Written(call[a])'
    <3>1. NextRow' = NextRow
      BY <2>1 DEF NextRow
    <3>2. WrappedEnds(video_memory, cursor_x, NextRow)'
      BY <2>1, <2>2, <2>4, <2>5, <3>1 DEF WrappedEnds, ScrolledEnds, Ends
    <3> QED
      BY <2>3, <2>5, <3>2 DEF Written, Moving
  <2>6. ASSUME q = "wrap" PROVE Written(call[a])'
    <3>2. WrappedEnds(video_memory, cursor_x, cursor_y)'
      BY <2>1, <2>2, <2>4, <2>6 DEF WrappedEnds, ScrolledEnds, Ends
    <3> QED
      BY <2>3, <2>6, <3>2 DEF Written, Moving
  <2> QED
    BY <2>1, <2>2, <2>5, <2>6, <1>t, <1>z, GoShows DEF Points, Loads
<1>4. ASSUME StoreRow(a, "row", "wrap") PROVE Shows(call[a])'
  <2>1. /\ call[a].pc = "row" /\ GoTo(a, "wrap", 0) /\ cursor_y' = NextRow
        /\ UNCHANGED <<video_memory, cursor_x>>
    BY <1>4, <1>t DEF StoreRow, Loaded, At, Go, Value, Loads
  <2>2. call'[a].pc = "wrap"
    BY <2>1, <1>t, <1>z, GoToParts DEF Points, Loads
  <2>3. WrappedEnds(video_memory, cursor_x, NextRow)
    BY <2>1, <1>t DEF Written
  <2>5. WrappedEnds(video_memory, cursor_x, cursor_y)'
    BY <2>1, <2>3 DEF WrappedEnds, ScrolledEnds, Ends
  <2>6. Written(call[a])'
    BY <2>2, <2>5 DEF Written, Moving
  <2> QED
    BY <2>1, <2>6, <1>t, <1>z, GoShows DEF Points, Loads
<1>5. ASSUME Wrap(a) PROVE Shows(call[a])'
  <2> DEFINE q == IF cursor_x >= Width THEN "next_home" ELSE "scroll"
  <2>1. /\ call[a].pc = "wrap" /\ GoTo(a, q, 0)
        /\ UNCHANGED <<video_memory, cursor_x, cursor_y>>
    BY <1>5 DEF Wrap, At, Go, shared
  <2>2. q \in {"next_home", "scroll"} /\ (q = "next_home" <=> cursor_x >= Width)
    OBVIOUS
  <2> HIDE DEF q
  <2>3. call'[a].pc = q
    BY <2>1, <2>2, <1>t, <1>z, GoToParts DEF Points, Loads
  <2>4. WrappedEnds(video_memory, cursor_x, cursor_y)
    BY <2>1, <1>t DEF Written
  <2>5. ASSUME q = "next_home" PROVE Written(call[a])'
    <3>1. NextRow' = (cursor_y + 1) % Byte
      BY <2>1 DEF NextRow
    <3>2. ScrolledEnds(video_memory, 0, NextRow)'
      BY <2>1, <2>2, <2>4, <2>5, <3>1 DEF WrappedEnds, ScrolledEnds, Ends
    <3> QED
      BY <2>3, <2>5, <3>2 DEF Written, Moving
  <2>6. ASSUME q = "scroll" PROVE Written(call[a])'
    <3>2. ScrolledEnds(video_memory, cursor_x, cursor_y)'
      BY <2>1, <2>2, <2>4, <2>6 DEF WrappedEnds, ScrolledEnds, Ends
    <3> QED
      BY <2>3, <2>6, <3>2 DEF Written, Moving
  <2> QED
    BY <2>1, <2>2, <2>5, <2>6, <1>t, <1>z, GoShows DEF Points, Loads
<1>6. ASSUME Home(a, "next_home", "next_row") PROVE Shows(call[a])'
  <2>1. /\ call[a].pc = "next_home" /\ GoTo(a, "next_row", 0) /\ cursor_x' = 0
        /\ UNCHANGED <<video_memory, cursor_y>>
    BY <1>6 DEF Home, At, Go
  <2>2. call'[a].pc = "next_row"
    BY <2>1, <1>t, <1>z, GoToParts DEF Points, Loads
  <2>3. ScrolledEnds(video_memory, 0, NextRow) /\ NextRow' = NextRow
    BY <2>1, <1>t DEF Written, NextRow
  <2>5. ScrolledEnds(video_memory, cursor_x, NextRow)'
    BY <2>1, <2>3 DEF ScrolledEnds, Ends
  <2>6. Written(call[a])'
    BY <2>2, <2>5 DEF Written, Moving
  <2> QED
    BY <2>1, <2>6, <1>t, <1>z, GoShows DEF Points, Loads
<1>7. ASSUME StoreRow(a, "next_row", "scroll") PROVE Shows(call[a])'
  <2>1. /\ call[a].pc = "next_row" /\ GoTo(a, "scroll", 0) /\ cursor_y' = NextRow
        /\ UNCHANGED <<video_memory, cursor_x>>
    BY <1>7, <1>t DEF StoreRow, Loaded, At, Go, Value, Loads
  <2>2. call'[a].pc = "scroll"
    BY <2>1, <1>t, <1>z, GoToParts DEF Points, Loads
  <2>3. ScrolledEnds(video_memory, cursor_x, NextRow)
    BY <2>1, <1>t DEF Written
  <2>5. ScrolledEnds(video_memory, cursor_x, cursor_y)'
    BY <2>1, <2>3 DEF ScrolledEnds, Ends
  <2>6. Written(call[a])'
    BY <2>2, <2>5 DEF Written, Moving
  <2> QED
    BY <2>1, <2>6, <1>t, <1>z, GoShows DEF Points, Loads
<1> QED
  BY <1>1, <1>2, <1>3, <1>4, <1>5, <1>6, <1>7

LEMMA ScrollShows ==
  ASSUME IInv, NEW a \in Activations, Runs(a), Shows(call[a]), UNCHANGED <<lines, column>>,
         ScrollStep(a)
  PROVE  Shows(call[a])'
<1>t. /\ Typed /\ LocalsOK(call[a]) /\ Written(call[a])
      /\ call[a].pc \in Loads => call[a].reg \in {NoValue, Value(call[a])}
      /\ cursor_x \in Bytes /\ cursor_y \in Bytes /\ video_memory \in [Cells -> Glyphs]
  BY DEF IInv, Typed, TypeOK, Shows, Bytes
<1>z. 0 \in 0 .. Height * Width
  BY Sizes
<1>1. ASSUME Scroll(a) PROVE Shows(call[a])'
  <2> DEFINE q == IF cursor_y >= Height THEN "copy" ELSE "locate"
  <2>1. /\ call[a].pc = "scroll" /\ GoTo(a, q, 0)
        /\ UNCHANGED <<video_memory, cursor_x, cursor_y>>
    BY <1>1 DEF Scroll, At, Go, shared
  <2>2. q \in {"copy", "locate"} /\ (q = "copy" <=> cursor_y >= Height)
    OBVIOUS
  <2> HIDE DEF q
  <2>3. call'[a].pc = q /\ call'[a].i = 0
    BY <2>1, <2>2, <1>t, <1>z, GoToParts DEF Points, Loads
  <2>4. ScrolledEnds(video_memory, cursor_x, cursor_y)
    BY <2>1, <1>t DEF Written
  <2>5. ASSUME q = "copy" PROVE Written(call[a])'
    <3>1. Ends(Copied(video_memory, 0), cursor_x, Height - 1)'
      BY <2>1, <2>2, <2>4, <2>5 DEF ScrolledEnds, Ends
    <3> QED
      BY <2>3, <2>5, <3>1 DEF Written, Moving
  <2>6. ASSUME q = "locate" PROVE Written(call[a])'
    <3>1. Ends(video_memory, cursor_x, cursor_y)'
      BY <2>1, <2>2, <2>4, <2>6 DEF ScrolledEnds, Ends
    <3> QED
      BY <2>3, <2>6, <3>1 DEF Written, Moving
  <2> QED
    BY <2>1, <2>2, <2>5, <2>6, <1>t, <1>z, GoShows DEF Points, Loads
<1>2. ASSUME CopyCell(a) PROVE Shows(call[a])'
  <2> DEFINE n == call[a].i
             q == IF n + 1 < LastRow THEN "copy" ELSE "blank"
  <2>1. /\ call[a].pc = "copy" /\ GoTo(a, q, n + 1) /\ n \in 0 .. LastRow - 1
        /\ video_memory' = [video_memory EXCEPT ![n] = video_memory[n + Width]]
        /\ UNCHANGED <<cursor_x, cursor_y>>
    BY <1>2, <1>t DEF CopyCell, Loaded, At, Value, Loads, LocalsOK
  <2>2. q \in {"copy", "blank"} /\ (q = "copy" <=> n + 1 < LastRow)
        /\ n + 1 \in 0 .. Height * Width
    BY <2>1, Sizes
  <2>3. Ends(Copied(video_memory, n), cursor_x, Height - 1)
    BY <2>1, <1>t DEF Written
  <2> HIDE DEF n, q
  <2>4. call'[a].pc = q /\ call'[a].i = n + 1
    BY <2>1, <2>2, <1>t, <1>z, GoToParts DEF Points, Loads
  <2>5. /\ Copied(video_memory', n + 1) = Copied(video_memory, n)
        /\ ~(n + 1 < LastRow) => Blanked(video_memory', n + 1) = Copied(video_memory, n)
    BY <2>1, <1>t, CopyOne
  <2>6. ASSUME q = "copy" PROVE Written(call[a])'
    <3>1. Ends(Copied(video_memory, call[a].i), cursor_x, Height - 1)'
      BY <2>4, <2>1, <2>3, <2>5 DEF Ends
    <3> QED
      BY <2>4, <2>6, <3>1 DEF Written, Moving
  <2>7. ASSUME q = "blank" PROVE Written(call[a])'
    <3>1. Ends(Blanked(video_memory, call[a].i), cursor_x, Height - 1)'
      BY <2>4, <2>1, <2>2, <2>3, <2>5, <2>7 DEF Ends
    <3> QED
      BY <2>4, <2>7, <3>1 DEF Written, Moving
  <2> QED
    BY <2>1, <2>2, <2>6, <2>7, <1>t, GoShows DEF Points, Loads
<1>3. ASSUME BlankCell(a) PROVE Shows(call[a])'
  <2> DEFINE n == call[a].i
  <2>1. /\ call[a].pc = "blank" /\ n \in Cells
        /\ IF n + 1 \in Cells THEN GoTo(a, "blank", n + 1) ELSE GoTo(a, "bottom", 0)
        /\ video_memory' = [video_memory EXCEPT ![n] = Blank]
        /\ UNCHANGED <<cursor_x, cursor_y>>
    BY <1>3, <1>t DEF BlankCell, At, LocalsOK
  <2>2. Ends(Blanked(video_memory, n), cursor_x, Height - 1)
    BY <2>1, <1>t DEF Written
  <2> HIDE DEF n
  <2>3. /\ Blanked(video_memory', n + 1) = Blanked(video_memory, n)
        /\ n + 1 \notin Cells => video_memory' = Blanked(video_memory, n)
    BY <2>1, <1>t, BlankOne
  <2>4. CASE n + 1 \in Cells
    <3>1. GoTo(a, "blank", n + 1) /\ n + 1 \in 0 .. Height * Width
      BY <2>1, <2>4, Sizes DEF Cells
    <3>2. call'[a].pc = "blank" /\ call'[a].i = n + 1
      BY <3>1, <1>t, GoToParts DEF Points, Loads
    <3>3. Ends(Blanked(video_memory, call[a].i), cursor_x, Height - 1)'
      BY <3>2, <2>1, <2>2, <2>3 DEF Ends
    <3>4. Written(call[a])'
      BY <3>2, <3>3 DEF Written, Moving
    <3> QED
      BY <3>1, <3>4, <1>t, GoShows DEF Points, Loads
  <2>5. CASE n + 1 \notin Cells
    <3>1. GoTo(a, "bottom", 0)
      BY <2>1, <2>5
    <3>2. call'[a].pc = "bottom"
      BY <3>1, <1>t, <1>z, GoToParts DEF Points, Loads
    <3>3. Ends(video_memory, cursor_x, Height - 1)'
      BY <2>1, <2>2, <2>3, <2>5 DEF Ends
    <3>4. Written(call[a])'
      BY <3>2, <3>3 DEF Written, Moving
    <3> QED
      BY <3>1, <3>4, <1>t, <1>z, GoShows DEF Points, Loads
  <2> QED
    BY <2>4, <2>5
<1>4. ASSUME Bottom(a) PROVE Shows(call[a])'
  <2>1. /\ call[a].pc = "bottom" /\ GoTo(a, "locate", 0) /\ cursor_y' = Height - 1
        /\ UNCHANGED <<video_memory, cursor_x>>
    BY <1>4 DEF Bottom, At, Go
  <2>2. call'[a].pc = "locate"
    BY <2>1, <1>t, <1>z, GoToParts DEF Points, Loads
  <2>3. Ends(video_memory, cursor_x, Height - 1)
    BY <2>1, <1>t DEF Written
  <2>4. Ends(video_memory, cursor_x, cursor_y)'
    BY <2>1, <2>3 DEF Ends
  <2>5. Written(call[a])'
    BY <2>2, <2>4 DEF Written, Moving
  <2> QED
    BY <2>1, <2>5, <1>t, <1>z, GoShows DEF Points, Loads
<1> QED
  BY <1>1, <1>2, <1>3, <1>4 DEF ScrollStep

(* A value once loaded is still the right one at the store.                *)
LEMMA LoadShows ==
  ASSUME IInv, NEW a \in Activations, Shows(call[a]), UNCHANGED <<lines, column>>, Load(a)
  PROVE  Shows(call[a])'
<1> DEFINE v == Value(call[a])
           f == [call[a] EXCEPT !.reg = v]
<1>1. /\ call \in [Activations -> Activation] /\ call[a] \in Activation
      /\ UNCHANGED <<video_memory, cursor_x, cursor_y, index, location>>
      /\ call[a].pc \in Loads
  BY DEF IInv, Typed, Load, shared
<1>2. call' = [call EXCEPT ![a] = f]
  BY <1>1 DEF Load
<1>3. f.pc = call[a].pc /\ f.c = call[a].c /\ f.reg = v /\ f.i = call[a].i
  BY <1>1 DEF Activation
<1> HIDE DEF f, v
<1>4. call'[a].pc = call[a].pc /\ call'[a].c = call[a].c /\ call'[a].reg = v
      /\ call'[a].i = call[a].i
  BY <1>1, <1>2, <1>3
<1>5. /\ Location' = Location /\ NextRow' = NextRow
      /\ NextColumn(call[a].c)' = NextColumn(call[a].c)
  BY <1>1, <1>4 DEF Location, NextRow, NextColumn
<1>6. Value(call[a])' = v
  BY <1>1, <1>4, <1>5 DEF Value, v
<1>7. Written(call[a])'
  BY <1>1, <1>4, <1>5 DEF Shows, Written, WrappedEnds, ScrolledEnds, Ends
<1> QED
  BY <1>1, <1>4, <1>6, <1>7 DEF Shows, Located, Loads

(* A place on the screen fits in the two location registers.               *)
LEMMA TwoBytes ==
  ASSUME NEW n \in Cells
  PROVE  ((n \div Byte) % Byte) * Byte + (n % Byte) = n
<1>1. n \in Nat /\ n < Height * Width
  BY CellPlace, Sizes DEF Cells
<1>2. Height * Width <= Height * Byte /\ Height * Byte <= Byte * Byte
  BY Sizes, Grows
<1>3. n < Byte * Byte
  <2> DEFINE u == Height * Width
             v == Height * Byte
             w == Byte * Byte
  <2>1. u \in Int /\ v \in Int /\ w \in Int /\ n < u /\ u <= v /\ v <= w
    BY <1>1, <1>2, Sizes
  <2> HIDE DEF u, v, w
  <2>2. n < w
    BY <1>1, <2>1
  <2> QED
    BY <2>2 DEF w
<1>4. n \div Byte \in Nat /\ n = (n \div Byte) * Byte + (n % Byte)
  BY <1>1, Sizes, Divided
<1>5. n \div Byte < Byte
  BY <1>1, <1>3, Sizes, Below
<1> DEFINE d == n \div Byte
<1> HIDE DEF d
<1>6. d % Byte = d
  BY <1>4, <1>5, Sizes DEF d
<1> QED
  BY <1>4, <1>6 DEF d

LEMMA EndsInside ==
  ASSUME lines \in Texts, column \in T!Columns, NEW v, NEW x, NEW y \in Nat, Ends(v, x, y)
  PROVE  y = Len(lines) - 1 /\ y < Height /\ y * Width + x \in Cells
<1>1. y = Len(lines) - 1 /\ y < Height
  BY TextParts, Sizes DEF Ends
<1>2. y * Width + column \in Cells
  BY <1>1, OnePlace
<1> QED
  BY <1>1, <1>2 DEF Ends

LEMMA MoveShows ==
  ASSUME IInv, NEW a \in Activations, Shows(call[a]), UNCHANGED <<lines, column>>,
         SelectHigh(a) \/ OutHigh(a) \/ SelectLow(a)
  PROVE  Shows(call[a])'
<1>t. Typed /\ location \in [{HIGH, LOW} -> Bytes] /\ HIGH # LOW
  BY DEF IInv, Typed, TypeOK, Bytes, HIGH, LOW
<1>1. /\ UNCHANGED <<video_memory, cursor_x, cursor_y>>
      /\ call[a].pc \in {"locate", "high", "relocate"}
  BY DEF SelectHigh, OutHigh, SelectLow, Loaded, At
<1>2. Location' = Location /\ Ends(video_memory, cursor_x, cursor_y)'
  BY <1>1 DEF Location, Shows, Written, Moving, Ends
<1>3. ASSUME SelectHigh(a) PROVE Shows(call[a])'
  <2>1. /\ call[a].pc = "locate" /\ call[a].reg = Location
        /\ Jump(a, "high") /\ index' = HIGH
    BY <1>3 DEF SelectHigh, Loaded, At, Shows, Value, Loads
  <2>2. call'[a].pc = "high" /\ call'[a].reg = Location
    BY <2>1, <1>t, JumpParts DEF Points, Loads
  <2> QED
    BY <1>2, <2>1, <2>2 DEF Shows, Written, Located, Loads, Moving
<1>4. ASSUME OutHigh(a) PROVE Shows(call[a])'
  <2>1. /\ call[a].pc = "high" /\ call[a].reg = Location /\ Jump(a, "relocate")
        /\ location' = [location EXCEPT ![HIGH] = (Location \div Byte) % Byte]
    BY <1>4 DEF OutHigh, At, Shows, Located
  <2>2. call'[a].pc = "relocate" /\ call'[a].reg = Location
    BY <2>1, <1>t, JumpParts DEF Points, Loads
  <2>3. location'[HIGH] = (Location \div Byte) % Byte
    BY <2>1, <1>t
  <2> QED
    BY <1>2, <2>2, <2>3 DEF Shows, Written, Located, Loads, Moving
<1>5. ASSUME SelectLow(a) PROVE Shows(call[a])'
  <2>1. /\ call[a].pc = "relocate" /\ call[a].reg = Location /\ Jump(a, "low")
        /\ index' = LOW /\ location' = location
        /\ location[HIGH] = (Location \div Byte) % Byte
    BY <1>5 DEF SelectLow, At, Shows, Located
  <2>2. call'[a].pc = "low" /\ call'[a].reg = Location
    BY <2>1, <1>t, JumpParts DEF Points, Loads
  <2> QED
    BY <1>2, <2>1, <2>2 DEF Shows, Written, Located, Loads, Moving
<1> QED
  BY <1>3, <1>4, <1>5

LEMMA OutLowShows ==
  ASSUME IInv, NEW a \in Activations, Runs(a), Shows(call[a]), UNCHANGED <<lines, column>>,
         OutLow(a), lines \in Texts, column \in T!Columns,
         printing => call["thread"].pc = "idle"
  PROVE  /\ \A b \in Activations : Runs(b)' => Shows(call[b])'
         /\ printing' => call'["thread"].pc = "idle"
<1>1. /\ call \in [Activations -> Activation] /\ printing \in BOOLEAN
      /\ location \in [{HIGH, LOW} -> Bytes] /\ HIGH # LOW
      /\ cursor_y \in Nat /\ cursor_x \in Nat
  BY ConsoleAssumption DEF IInv, Typed, TypeOK, Bytes, HIGH, LOW
<1>2. /\ call[a].pc = "low" /\ call[a].reg = Location /\ index = LOW
      /\ location[HIGH] = (Location \div Byte) % Byte
      /\ Ends(video_memory, cursor_x, cursor_y)
      /\ UNCHANGED <<video_memory, cursor_x, cursor_y, index>>
      /\ call' = [call EXCEPT ![a] = Idle]
      /\ printing' = (printing /\ call[a].c # "newline")
      /\ location' = [location EXCEPT ![LOW] = Location % Byte]
  BY DEF OutLow, At, Shows, Written, Located, Moving
<1>3. Ends(video_memory, cursor_x, cursor_y)' /\ Location' = Location
  BY <1>2 DEF Ends, Location
<1>4. CursorShown' = Location'
  <2>1. Location \in Cells
    BY <1>1, <1>2, EndsInside DEF Location
  <2>2. location'[HIGH] = (Location \div Byte) % Byte /\ location'[LOW] = Location % Byte
    BY <1>1, <1>2
  <2> QED
    BY <1>3, <2>1, <2>2, TwoBytes DEF CursorShown
<1>5. Idle.pc = "idle"
  BY DEF Idle
<1>6. call'[a].pc = "idle" /\ \A b \in Activations \ {a} : call'[b] = call[b]
  BY <1>1, <1>2, <1>5
<1>7. ASSUME NEW b \in Activations, Runs(b)' PROVE call'[b].pc = "idle"
  <2>1. CASE b = a
    BY <1>6, <2>1
  <2>2. CASE b # a
    <3>1. printing /\ b = "thread"
      BY <1>1, <1>2, <1>7, <2>2 DEF Runs, Activations
    <3> QED
      BY <1>6, <2>2, <3>1
  <2> QED
    BY <2>1, <2>2
<1>8. ASSUME NEW b \in Activations, Runs(b)' PROVE Shows(call[b])'
  <2>1. call'[b].pc = "idle"
    BY <1>7, <1>8
  <2> QED
    BY <1>3, <1>4, <2>1 DEF Shows, Written, Located, Loads, Moving
<1>9. printing' => call'["thread"].pc = "idle"
  <2> SUFFICES ASSUME printing' PROVE call'["thread"].pc = "idle"
    OBVIOUS
  <2>1. printing /\ "thread" \in Activations
    BY <1>1, <1>2 DEF Activations
  <2> QED
    BY <1>6, <2>1
<1> QED
  BY <1>8, <1>9

-----------------------------------------------------------------------------
(* The text moves on to column x as the call will move the cursor.         *)
LEMMA MoveToEnds ==
  ASSUME NEW t \in Texts, NEW x \in Nat, T!MoveTo(t, x), NEW y \in Nat, y + 1 = Len(t)
  PROVE  /\ lines' \in Texts /\ column' \in T!Columns
         /\ WrappedEnds(ScreenOf(t), x, y)'
<1>1. Len(t) \in Nat /\ Len(t) > 0 /\ Len(t) <= Height
  BY TextParts
<1>2. CASE x < Width
  <2>1. lines' = t /\ column' = x
    BY <1>2 DEF T!MoveTo
  <2>2. x \in T!Columns
    BY <1>2, Sizes DEF T!Columns
  <2>3. ~(x >= Width) /\ ~(y >= Height)
    BY <1>1, <1>2, Sizes
  <2> QED
    BY <2>1, <2>2, <2>3 DEF WrappedEnds, ScrolledEnds, Ends
<1>3. CASE ~(x < Width)
  <2>1. lines' = T!Shown(Append(t, T!EmptyLine)) /\ column' = 0
    BY <1>3 DEF T!MoveTo
  <2>2. /\ lines' \in Texts
        /\ Len(t) < Height => Len(lines') = Len(t) + 1 /\ ScreenOf(lines') = ScreenOf(t)
        /\ ~(Len(t) < Height) => Len(lines') = Height
                                 /\ ScreenOf(lines') = Copied(ScreenOf(t), 0)
    BY <2>1, TextMore
  <2>3. 0 \in T!Columns
    BY Sizes DEF T!Columns
  <2>4. /\ x >= Width /\ (y + 1) % Byte = y + 1 /\ (Height - 1) + 1 = Height
        /\ y + 1 >= Height <=> ~(Len(t) < Height)
    <3>1. y + 1 \in 0 .. Byte - 1
      BY <1>1, Sizes
    <3> QED
      BY <1>1, <1>3, <3>1, Sizes
  <2> QED
    BY <2>1, <2>2, <2>3, <2>4 DEF WrappedEnds, ScrolledEnds, Ends
<1> QED
  BY <1>2, <1>3

(* The bytes of cursor_x do not wrap while the cursor is in the text.      *)
LEMMA NextColumns ==
  ASSUME NEW x \in T!Columns
  PROVE  /\ (x + 1) % Byte = x + 1 /\ x + 1 \in Nat
         /\ x > 0 => (x - 1) % Byte = x - 1 /\ x - 1 \in Nat
         /\ (((x + TabStop) \div TabStop) * TabStop) % Byte = x + TabStop - (x % TabStop)
         /\ x + TabStop - (x % TabStop) \in Nat
<1>1. x \in Nat /\ x < Width
  BY Sizes DEF T!Columns
<1>2. \A n \in 0 .. Byte - 1 : n % Byte = n
  BY Sizes
<1> DEFINE m == x % TabStop
           p == ((x + TabStop) \div TabStop) * TabStop
<1>3. p = x + TabStop - m /\ m \in 0 .. TabStop - 1
  BY <1>1, Sizes, TabPlace
<1> HIDE DEF m, p
<1>4. p \in 0 .. Byte - 1 /\ p \in Nat
  BY <1>1, <1>3, Sizes
<1>5. x + 1 \in 0 .. Byte - 1 /\ x + 1 \in Nat
  BY <1>1, Sizes
<1>6. x > 0 => x - 1 \in 0 .. Byte - 1 /\ x - 1 \in Nat
  BY <1>1, Sizes
<1>7. p % Byte = p
  BY <1>2, <1>4
<1> QED
  BY <1>2, <1>3, <1>4, <1>5, <1>6, <1>7 DEF m, p

(* A new call: the character is in the text, and all is still to do.       *)
LEMMA PutcShows ==
  ASSUME IInv, NEW a \in Activations, NEW k \in Characters, Shows(call[a]), Putc(a, k),
         lines \in Texts, column \in T!Columns, T!Type(k)
  PROVE  lines' \in Texts /\ column' \in T!Columns /\ Shows(call[a])'
<1> DEFINE n == Len(lines)
           s == ScreenOf(lines)
<1>1. /\ call \in [Activations -> Activation] /\ cursor_x \in Nat /\ cursor_y \in Nat
      /\ n \in Nat /\ n > 0
  BY ConsoleAssumption, TextParts DEF IInv, Typed, TypeOK
<1>2. /\ UNCHANGED <<video_memory, cursor_x, cursor_y>>
      /\ call[a].pc = "idle"
      /\ call' = [call EXCEPT ![a] = [pc |-> First(k), c |-> k, reg |-> NoValue, i |-> 0]]
  BY DEF Putc, At, shared
<1>3. call'[a].pc = First(k) /\ call'[a].c = k /\ call'[a].reg = NoValue
  BY <1>1, <1>2
<1>4. video_memory = s /\ cursor_x = column /\ cursor_y + 1 = n
  BY <1>2 DEF Shows, Written, Moving, Ends
<1>5. /\ Location = (n - 1) * Width + column
      /\ NextRow' = (cursor_y + 1) % Byte /\ NextColumn(call[a].c)' = NextColumn(k)
      /\ Location' = Location
  <2>1. cursor_y = n - 1
    BY <1>1, <1>4
  <2> QED
    BY <1>2, <1>3, <1>4, <2>1 DEF Location, NextRow, NextColumn
<1>6. /\ "backspace" \notin Glyphs /\ "tab" \notin Glyphs
      /\ "newline" \notin Glyphs /\ "return" \notin Glyphs
  BY ConsoleAssumption DEF Controls
<1>7. 0 \in Nat /\ Width \in Nat /\ Width > 0 /\ 0 < Width
  BY Sizes
<1> HIDE DEF n, s
<1>w. ASSUME lines' \in Texts, column' \in T!Columns, Written(call[a])',
             First(k) \in {"cell", "home", "column", "wrap"}
      PROVE  lines' \in Texts /\ column' \in T!Columns /\ Shows(call[a])'
  BY <1>3, <1>w DEF Shows, Located
<1>8. ASSUME k \in Glyphs
      PROVE  lines' \in Texts /\ column' \in T!Columns /\ Shows(call[a])'
  <2>1. First(k) = "cell" /\ T!MoveTo([lines EXCEPT ![n][column] = k], column + 1)
    BY <1>6, <1>8 DEF First, T!Type, n
  <2>2. PICK t : t = [lines EXCEPT ![n][column] = k]
    OBVIOUS
  <2>3. t \in Texts /\ Len(t) = n /\ ScreenOf(t) = Put(s, (n - 1) * Width + column, k)
    BY <1>8, <2>2, TextPut DEF n, s
  <2>4. PICK x \in Nat : x = column + 1 /\ x % Byte = x
    BY NextColumns
  <2>5. PICK y \in Nat : y = cursor_y /\ y + 1 = n
    BY <1>1, <1>4
  <2>6. T!MoveTo(t, x)
    BY <2>1, <2>2, <2>4
  <2>7. lines' \in Texts /\ column' \in T!Columns /\ WrappedEnds(ScreenOf(t), x, y)'
    BY <2>3, <2>5, <2>6, MoveToEnds
  <2>8. /\ Put(video_memory, Location, call[a].c)' = ScreenOf(t)
        /\ ((cursor_x + 1) % Byte)' = x /\ cursor_y' = y
    BY <1>2, <1>3, <1>4, <1>5, <2>3, <2>4, <2>5
  <2>9. WrappedEnds(Put(video_memory, Location, call[a].c), (cursor_x + 1) % Byte, cursor_y)'
    BY <2>7, <2>8 DEF WrappedEnds, ScrolledEnds, Ends
  <2> QED
    BY <1>3, <1>w, <2>1, <2>7, <2>9 DEF Written, Moving
<1>m. ASSUME NEW x \in Nat, T!MoveTo(lines, x)
      PROVE  /\ lines' \in Texts /\ column' \in T!Columns
             /\ WrappedEnds(video_memory, x, cursor_y)'
  <2>1. PICK t \in Texts : t = lines
    OBVIOUS
  <2>2. PICK y \in Nat : y = cursor_y /\ y + 1 = n
    BY <1>1, <1>4
  <2>3. lines' \in Texts /\ column' \in T!Columns /\ WrappedEnds(ScreenOf(t), x, y)'
    BY <1>m, <2>1, <2>2, MoveToEnds DEF n
  <2>4. video_memory' = ScreenOf(t) /\ cursor_y' = y
    BY <1>2, <1>4, <2>1, <2>2 DEF s
  <2> QED
    BY <2>3, <2>4 DEF WrappedEnds, ScrolledEnds, Ends
<1>9. ASSUME k = "newline"
      PROVE  lines' \in Texts /\ column' \in T!Columns /\ Shows(call[a])'
  <2>1. First(k) = "home" /\ T!MoveTo(lines, Width)
    BY <1>6, <1>9 DEF First, T!Type
  <2>2. /\ lines' \in Texts /\ column' \in T!Columns
        /\ WrappedEnds(video_memory, Width, cursor_y)'
    BY <1>7, <2>1, <1>m
  <2>3. /\ Width >= Width /\ ~(0 >= Width)
        /\ (IF call[a].c = "newline" THEN NextRow ELSE cursor_y)' = ((cursor_y + 1) % Byte)'
    BY <1>2, <1>3, <1>5, <1>7, <1>9
  <2>4. WrappedEnds(video_memory, 0, IF call[a].c = "newline" THEN NextRow ELSE cursor_y)'
    BY <2>2, <2>3 DEF WrappedEnds, ScrolledEnds, Ends
  <2> QED
    BY <1>3, <1>w, <2>1, <2>2, <2>4 DEF Written, Moving
<1>10. ASSUME k = "return"
       PROVE  lines' \in Texts /\ column' \in T!Columns /\ Shows(call[a])'
  <2>1. First(k) = "home" /\ T!MoveTo(lines, 0)
    BY <1>6, <1>10 DEF First, T!Type
  <2>2. /\ lines' \in Texts /\ column' \in T!Columns
        /\ WrappedEnds(video_memory, 0, cursor_y)'
    BY <1>7, <2>1, <1>m
  <2>3. (IF call[a].c = "newline" THEN NextRow ELSE cursor_y)' = cursor_y'
    BY <1>3, <1>10
  <2>4. WrappedEnds(video_memory, 0, IF call[a].c = "newline" THEN NextRow ELSE cursor_y)'
    BY <2>2, <2>3 DEF WrappedEnds, ScrolledEnds, Ends
  <2> QED
    BY <1>3, <1>w, <2>1, <2>2, <2>4 DEF Written, Moving
<1>11. ASSUME k = "tab"
       PROVE  lines' \in Texts /\ column' \in T!Columns /\ Shows(call[a])'
  <2>1. First(k) = "column" /\ T!MoveTo(lines, column + TabStop - (column % TabStop))
    BY <1>6, <1>11 DEF First, T!Type
  <2>2. PICK x \in Nat : /\ x = column + TabStop - (column % TabStop)
                         /\ (((column + TabStop) \div TabStop) * TabStop) % Byte = x
    BY NextColumns
  <2>3. /\ lines' \in Texts /\ column' \in T!Columns
        /\ WrappedEnds(video_memory, x, cursor_y)'
    BY <2>1, <2>2, <1>m
  <2>4. NextColumn(call[a].c)' = x
    BY <1>4, <1>5, <1>11, <2>2 DEF NextColumn
  <2>5. WrappedEnds(video_memory, NextColumn(call[a].c), cursor_y)'
    BY <2>3, <2>4 DEF WrappedEnds, ScrolledEnds, Ends
  <2> QED
    BY <1>3, <1>w, <2>1, <2>3, <2>5 DEF Written, Moving
<1>12. ASSUME k = "backspace", column = 0
       PROVE  lines' \in Texts /\ column' \in T!Columns /\ Shows(call[a])'
  <2>1. First(k) = "wrap" /\ T!MoveTo(lines, 0) /\ cursor_x' = 0
    BY <1>2, <1>4, <1>6, <1>12 DEF First, T!Type
  <2>2. /\ lines' \in Texts /\ column' \in T!Columns
        /\ WrappedEnds(video_memory, 0, cursor_y)'
    BY <1>7, <2>1, <1>m
  <2>3. WrappedEnds(video_memory, cursor_x, cursor_y)'
    BY <2>1, <2>2 DEF WrappedEnds, ScrolledEnds, Ends
  <2> QED
    BY <1>3, <1>w, <2>1, <2>2, <2>3 DEF Written, Moving
<1>13. ASSUME k = "backspace", column # 0
       PROVE  lines' \in Texts /\ column' \in T!Columns /\ Shows(call[a])'
  <2>1. First(k) = "column" /\ T!MoveTo(lines, column - 1)
    BY <1>4, <1>6, <1>13 DEF First, T!Type
  <2>2. PICK x \in Nat : x = column - 1 /\ x % Byte = x
    <3>1. column > 0
      BY <1>1, <1>4, <1>13
    <3> QED
      BY <3>1, NextColumns
  <2>3. /\ lines' \in Texts /\ column' \in T!Columns
        /\ WrappedEnds(video_memory, x, cursor_y)'
    BY <2>1, <2>2, <1>m
  <2>4. NextColumn(call[a].c)' = x
    BY <1>4, <1>5, <1>13, <2>2 DEF NextColumn
  <2>5. WrappedEnds(video_memory, NextColumn(call[a].c), cursor_y)'
    BY <2>3, <2>4 DEF WrappedEnds, ScrolledEnds, Ends
  <2> QED
    BY <1>3, <1>w, <2>1, <2>3, <2>5 DEF Written, Moving
<1> QED
  BY <1>8, <1>9, <1>10, <1>11, <1>12, <1>13 DEF Characters, Controls

LEMMA TextInvInit == TextInit => TextInv
<1> SUFFICES ASSUME TextInit PROVE TextInv
  OBVIOUS
<1>1. Init /\ lines = <<T!EmptyLine>> /\ column = 0
  BY DEF TextInit, T!Init
<1>2. IInv
  BY <1>1, IInvInit
<1>3. lines \in Texts /\ Len(lines) = 1 /\ lines[1] = T!EmptyLine
  BY <1>1, EmptyIsLine, Sizes DEF Texts
<1>4. column \in T!Columns
  BY <1>1, Sizes DEF T!Columns
<1>5. video_memory = ScreenOf(lines)
  <2>1. ASSUME NEW i \in Cells PROVE ScreenOf(lines)[i] = Blank
    <3> DEFINE d == i \div Width
               r == i % Width
    <3>1. d \in Nat /\ r \in T!Columns
      BY CellPlace
    <3>2. ScreenOf(lines)[i] = IF 1 + d <= Len(lines) THEN lines[1 + d][r] ELSE Blank
      BY <1>3, TextParts
    <3> HIDE DEF d, r
    <3>3. 1 + d <= Len(lines) => 1 + d = 1
      BY <1>3, <3>1
    <3> QED
      BY <1>3, <3>1, <3>2, <3>3, EmptyIsLine
  <2>2. video_memory = [i \in Cells |-> Blank]
    BY <1>1 DEF Init
  <2>3. ScreenOf(lines) \in [Cells -> Glyphs]
    BY <1>3, TextParts
  <2> QED
    BY <2>1, <2>2, <2>3
<1>6. /\ cursor_x = 0 /\ cursor_y = 0 /\ Location = 0 /\ CursorShown = 0
      /\ printing = FALSE /\ \A a \in Activations : call[a] = Idle
  BY <1>1, Sizes DEF Init, Location, CursorShown
<1>7. Ends(video_memory, cursor_x, cursor_y)
  BY <1>1, <1>3, <1>5, <1>6 DEF Ends
<1>8. ASSUME NEW a \in Activations PROVE Shows(call[a])
  <2>1. call[a].pc = "idle"
    BY <1>6 DEF Idle
  <2> QED
    BY <1>6, <1>7, <2>1 DEF Shows, Written, Located, Loads, Moving
<1>9. call["thread"].pc = "idle"
  BY <1>6 DEF Idle, Activations
<1> QED
  BY <1>2, <1>3, <1>4, <1>8, <1>9 DEF TextInv, Follows

LEMMA TextInvNext == TextInv /\ [TextNext]_textVars => TextInv'
<1> SUFFICES ASSUME TextInv, [TextNext]_textVars PROVE TextInv'
  OBVIOUS
<1>i. IInv /\ call \in [Activations -> Activation] /\ printing \in BOOLEAN
  BY DEF TextInv, IInv, Typed, TypeOK
<1>1. IInv'
  <2>1. [Next]_vars
    BY DEF TextNext, TextPutc, TextInterrupt, Next, textVars
  <2> QED
    BY <1>i, <2>1, IInvNext
<1> SUFFICES ASSUME ~mixed' PROVE /\ lines' \in Texts /\ column' \in T!Columns
                                  /\ printing' => call'["thread"].pc = "idle"
                                  /\ \A a \in Activations : Runs(a)' => Shows(call[a])'
  BY <1>1 DEF TextInv, Follows
<1>2. ~mixed
  BY DEF TextNext, TextPutc, TextInterrupt, textVars
<1>3. /\ lines \in Texts /\ column \in T!Columns
      /\ printing => call["thread"].pc = "idle"
      /\ \A a \in Activations : Runs(a) => Shows(call[a])
  BY <1>2 DEF TextInv, Follows
(* While the same activation runs on, the others' calls stay as they are.  *)
<1>r. ASSUME NEW a \in Activations, Runs(a), UNCHANGED printing, Shows(call[a])',
             \A b \in Activations \ {a} : call'[b] = call[b]
      PROVE  /\ printing' => call'["thread"].pc = "idle"
             /\ \A b \in Activations : Runs(b)' => Shows(call[b])'
  <2>1. \A b \in Activations : Runs(b)' => b = a
    BY <1>i, <1>r DEF Runs, Activations
  <2>2. printing => a # "thread"
    BY <1>i, <1>r DEF Runs
  <2> QED
    BY <1>3, <1>r, <2>1, <2>2 DEF Activations
<1>4. ASSUME NEW a \in Activations, NEW k \in Characters, TextPutc(a, k)
      PROVE  /\ lines' \in Texts /\ column' \in T!Columns
             /\ printing' => call'["thread"].pc = "idle"
             /\ \A b \in Activations : Runs(b)' => Shows(call[b])'
  <2>1. Putc(a, k) /\ T!Type(k) /\ Runs(a) /\ Shows(call[a]) /\ UNCHANGED printing
    BY <1>2, <1>3, <1>4 DEF TextPutc, Putc, At
  <2>2. \A b \in Activations \ {a} : call'[b] = call[b]
    BY <1>i, <2>1 DEF Putc
  <2>3. lines' \in Texts /\ column' \in T!Columns /\ Shows(call[a])'
    BY <1>i, <1>3, <2>1, PutcShows
  <2> QED
    BY <2>1, <2>2, <2>3, <1>r
<1>5. ASSUME TextInterrupt
      PROVE  /\ lines' \in Texts /\ column' \in T!Columns
             /\ printing' => call'["thread"].pc = "idle"
             /\ \A b \in Activations : Runs(b)' => Shows(call[b])'
  <2>1. /\ call["thread"].pc = "idle" /\ ~printing /\ printing' /\ UNCHANGED <<lines, column>>
        /\ UNCHANGED <<video_memory, cursor_x, cursor_y, index, location, call>>
    BY <1>5 DEF TextInterrupt, Interrupt, shared
  <2>2. call["handler"].pc = "idle" /\ Shows(call["thread"])
    BY <1>i, <1>3, <2>1 DEF IInv, HandlerIdle, Runs, Activations
  <2>3. Shows(call["handler"])'
    <3>1. Ends(video_memory, cursor_x, cursor_y) /\ CursorShown = Location
      BY <2>1, <2>2 DEF Shows, Written, Located, Moving
    <3>2. Ends(video_memory, cursor_x, cursor_y)' /\ CursorShown' = Location'
      BY <2>1, <3>1 DEF Ends, CursorShown, Location
    <3> QED
      BY <2>1, <2>2, <3>2 DEF Shows, Written, Located, Loads, Moving
  <2>4. \A b \in Activations : Runs(b)' => b = "handler"
    BY <2>1 DEF Runs
  <2> QED
    BY <1>3, <2>1, <2>3, <2>4
<1>6. ASSUME NEW a \in Activations, PutcStep(a), UNCHANGED <<lines, column, mixed>>
      PROVE  /\ lines' \in Texts /\ column' \in T!Columns
             /\ printing' => call'["thread"].pc = "idle"
             /\ \A b \in Activations : Runs(b)' => Shows(call[b])'
  <2>1. CASE OutLow(a)
    <3>1. Runs(a)
      BY <2>1 DEF OutLow, At
    <3> QED
      BY <1>i, <1>3, <1>6, <2>1, <3>1, OutLowShows
  <2>2. CASE ~OutLow(a)
    <3>1. Runs(a) /\ UNCHANGED printing /\ \A b \in Activations \ {a} : call'[b] = call[b]
      BY <1>6, <1>i, <2>2
      DEF PutcStep, ScrollStep, MoveStep, Load, StoreCell, StoreColumn, Home, StoreRow, Wrap,
          Scroll, CopyCell, BlankCell, Bottom, SelectHigh, OutHigh, SelectLow, Loaded, At, Go,
          GoTo, Jump
    <3>2. Shows(call[a])
      BY <1>3, <3>1
    <3>3. Shows(call[a])'
      BY <1>6, <1>i, <2>2, <3>1, <3>2, LoadShows, PutShows, ScrollShows, MoveShows
      DEF PutcStep, MoveStep
    <3> QED
      BY <1>3, <1>6, <1>r, <3>1, <3>3
  <2> QED
    BY <2>1, <2>2
<1>7. CASE UNCHANGED textVars
  <2>1. UNCHANGED <<video_memory, cursor_x, cursor_y, index, location, call, printing,
                    lines, column>>
    BY <1>7 DEF textVars, vars, shared
  <2> QED
    BY <1>3, <2>1 DEF Runs, Shows, Written, WrappedEnds, ScrolledEnds, Ends, Located,
       Value, Location, NextColumn, NextRow, CursorShown
<1> QED
  BY <1>4, <1>5, <1>6, <1>7 DEF TextNext

(* On a screen of any size and whatever is printed by the thread and, in   *)
(* between, by handlers: when nobody prints, the screen shows the last     *)
(* lines of the text and the cursor blinks where it ends.                  *)
THEOREM TextAlwaysShown == TextSpec => []TextShown
<1>1. TextInv => TextShown
  <2> SUFFICES ASSUME TextInv, Quiet, ~mixed
               PROVE  video_memory = T!Screen /\ Location = T!Cursor /\ CursorShown = T!Cursor
    BY DEF TextShown
  <2>1. /\ call["thread"].pc = "idle" /\ lines \in Texts /\ column \in T!Columns
        /\ Shows(call["thread"])
    <3>1. printing = FALSE /\ call["thread"].pc = "idle"
      BY DEF Quiet, TextInv, IInv, Typed, TypeOK
    <3>2. Runs("thread") /\ "thread" \in Activations
      BY <3>1 DEF Runs, Activations
    <3> QED
      BY <3>1, <3>2 DEF TextInv, Follows
  <2>2. Ends(video_memory, cursor_x, cursor_y) /\ CursorShown = Location
    BY <2>1 DEF Shows, Written, Located, Moving
  <2>3. cursor_y \in Nat
    BY ConsoleAssumption DEF TextInv, IInv, Typed, TypeOK
  <2>4. cursor_y = Len(lines) - 1 /\ cursor_x = column
    BY <2>1, <2>2, <2>3, EndsInside DEF Ends
  <2> QED
    BY <2>2, <2>4, ScreenIs DEF Ends, Location, T!Cursor
<1>2. TextSpec => []TextInv
  BY TextInvInit, TextInvNext, PTL DEF TextSpec
<1> QED
  BY <1>1, <1>2, PTL
=============================================================================
