------------------------ MODULE TerminalClient_proofs ------------------------
(***************************************************************************)
(* Proofs about TerminalClient, for any set of destinations, buses of any  *)
(* capacity and any number of changes.                                     *)
(*                                                                         *)
(* TypeOK is inductive by itself. What takes work is the stack of pages: a *)
(* page is in it once, the focus is in it, and both survive every page     *)
(* that is added or removed below or above another, so the first part is   *)
(* about what those operators do to a sequence.                            *)
(*                                                                         *)
(* The focus follows the front because, of all helpers, only hideModal     *)
(* gives it to the table without a look at what is in front.               *)
(***************************************************************************)
EXTENDS TerminalClient, SequenceTheorems, WellFoundedInduction, TLAPS

(***************************************************************************)
(* Sequences: what the operators the stack of pages is built from do       *)
(***************************************************************************)

\* The least of some indexes is one of them.
LEMMA FirstIndex ==
    ASSUME NEW n \in Nat, NEW I \in SUBSET (1 .. n), I # {}
    PROVE  Min(I) \in I /\ \A j \in I : Min(I) <= j
  <1>1. PICK i \in I : \A j \in I : ~(<<j, i>> \in OpToRel(<, Nat))
    <2>1. I \subseteq Nat
      OBVIOUS
    <2>2. QED
      BY <2>1, NatLessThanWellFounded, WFMin
  <1>2. ASSUME NEW j \in I PROVE i <= j
    <2>1. i \in Nat /\ j \in Nat
      OBVIOUS
    <2>2. ~(<<j, i>> \in OpToRel(<, Nat))
      BY <1>1
    <2>3. ~(j < i)
      BY <2>1, <2>2 DEF OpToRel
    <2>4. QED
      BY <2>1, <2>3
  <1>3. QED
    BY <1>2 DEF Min

LEMMA LastEntry ==
    ASSUME NEW S, NEW s \in Seq(S), s # <<>>
    PROVE  Last(s) \in S /\ Last(s) \in Range(s)
  <1>1. Len(s) \in DOMAIN s /\ s[Len(s)] \in S
    OBVIOUS
  <1>2. QED
    BY <1>1 DEF Last, Range

LEMMA RangeEntries ==
    ASSUME NEW S, NEW s \in Seq(S)
    PROVE  Range(s) \subseteq S
  BY DEF Range

LEMMA AppendEntries ==
    ASSUME NEW S, NEW s \in Seq(S), NEW e \in S
    PROVE  /\ Append(s, e) \in Seq(S)
           /\ DOMAIN Append(s, e) = DOMAIN s \union {Len(s) + 1}
           /\ \A i \in 1 .. Len(s) : Append(s, e)[i] = s[i]
           /\ Append(s, e)[Len(s) + 1] = e
  OBVIOUS

LEMMA TailEntries ==
    ASSUME NEW S, NEW s \in Seq(S), s # <<>>
    PROVE  /\ Head(s) \in S
           /\ Tail(s) \in Seq(S)
           /\ \A n \in Nat : Len(s) <= n => Len(Tail(s)) <= n
  OBVIOUS

LEMMA EmptyEntries ==
    ASSUME NEW S
    PROVE  <<>> \in Seq(S) /\ Len(<<>>) = 0
  OBVIOUS

LEMMA ReverseEntries ==
    ASSUME NEW S, NEW s \in Seq(S)
    PROVE  /\ Reverse(s) \in Seq(S)
           /\ Len(Reverse(s)) = Len(s)
           /\ \A i \in 1 .. Len(s) : Reverse(s)[i] = s[Len(s) - i + 1]
  BY DEF Reverse

\* RemoveFirst takes one occurrence away and leaves the others where they are.
LEMMA RemoveFirstEntries ==
    ASSUME NEW S, NEW s \in Seq(S), NEW p
    PROVE  /\ RemoveFirst(s, p) \in Seq(S)
           /\ (\A i \in 1 .. Len(s) : s[i] # p) => RemoveFirst(s, p) = s
           /\ (\E i \in 1 .. Len(s) : s[i] = p) =>
                \E k \in 1 .. Len(s) :
                    /\ s[k] = p
                    /\ Len(RemoveFirst(s, p)) = Len(s) - 1
                    /\ \A i \in 1 .. (Len(s) - 1) :
                        RemoveFirst(s, p)[i] = IF i < k THEN s[i] ELSE s[i + 1]
  <1>1. CASE \A i \in 1 .. Len(s) : s[i] # p
    BY <1>1 DEF RemoveFirst
  <1>2. CASE \E i \in 1 .. Len(s) : s[i] = p
    <2> DEFINE I == {i \in 1 .. Len(s) : s[i] = p}
               k == Min(I)
    <2>1. k \in 1 .. Len(s) /\ s[k] = p
      <3>1. Len(s) \in Nat /\ I \in SUBSET (1 .. Len(s)) /\ I # {}
        BY <1>2
      <3>2. k \in I
        BY <3>1, FirstIndex
      <3>3. QED
        BY <3>2
    <2>2. RemoveFirst(s, p) = SubSeq(s, 1, k - 1) \o SubSeq(s, k + 1, Len(s))
      BY <1>2 DEF RemoveFirst, RemoveAt, SelectInSeq
    <2> HIDE DEF k
    <2>3. /\ SubSeq(s, 1, k - 1) \in Seq(S) /\ Len(SubSeq(s, 1, k - 1)) = k - 1
          /\ \A i \in 1 .. (k - 1) : SubSeq(s, 1, k - 1)[i] = s[i]
      BY <2>1
    <2>4. /\ SubSeq(s, k + 1, Len(s)) \in Seq(S)
          /\ Len(SubSeq(s, k + 1, Len(s))) = Len(s) - k
          /\ \A i \in 1 .. (Len(s) - k) : SubSeq(s, k + 1, Len(s))[i] = s[k + i]
      BY <2>1
    <2>5. /\ RemoveFirst(s, p) \in Seq(S)
          /\ Len(RemoveFirst(s, p)) = Len(s) - 1
          /\ \A i \in 1 .. (Len(s) - 1) :
                RemoveFirst(s, p)[i] = IF i < k THEN s[i] ELSE s[i + 1]
      <3> DEFINE a == SubSeq(s, 1, k - 1)
                 b == SubSeq(s, k + 1, Len(s))
      <3>1. /\ a \o b \in Seq(S) /\ Len(a \o b) = Len(a) + Len(b)
            /\ \A i \in 1 .. (Len(a) + Len(b)) :
                    (a \o b)[i] = IF i <= Len(a) THEN a[i] ELSE b[i - Len(a)]
        BY <2>3, <2>4, ConcatProperties
      <3>2. /\ Len(a) = k - 1 /\ Len(b) = Len(s) - k /\ Len(s) \in Nat
            /\ \A i \in 1 .. (k - 1) : a[i] = s[i]
            /\ \A i \in 1 .. (Len(s) - k) : b[i] = s[k + i]
        BY <2>3, <2>4
      <3> HIDE DEF a, b
      <3>3. Len(a) + Len(b) = Len(s) - 1
        BY <2>1, <3>2
      <3>4. ASSUME NEW i \in 1 .. (Len(s) - 1)
            PROVE  (a \o b)[i] = IF i < k THEN s[i] ELSE s[i + 1]
        <4>1. (a \o b)[i] = IF i <= k - 1 THEN a[i] ELSE b[i - (k - 1)]
          BY <3>1, <3>2, <3>3
        <4>2. CASE i < k
          BY <2>1, <3>2, <4>1, <4>2
        <4>3. CASE ~(i < k)
          <5>1. i - (k - 1) \in 1 .. (Len(s) - k) /\ k + (i - (k - 1)) = i + 1
            BY <2>1, <3>2, <4>3
          <5>2. QED
            BY <2>1, <3>2, <4>1, <4>3, <5>1
        <4>4. QED
          BY <4>2, <4>3
      <3>5. RemoveFirst(s, p) = a \o b
        BY <2>2 DEF a, b
      <3>6. QED
        BY <3>1, <3>3, <3>4, <3>5
    <2>6. QED
      BY <1>2, <2>1, <2>5
  <1>3. QED
    BY <1>1, <1>2

\* What RemovePage leaves of the stack: it lacks the topmost page of that name.
LEMMA RemoveTopEntries ==
    ASSUME NEW S, NEW s \in Seq(S), NEW p
    PROVE  LET t == Reverse(RemoveFirst(Reverse(s), p)) IN
           /\ t \in Seq(S)
           /\ (\A i \in 1 .. Len(s) : s[i] # p) => t = s
           /\ (\E i \in 1 .. Len(s) : s[i] = p) =>
                \E k \in 1 .. Len(s) :
                    /\ s[k] = p
                    /\ Len(t) = Len(s) - 1
                    /\ \A i \in 1 .. (Len(s) - 1) : t[i] = IF i < k THEN s[i] ELSE s[i + 1]
  <1> DEFINE r == Reverse(s)
             f == RemoveFirst(r, p)
             t == Reverse(f)
  <1>1. /\ r \in Seq(S) /\ Len(r) = Len(s)
        /\ \A i \in 1 .. Len(s) : r[i] = s[Len(s) - i + 1]
    BY ReverseEntries
  <1>2. f \in Seq(S)
    BY <1>1, RemoveFirstEntries
  <1>3. /\ t \in Seq(S) /\ Len(t) = Len(f)
        /\ \A i \in 1 .. Len(f) : t[i] = f[Len(f) - i + 1]
    BY <1>2, ReverseEntries
  <1>4. ASSUME \A i \in 1 .. Len(s) : s[i] # p PROVE t = s
    <2>1. f = r
      <3>1. \A i \in 1 .. Len(r) : r[i] # p
        BY <1>1, <1>4
      <3>2. QED
        BY <1>1, <3>1, RemoveFirstEntries
    <2> HIDE DEF r, f, t
    <2>2. ASSUME NEW i \in 1 .. Len(s) PROVE t[i] = s[i]
      <3>1. Len(s) - i + 1 \in 1 .. Len(s) /\ Len(s) - (Len(s) - i + 1) + 1 = i
        OBVIOUS
      <3>2. t[i] = r[Len(s) - i + 1]
        BY <1>1, <1>3, <2>1
      <3>3. QED
        BY <1>1, <3>1, <3>2
    <2>3. QED
      BY <1>1, <1>3, <2>1, <2>2, SeqEqual
  <1>5. ASSUME NEW i \in 1 .. Len(s), s[i] = p
        PROVE  \E k \in 1 .. Len(s) :
                    /\ s[k] = p
                    /\ Len(t) = Len(s) - 1
                    /\ \A j \in 1 .. (Len(s) - 1) : t[j] = IF j < k THEN s[j] ELSE s[j + 1]
    <2>1. Len(s) - i + 1 \in 1 .. Len(r) /\ r[Len(s) - i + 1] = p
      BY <1>1, <1>5
    <2>2. PICK k \in 1 .. Len(r) :
            /\ r[k] = p
            /\ Len(f) = Len(r) - 1
            /\ \A j \in 1 .. (Len(r) - 1) : f[j] = IF j < k THEN r[j] ELSE r[j + 1]
      <3> HIDE DEF r
      <3>1. (\E m \in 1 .. Len(r) : r[m] = p) =>
              \E k \in 1 .. Len(r) :
                /\ r[k] = p
                /\ Len(f) = Len(r) - 1
                /\ \A j \in 1 .. (Len(r) - 1) : f[j] = IF j < k THEN r[j] ELSE r[j + 1]
        BY <1>1, RemoveFirstEntries
      <3>2. QED
        BY <2>1, <3>1
    <2> HIDE DEF r, f, t
    <2>3. Len(s) - k + 1 \in 1 .. Len(s) /\ s[Len(s) - k + 1] = p
      BY <1>1, <2>2
    <2>4. ASSUME NEW j \in 1 .. (Len(s) - 1)
          PROVE  t[j] = IF j < Len(s) - k + 1 THEN s[j] ELSE s[j + 1]
      <3>1. t[j] = f[Len(s) - j] /\ Len(s) - j \in 1 .. (Len(s) - 1)
        BY <1>1, <1>3, <2>2
      <3>2. t[j] = IF Len(s) - j < k THEN r[Len(s) - j] ELSE r[Len(s) - j + 1]
        BY <1>1, <2>2, <3>1
      <3>3. r[Len(s) - j] = s[j + 1] /\ r[Len(s) - j + 1] = s[j]
        <4>1. /\ Len(s) - j \in 1 .. Len(s) /\ Len(s) - (Len(s) - j) + 1 = j + 1
              /\ Len(s) - j + 1 \in 1 .. Len(s) /\ Len(s) - (Len(s) - j + 1) + 1 = j
          OBVIOUS
        <4>2. QED
          BY <1>1, <4>1
      <3>4. QED
        BY <1>1, <3>2, <3>3
    <2>5. QED
      BY <1>1, <1>3, <2>2, <2>3, <2>4
  <1>6. QED
    BY <1>3, <1>4, <1>5

\* Nothing but the error of a stream is in s twice.
Once(s) == \A i, j \in DOMAIN s : (i # j /\ s[i] = s[j]) => s[i] = "destination error"

LEMMA AppendOnce ==
    ASSUME NEW S, NEW s \in Seq(S), NEW p \in S, Once(s)
    PROVE  /\ Append(s, p) \in Seq(S)
           /\ p \notin Range(s) \/ p = "destination error" => Once(Append(s, p))
           /\ \A q : q \in Range(Append(s, p)) <=> q \in Range(s) \/ q = p
  <1> DEFINE t == Append(s, p)
             n == Len(s)
  <1>1. n \in Nat /\ DOMAIN s = 1 .. n
    BY LenProperties
  <1>2. /\ t \in Seq(S) /\ DOMAIN t = DOMAIN s \union {n + 1}
        /\ (\A i \in 1 .. n : t[i] = s[i]) /\ t[n + 1] = p
    BY AppendEntries
  <1> HIDE DEF t, n
  <1>3. DOMAIN t = DOMAIN s \union {n + 1}
    BY <1>2
  <1>4. \A q : q \in Range(t) <=> q \in Range(s) \/ q = p
    BY <1>1, <1>2, <1>3 DEF Range
  <1>5. ASSUME p \notin Range(s) \/ p = "destination error",
               NEW i \in DOMAIN t, NEW j \in DOMAIN t, i # j, t[i] = t[j]
        PROVE  t[i] = "destination error"
    <2>1. CASE i \in DOMAIN s /\ j \in DOMAIN s
      BY <1>1, <1>2, <1>5, <2>1 DEF Once
    <2>2. CASE i = n + 1 /\ j \in DOMAIN s
      BY <1>1, <1>2, <1>5, <2>2 DEF Range
    <2>3. CASE j = n + 1 /\ i \in DOMAIN s
      BY <1>1, <1>2, <1>5, <2>3 DEF Range
    <2>4. QED
      BY <1>3, <1>5, <2>1, <2>2, <2>3
  <1>6. QED
    BY <1>2, <1>4, <1>5 DEF Once, t

LEMMA RemoveTopOnce ==
    ASSUME NEW S, NEW s \in Seq(S), NEW p, Once(s)
    PROVE  LET t == Reverse(RemoveFirst(Reverse(s), p)) IN
           /\ t \in Seq(S) /\ Once(t)
           /\ \A q \in Range(t) : q \in Range(s)
           /\ \A q \in Range(s) : q # p => q \in Range(t)
           /\ p # "destination error" => p \notin Range(t)
  <1> DEFINE t == Reverse(RemoveFirst(Reverse(s), p))
  <1>1. DOMAIN s = 1 .. Len(s) /\ Len(s) \in Nat
    OBVIOUS
  <1>2. /\ t \in Seq(S)
        /\ (\A i \in 1 .. Len(s) : s[i] # p) => t = s
        /\ (\E i \in 1 .. Len(s) : s[i] = p) =>
              \E k \in 1 .. Len(s) :
                /\ s[k] = p
                /\ Len(t) = Len(s) - 1
                /\ \A i \in 1 .. (Len(s) - 1) : t[i] = IF i < k THEN s[i] ELSE s[i + 1]
    BY RemoveTopEntries
  <1> HIDE DEF t
  <1>5. /\ Once(t)
        /\ Range(t) \subseteq Range(s)
        /\ \A q \in Range(s) : q # p => q \in Range(t)
        /\ p # "destination error" => p \notin Range(t)
    <2>1. CASE \A i \in 1 .. Len(s) : s[i] # p
      BY <1>1, <1>2, <2>1 DEF Range
    <2>2. CASE \E i \in 1 .. Len(s) : s[i] = p
      <3>1. PICK k \in 1 .. Len(s) :
                /\ s[k] = p
                /\ Len(t) = Len(s) - 1
                /\ \A i \in 1 .. (Len(s) - 1) : t[i] = IF i < k THEN s[i] ELSE s[i + 1]
        BY <1>2, <2>2
      <3> DEFINE from(i) == IF i < k THEN i ELSE i + 1
      <3>2. DOMAIN t = 1 .. (Len(s) - 1)
        BY <1>2, <3>1
      <3>3. \A i \in DOMAIN t : from(i) \in DOMAIN s /\ from(i) # k /\ t[i] = s[from(i)]
        BY <1>1, <3>1, <3>2
      <3>4. \A i, j \in DOMAIN t : i # j => from(i) # from(j)
        BY <1>1, <3>2
      <3>5. \A j \in DOMAIN s : j # k => \E i \in DOMAIN t : from(i) = j
        <4>1. SUFFICES ASSUME NEW j \in DOMAIN s, j # k
                       PROVE  \E i \in DOMAIN t : from(i) = j
          OBVIOUS
        <4>2. CASE j < k
          BY <1>1, <3>2, <4>1, <4>2
        <4>3. CASE ~(j < k)
          <5>1. j - 1 \in DOMAIN t /\ from(j - 1) = j
            BY <1>1, <3>2, <4>1, <4>3
          <5>2. QED
            BY <5>1
        <4>4. QED
          BY <4>2, <4>3
      <3> HIDE DEF from
      <3>6. Once(t)
        BY <3>3, <3>4 DEF Once
      <3>7. Range(t) \subseteq Range(s)
        BY <3>3 DEF Range
      <3>8. \A q \in Range(s) : q # p => q \in Range(t)
        BY <3>1, <3>3, <3>5 DEF Range
      <3>9. p # "destination error" => p \notin Range(t)
        <4>1. SUFFICES ASSUME p # "destination error", NEW i \in DOMAIN t, t[i] = p
                       PROVE  FALSE
          BY DEF Range
        <4>2. from(i) \in DOMAIN s /\ from(i) # k /\ s[from(i)] = p /\ k \in DOMAIN s /\ s[k] = p
          BY <1>1, <3>1, <3>3, <4>1
        <4>3. QED
          BY <4>1, <4>2 DEF Once
      <3>10. QED
        BY <3>6, <3>7, <3>8, <3>9
    <2>3. QED
      BY <2>1, <2>2
  <1>6. QED
    BY <1>2, <1>5 DEF t

-----------------------------------------------------------------------------
(***************************************************************************)
(* The stack of pages                                                      *)
(***************************************************************************)

\* ScreenOK but for addingDestination, which some handlers set a step before or
\* after the page.
Stacked(u) ==
    /\ u \in Screens
    /\ u.focus \in Range(u.pages) \union {"table", "main", "no destinations"}
    /\ Once(u.pages)

LEMMA ScreenStacked ==
    ASSUME NEW u
    PROVE  ScreenOK(u) <=> Stacked(u) /\ (u.addingDestination <=> HasPage(u, "add destination"))
  BY DEF ScreenOK, Stacked, HasPage, Once

\* The front page of a stack is one of its pages.
LEMMA RefocusedStack ==
    ASSUME NEW u \in Screens, Once(u.pages)
    PROVE  /\ Stacked(Refocused(u)) /\ HasFocus(Refocused(u))
           /\ Refocused(u).pages = u.pages
           /\ Refocused(u).addingDestination = u.addingDestination
  <1>1. u.pages \in Seq(Modals)
    BY DEF Screens
  <1>2. u.pages # <<>> => Last(u.pages) \in Range(u.pages) /\ Last(u.pages) \in Modals
    BY <1>1, LastEntry
  <1>3. /\ FrontPage(u) \in Modals \union {"table", "main", "no destinations"}
        /\ FrontPage(u) \in Range(u.pages) \union {"table", "main", "no destinations"}
    BY <1>2 DEF FrontPage
  <1>4. /\ Refocused(u) \in Screens
        /\ Refocused(u).focus = FrontPage(u)
        /\ Refocused(u).pages = u.pages
        /\ Refocused(u).overlay = u.overlay
        /\ Refocused(u).addingDestination = u.addingDestination
    BY <1>3 DEF Refocused, Screens
  <1>5. FrontPage(Refocused(u)) = FrontPage(u)
    BY <1>4 DEF FrontPage
  <1>6. QED
    BY <1>3, <1>4, <1>5 DEF Stacked, HasFocus

\* A page comes on top of the others.
LEMMA AddPageStack ==
    ASSUME NEW u, Stacked(u), NEW p \in Modals, ~HasPage(u, p) \/ p = "destination error"
    PROVE  /\ Stacked(AddPage(u, p)) /\ HasFocus(AddPage(u, p))
           /\ AddPage(u, p).addingDestination = u.addingDestination
           /\ \A q : HasPage(AddPage(u, p), q) <=> HasPage(u, q) \/ q = p
  <1> DEFINE t == Append(u.pages, p)
             v == [u EXCEPT !.pages = t]
  <1>1. u.pages \in Seq(Modals) /\ Once(u.pages)
    BY DEF Stacked, Screens
  <1>2. /\ t \in Seq(Modals) /\ (p \notin Range(u.pages) \/ p = "destination error" => Once(t))
        /\ \A q : q \in Range(t) <=> q \in Range(u.pages) \/ q = p
    BY <1>1, AppendOnce DEF HasPage
  <1>3. AddPage(u, p) = Refocused(v)
    BY DEF AddPage
  <1> HIDE DEF t
  <1>4. v \in Screens /\ v.pages = t /\ v.addingDestination = u.addingDestination
    BY <1>2 DEF Stacked, Screens
  <1> HIDE DEF v
  <1>5. QED
    BY <1>2, <1>3, <1>4, RefocusedStack DEF HasPage

\* A page is taken out of the stack, wherever it is; only the errors of streams
\* may leave another one of their name.
LEMMA RemovePageStack ==
    ASSUME NEW u, Stacked(u), NEW p
    PROVE  /\ Stacked(RemovePage(u, p)) /\ HasFocus(RemovePage(u, p))
           /\ RemovePage(u, p).addingDestination = u.addingDestination
           /\ \A q : HasPage(RemovePage(u, p), q) => HasPage(u, q)
           /\ \A q : q # p /\ HasPage(u, q) => HasPage(RemovePage(u, p), q)
           /\ p # "destination error" => ~HasPage(RemovePage(u, p), p)
  <1> DEFINE t == Reverse(RemoveFirst(Reverse(u.pages), p))
             v == [u EXCEPT !.pages = t]
  <1>1. u.pages \in Seq(Modals) /\ Once(u.pages)
    BY DEF Stacked, Screens
  <1>2. /\ t \in Seq(Modals) /\ Once(t)
        /\ \A q \in Range(t) : q \in Range(u.pages)
        /\ \A q \in Range(u.pages) : q # p => q \in Range(t)
        /\ p # "destination error" => p \notin Range(t)
    BY <1>1, RemoveTopOnce
  <1>3. RemovePage(u, p) = Refocused(v)
    BY DEF RemovePage
  <1> HIDE DEF t
  <1>4. v \in Screens /\ v.pages = t /\ v.addingDestination = u.addingDestination
    BY <1>2 DEF Stacked, Screens
  <1> HIDE DEF v
  <1>5. QED
    BY <1>2, <1>3, <1>4, RefocusedStack DEF HasPage

-----------------------------------------------------------------------------
(***************************************************************************)
(* The handlers                                                            *)
(***************************************************************************)

\* v is a screen, with the focus on its front page if u has it there.
Keeps(u, v) == ScreenOK(v) /\ (HasFocus(u) => HasFocus(v))

\* What is not about pages or focus may change.
LEMMA SamePages ==
    ASSUME NEW u, ScreenOK(u), NEW v \in Screens, v.pages = u.pages, v.focus = u.focus,
           v.addingDestination = u.addingDestination
    PROVE  Keeps(u, v)
  BY DEF Keeps, ScreenOK, HasFocus, modalVisible, FrontPage

LEMMA FocusTableScreen ==
    ASSUME NEW u, ScreenOK(u)
    PROVE  /\ ScreenOK(FocusTable(u))
           /\ FocusTable(u).pages = u.pages
  BY DEF ScreenOK, FocusTable, Screens

LEMMA SelectKeeps ==
    ASSUME NEW u, ScreenOK(u)
    PROVE  Keeps(u, Select(u)) /\ Select(u).pages = u.pages
  BY FocusTableScreen DEF Select, Keeps, HasFocus, modalVisible

LEMMA OverlayKeeps ==
    ASSUME NEW u, ScreenOK(u), NEW v \in {ShowNoDestinations(u), HideNoDestinations(u)}
    PROVE  Keeps(u, v) /\ v.pages = u.pages
  <1> DEFINE w(o) == [u EXCEPT !.overlay = o]
  <1>1. PICK o \in BOOLEAN : v = Refocused(w(o))
    BY DEF ShowNoDestinations, HideNoDestinations
  <1>2. w(o) \in Screens /\ w(o).pages = u.pages /\ w(o).addingDestination = u.addingDestination
    BY DEF ScreenOK, Screens
  <1> HIDE DEF w
  <1>3. Once(w(o).pages)
    BY <1>2 DEF ScreenOK, Once
  <1>4. QED
    BY <1>1, <1>2, <1>3, RefocusedStack, ScreenStacked DEF Keeps, HasPage

\* A page other than the form for a new destination comes on top.
LEMMA OtherPageKeeps ==
    ASSUME NEW u, ScreenOK(u), NEW p \in Modals \ {"add destination"},
           ~HasPage(u, p) \/ p = "destination error"
    PROVE  Keeps(u, AddPage(u, p))
  <1>1. Stacked(u) /\ (u.addingDestination <=> HasPage(u, "add destination"))
    BY ScreenStacked
  <1>2. QED
    BY <1>1, AddPageStack, ScreenStacked DEF Keeps

LEMMA showModalKeeps ==
    ASSUME NEW u, ScreenOK(u), NEW p \in Modals \ {"add destination"}
    PROVE  Keeps(u, showModal(u, p))
  BY OtherPageKeeps DEF showModal, Keeps

\* ... and goes.
LEMMA OtherPageGoes ==
    ASSUME NEW u, ScreenOK(u), NEW p \in Modals \ {"add destination"}
    PROVE  /\ ScreenOK(RemovePage(u, p)) /\ HasFocus(RemovePage(u, p))
           /\ p # "destination error" => ~HasPage(RemovePage(u, p), p)
  <1>1. Stacked(u) /\ (u.addingDestination <=> HasPage(u, "add destination"))
    BY ScreenStacked
  <1>2. HasPage(RemovePage(u, p), "add destination") <=> HasPage(u, "add destination")
    BY <1>1, RemovePageStack
  <1>3. QED
    BY <1>1, <1>2, RemovePageStack, ScreenStacked

LEMMA closeAddKeeps ==
    ASSUME NEW u, ScreenOK(u)
    PROVE  Keeps(u, closeAddDestinationForm(u))
  <1> DEFINE w == [u EXCEPT !.addingDestination = FALSE]
             v == RemovePage(w, "add destination")
  <1>1. Stacked(w) /\ w.addingDestination = FALSE
    BY DEF ScreenOK, Stacked, Screens, Once
  <1> HIDE DEF w
  <1>2. ScreenOK(v) /\ HasFocus(v)
    <2>1. /\ Stacked(v) /\ HasFocus(v) /\ v.addingDestination = FALSE
          /\ ~HasPage(v, "add destination")
      BY <1>1, RemovePageStack
    <2>2. QED
      BY <2>1, ScreenStacked
  <1>3. closeAddDestinationForm(u) = IF u.hasDestinations THEN v ELSE ShowNoDestinations(v)
    BY DEF closeAddDestinationForm, w
  <1> HIDE DEF v
  <1>4. QED
    BY <1>2, <1>3, OverlayKeeps DEF Keeps

LEMMA closeUpdateKeeps ==
    ASSUME NEW u, ScreenOK(u)
    PROVE  Keeps(u, closeUpdateDestinationForm(u))
  <1> DEFINE v == RemovePage(u, "update destination")
             w == [v EXCEPT !.target = None]
  <1>1. ScreenOK(v) /\ HasFocus(v)
    BY OtherPageGoes DEF Modals, Forms
  <1> HIDE DEF v
  <1>2. /\ w \in Screens /\ w.pages = v.pages /\ w.focus = v.focus
        /\ w.addingDestination = v.addingDestination
    BY <1>1 DEF ScreenOK, Screens
  <1>3. Keeps(v, w)
    BY <1>1, <1>2, SamePages
  <1>4. closeUpdateDestinationForm(u) = IF HasPage(u, "update destination") THEN w ELSE v
    BY DEF closeUpdateDestinationForm, v
  <1>5. QED
    BY <1>1, <1>3, <1>4 DEF Keeps

\* The end of a pull: the table may get the focus under another page.
LEMMA updatePullProgressScreen ==
    ASSUME NEW u, ScreenOK(u), NEW e
    PROVE  LET v == updatePullProgress(u, e) IN
           /\ ScreenOK(v)
           /\ \/ Keeps(u, v)
              \/ HasPage(u, "pull progress") /\ ~HasPage(v, "pull progress")
  <1> "pull progress" \in Modals \ {"add destination"}
    BY DEF Modals, Forms
  <1> DEFINE v == updatePullProgress(u, e)
  <1>1. CASE /\ \A d \in Range(e.list) : e.containers[d] # "pulling"
             /\ HasPage(u, "pull progress")
    <2> DEFINE w == RemovePage(u, "pull progress")
    <2>1. v = FocusTable(w)
      BY <1>1 DEF updatePullProgress, hideModal
    <2>2. ScreenOK(w) /\ ~HasPage(w, "pull progress")
      BY OtherPageGoes
    <2> HIDE DEF w
    <2>3. ScreenOK(FocusTable(w)) /\ ~HasPage(FocusTable(w), "pull progress")
      BY <2>2, FocusTableScreen DEF HasPage
    <2>4. QED
      BY <1>1, <2>1, <2>3
  <1>2. CASE /\ ~HasPage(u, "pull progress")
             /\ ~\A d \in Range(e.list) : e.containers[d] # "pulling"
    BY <1>2, OtherPageKeeps DEF updatePullProgress, Keeps
  <1>3. CASE v = u
    BY <1>3 DEF Keeps
  <1>4. QED
    BY <1>1, <1>2, <1>3 DEF updatePullProgress, hideModal

\* A state redraws the table, and the progress of pulls comes or goes.
LEMMA handleAppStateChangedScreen ==
    ASSUME NEW u, ScreenOK(u), NEW e \in Events
    PROVE  LET v == handleAppStateChanged(u, e) IN
           /\ ScreenOK(v)
           /\ \/ Keeps(u, v)
              \/ HasPage(u, "pull progress") /\ ~HasPage(v, "pull progress")
  <1> DEFINE v == updatePullProgress(u, e)
             states == [d \in Destinations |->
                         IF d \in Range(e.list) THEN StartStateOf(e.containers[d]) ELSE v.startState[d]]
             w == [v EXCEPT !.startState = states, !.hasDestinations = e.list # <<>>]
             x == IF e.list = <<>> /\ ~w.addingDestination THEN ShowNoDestinations(w) ELSE w
             y == [x EXCEPT !.rows = e.list]
  <1>1. /\ ScreenOK(v)
        /\ \/ Keeps(u, v)
           \/ HasPage(u, "pull progress") /\ ~HasPage(v, "pull progress")
    BY updatePullProgressScreen
  <1>2. handleAppStateChanged(u, e) = y
    BY DEF handleAppStateChanged, redrawFromState
  <1> HIDE DEF v
  <1>3. states \in [Destinations -> StartStates]
    <2>1. v.startState \in [Destinations -> StartStates]
      BY <1>1 DEF ScreenOK, Screens
    <2>2. \A c : StartStateOf(c) \in StartStates
      BY DEF StartStateOf, StartStates
    <2>3. QED
      BY <2>1, <2>2
  <1> HIDE DEF states
  <1>4. /\ w \in Screens /\ w.pages = v.pages /\ w.focus = v.focus
        /\ w.addingDestination = v.addingDestination
    BY <1>1, <1>3 DEF ScreenOK, Screens
  <1> HIDE DEF w
  <1>5. Keeps(v, w)
    BY <1>1, <1>4, SamePages
  <1>6. Keeps(w, x) /\ x.pages = w.pages
    BY <1>5, OverlayKeeps DEF Keeps
  <1> HIDE DEF x
  <1>7. /\ y \in Screens /\ y.pages = x.pages /\ y.focus = x.focus
        /\ y.addingDestination = x.addingDestination
    BY <1>6 DEF Keeps, ScreenOK, Screens, Events
  <1> HIDE DEF y
  <1>8. Keeps(x, y)
    BY <1>6, <1>7, SamePages DEF Keeps
  <1>9. QED
    BY <1>1, <1>2, <1>4, <1>5, <1>6, <1>7, <1>8 DEF Keeps, HasPage

LEMMA handleDestinationAddedKeeps ==
    ASSUME NEW u, ScreenOK(u)
    PROVE  Keeps(u, handleDestinationAdded(u))
  <1> DEFINE v == [u EXCEPT !.hasDestinations = TRUE]
             w == HideNoDestinations(v)
             x == closeAddDestinationForm(w)
  <1>1. Keeps(u, v)
    <2>1. /\ v \in Screens /\ v.pages = u.pages /\ v.focus = u.focus
          /\ v.addingDestination = u.addingDestination
      BY DEF ScreenOK, Screens
    <2>2. QED
      BY <2>1, SamePages
  <1> HIDE DEF v
  <1>2. Keeps(v, w)
    BY <1>1, OverlayKeeps DEF Keeps
  <1> HIDE DEF w
  <1>3. Keeps(w, x)
    BY <1>2, closeAddKeeps DEF Keeps
  <1> HIDE DEF x
  <1>4. Keeps(x, Select(x))
    BY <1>3, SelectKeeps DEF Keeps
  <1>5. handleDestinationAdded(u) = Select(x)
    BY DEF handleDestinationAdded, v, w, x
  <1>6. QED
    BY <1>1, <1>2, <1>3, <1>4, <1>5 DEF Keeps

LEMMA handleDestinationUpdatedKeeps ==
    ASSUME NEW u, ScreenOK(u)
    PROVE  Keeps(u, handleDestinationUpdated(u))
  <1>1. Keeps(u, closeUpdateDestinationForm(u))
    BY closeUpdateKeeps
  <1>2. Keeps(closeUpdateDestinationForm(u), Select(closeUpdateDestinationForm(u)))
    BY <1>1, SelectKeeps DEF Keeps
  <1>3. QED
    BY <1>1, <1>2 DEF Keeps, handleDestinationUpdated

LEMMA handleDestinationStreamExitedKeeps ==
    ASSUME NEW u, ScreenOK(u), NEW e \in Events
    PROVE  Keeps(u, handleDestinationStreamExited(u, e))
  <1> DEFINE v == [u EXCEPT !.startState[e.of] = "not started"]
  <1>1. Keeps(u, v)
    <2>1. /\ v \in Screens /\ v.pages = u.pages /\ v.focus = u.focus
          /\ v.addingDestination = u.addingDestination
      BY DEF ScreenOK, Screens, StartStates
    <2>2. QED
      BY <2>1, SamePages
  <1>2. handleDestinationStreamExited(u, e) = showModal(v, "destination error")
    BY DEF handleDestinationStreamExited
  <1> HIDE DEF v
  <1>3. Keeps(v, showModal(v, "destination error"))
    BY <1>1, showModalKeeps DEF Keeps, Modals, Forms
  <1>4. QED
    BY <1>1, <1>2, <1>3 DEF Keeps

\* What an event does to the screen.
LEMMA HandleScreen ==
    ASSUME NEW u, ScreenOK(u), NEW e \in Events
    PROVE  /\ ScreenOK(Handle(u, e))
           /\ \/ Keeps(u, Handle(u, e))
              \/ HasPage(u, "pull progress") /\ ~HasPage(Handle(u, e), "pull progress")
  <1>1. CASE e.kind = "state"
    BY <1>1, handleAppStateChangedScreen DEF Handle
  <1>2. CASE e.kind = "added"
    BY <1>2, handleDestinationAddedKeeps DEF Handle, Keeps
  <1>3. CASE e.kind = "updated"
    BY <1>3, handleDestinationUpdatedKeeps DEF Handle, Keeps
  <1>4. CASE e.kind = "removed"
    BY <1>4, SelectKeeps DEF Handle, Keeps
  <1>5. CASE e.kind = "stream exited"
    BY <1>5, handleDestinationStreamExitedKeeps DEF Handle, Keeps
  <1>6. CASE e.kind \in {"config failed", "start failed", "other instance", "fatal error"}
    <2>1. \A p \in {"config failed", "start failed", "startup check", "fatal error"} :
            p \in Modals \ {"add destination"}
      BY DEF Modals, Forms
    <2>2. \E p \in {"config failed", "start failed", "startup check", "fatal error"} :
            Handle(u, e) = showModal(u, p)
      BY <1>6 DEF Handle
    <2>3. QED
      BY <2>1, <2>2, showModalKeeps DEF Keeps
  <1>7. QED
    BY <1>1, <1>2, <1>3, <1>4, <1>5, <1>6 DEF Events, Kinds

-----------------------------------------------------------------------------
(***************************************************************************)
(* The keys                                                                *)
(***************************************************************************)

LEMMA TargetKeeps ==
    ASSUME NEW u, ScreenOK(u), NEW d \in Destinations \union {None}
    PROVE  Keeps(u, [u EXCEPT !.target = d]) /\ [u EXCEPT !.target = d].pages = u.pages
  <1> DEFINE v == [u EXCEPT !.target = d]
  <1>1. /\ v \in Screens /\ v.pages = u.pages /\ v.focus = u.focus
        /\ v.addingDestination = u.addingDestination
    BY DEF ScreenOK, Screens
  <1> HIDE DEF v
  <1>2. Keeps(u, v) /\ v.pages = u.pages
    BY <1>1, SamePages
  <1>3. QED
    BY <1>2 DEF v

\* The form for a new destination opens over the bare table.
LEMMA PressAddScreen ==
    ASSUME ScreenOK(ui), PressAdd
    PROVE  Keeps(ui, ui')
  <1> DEFINE v == [ui EXCEPT !.addingDestination = TRUE]
             w == [v EXCEPT !.overlay = FALSE]
  <1>1. /\ w \in Screens /\ w.pages = <<>> /\ w.addingDestination = TRUE
    BY DEF PressAdd, modalVisible, ScreenOK, Screens
  <1>2. HideNoDestinations(v) = Refocused(w)
    BY DEF HideNoDestinations
  <1> HIDE DEF w
  <1>3. Once(w.pages) /\ \A q : q \notin Range(w.pages)
    BY <1>1 DEF Once, Range
  <1>4. /\ Stacked(Refocused(w)) /\ Refocused(w).addingDestination = TRUE
        /\ ~HasPage(Refocused(w), "add destination")
    BY <1>1, <1>3, RefocusedStack DEF HasPage
  <1>5. ui' = AddPage(Refocused(w), "add destination")
    BY <1>2 DEF PressAdd
  <1>6. "add destination" \in Modals
    BY DEF Modals, Forms
  <1>7. /\ Stacked(ui') /\ HasFocus(ui') /\ ui'.addingDestination = TRUE
        /\ HasPage(ui', "add destination")
    BY <1>4, <1>5, <1>6, AddPageStack
  <1>8. QED
    BY <1>7, ScreenStacked DEF Keeps

LEMMA ClosedKeeps ==
    ASSUME ScreenOK(ui), NEW p \in Modals \ {"add destination"}
    PROVE  Keeps(ui, Closed(p))
  <1> DEFINE v == RemovePage(ui, p)
             w == [v EXCEPT !.target = IF p = "remove destination" THEN None ELSE @]
  <1>1. ScreenOK(v) /\ HasFocus(v)
    BY OtherPageGoes
  <1> HIDE DEF v
  <1>2. v.target \in Destinations \union {None}
    BY <1>1 DEF ScreenOK, Screens
  <1>3. Keeps(v, w)
    <2>1. PICK d \in Destinations \union {None} : w = [v EXCEPT !.target = d]
      BY <1>2
    <2>2. QED
      BY <1>1, <2>1, TargetKeeps
  <1>4. Closed(p) = Select(w)
    BY DEF Closed, v
  <1> HIDE DEF w
  <1>5. Keeps(w, Select(w))
    BY <1>3, SelectKeeps DEF Keeps
  <1>6. QED
    BY <1>1, <1>3, <1>4, <1>5 DEF Keeps

\* No key takes the focus from the front page.
LEMMA KeysKeep ==
    ASSUME TypeOK, Keys
    PROVE  Keeps(ui, ui')
  <1> ScreenOK(ui)
    BY DEF TypeOK
  <1> DEFINE Others == Modals \ {"add destination"}
  <1>0. \A p \in {"notice", "remove destination", "config failed", "start failed", "update destination",
                 "destination error", "quit", "startup check", "fatal error"} : p \in Others
    BY DEF Modals, Forms
  <1>1. CASE PressAdd
    BY <1>1, PressAddScreen
  <1>2. CASE PressNotice
    BY <1>0, <1>2, showModalKeeps DEF PressNotice
  <1>3. CASE PressCtrlC
    BY <1>0, <1>3, showModalKeeps DEF PressCtrlC
  <1>4. CASE SubmitForm
    BY <1>4 DEF SubmitForm, Keeps
  <1>5. CASE CancelForm
    <2>1. CASE ui' = Select(closeAddDestinationForm(ui))
      BY <2>1, closeAddKeeps, SelectKeeps DEF Keeps
    <2>2. CASE ui' = Select(closeUpdateDestinationForm(ui))
      BY <2>2, closeUpdateKeeps, SelectKeeps DEF Keeps
    <2>3. QED
      BY <1>5, <2>1, <2>2 DEF CancelForm
  <1>6. CASE Dismiss
    BY <1>0, <1>6, ClosedKeeps DEF Dismiss
  <1>7. CASE ConfirmRemove \/ AnswerStartupCheck \/ AnswerFatalError \/ ConfirmQuit
    BY <1>0, <1>7, ClosedKeeps DEF ConfirmRemove, AnswerStartupCheck, AnswerFatalError, ConfirmQuit
  <1>8. ASSUME NEW d \in Destinations, PressUpdate(d) PROVE Keeps(ui, ui')
    <2>1. CASE ui' = showModal(ui, "notice")
      BY <1>0, <2>1, showModalKeeps
    <2>2. CASE ui' = AddPage([ui EXCEPT !.target = d], "update destination")
      <3> DEFINE v == [ui EXCEPT !.target = d]
      <3>1. Keeps(ui, v) /\ v.pages = ui.pages
        BY TargetKeeps
      <3> HIDE DEF v
      <3>2. ~HasPage(v, "update destination")
        <4>1. v.pages = <<>>
          BY <1>8, <3>1 DEF PressUpdate, modalVisible
        <4>2. QED
          BY <4>1 DEF HasPage, Range
      <3>3. Keeps(v, AddPage(v, "update destination"))
        BY <1>0, <3>1, <3>2, OtherPageKeeps DEF Keeps
      <3>4. QED
        BY <2>2, <3>1, <3>3 DEF Keeps, v
    <2>3. QED
      BY <1>8, <2>1, <2>2 DEF PressUpdate
  <1>9. ASSUME NEW d \in Destinations, PressRemove(d) PROVE Keeps(ui, ui')
    <2> DEFINE v == [ui EXCEPT !.target = d]
    <2>1. Keeps(ui, v)
      BY TargetKeeps
    <2>2. ui' = showModal(v, "remove destination")
      BY <1>9 DEF PressRemove
    <2> HIDE DEF v
    <2>3. Keeps(v, showModal(v, "remove destination"))
      BY <1>0, <2>1, showModalKeeps DEF Keeps
    <2>4. QED
      BY <2>1, <2>2, <2>3 DEF Keeps
  <1>10. ASSUME NEW d \in Destinations, Toggle(d) PROVE Keeps(ui, ui')
    <2>1. CASE ui' = [ui EXCEPT !.startState[d] = "starting"]
      <3>1. /\ ui' \in Screens /\ ui'.pages = ui.pages /\ ui'.focus = ui.focus
            /\ ui'.addingDestination = ui.addingDestination
        BY <2>1 DEF ScreenOK, Screens, StartStates
      <3>2. QED
        BY <3>1, SamePages
    <2>2. CASE ui' = ui
      BY <2>2 DEF Keeps
    <2>3. QED
      BY <1>10, <2>1, <2>2 DEF Toggle
  <1>11. QED
    BY <1>1, <1>2, <1>3, <1>4, <1>5, <1>6, <1>7, <1>8, <1>9, <1>10 DEF Keys

-----------------------------------------------------------------------------
(***************************************************************************)
(* The buses and the server                                                *)
(***************************************************************************)

LEMMA EventTypes ==
    /\ \A kind \in Kinds : Event(kind) \in Events
    /\ \A s \in Servers : State(s) \in Events
    /\ \A d \in Destinations : StreamExited(d) \in Events
  <1>1. <<>> \in Seq(Destinations) /\ "none" \in Containers
    BY DEF Containers
  <1>2. \A kind \in Kinds : Event(kind) \in Events
    BY <1>1 DEF Event, Events
  <1>3. "state" \in Kinds /\ "stream exited" \in Kinds
    BY DEF Kinds
  <1>4. ASSUME NEW s \in Servers PROVE State(s) \in Events
    <2> DEFINE e == Event("state")
    <2>1. e \in Events
      BY <1>2, <1>3
    <2>2. State(s) = [e EXCEPT !.list = s.list, !.containers = s.containers]
      BY DEF State
    <2> HIDE DEF e
    <2>3. QED
      BY <2>1, <2>2 DEF Events, Servers
  <1>5. ASSUME NEW d \in Destinations PROVE StreamExited(d) \in Events
    <2> DEFINE e == Event("stream exited")
    <2>1. e \in Events
      BY <1>2, <1>3
    <2>2. StreamExited(d) = [e EXCEPT !.of = d]
      BY DEF StreamExited
    <2> HIDE DEF e
    <2>3. QED
      BY <2>1, <2>2 DEF Events
  <1>6. QED
    BY <1>2, <1>4, <1>5

\* The server's bus drops what does not fit.
LEMMA EmitType ==
    ASSUME stream \in Seq(Events), NEW es \in Seq(Events), es # <<>>, Emit(es)
    PROVE  stream' \in Seq(Events) /\ Len(stream') <= StreamSize
  <1> USE TerminalClientAssumption
  <1> DEFINE s == stream \o es
             m == Min({StreamSize, Len(s)})
  <1>1. s \in Seq(Events) /\ Len(s) \in Nat \ {0} /\ \A i \in 1 .. Len(s) : s[i] \in Events
    OBVIOUS
  <1>2. stream' = SubSeq(s, 1, m)
    BY DEF Emit
  <1> HIDE DEF s
  <1>3. m \in 1 .. Len(s) /\ m <= StreamSize
    <2>1. {StreamSize, Len(s)} \in SUBSET (1 .. (StreamSize + Len(s))) /\ {StreamSize, Len(s)} # {}
      BY <1>1
    <2>2. StreamSize + Len(s) \in Nat
      BY <1>1
    <2>3. m \in {StreamSize, Len(s)} /\ m <= StreamSize /\ m <= Len(s)
      BY <2>1, <2>2, FirstIndex
    <2>4. QED
      BY <1>1, <2>3
  <1> HIDE DEF m
  <1>4. SubSeq(s, 1, m) \in Seq(Events) /\ Len(SubSeq(s, 1, m)) = m
    BY <1>1, <1>3
  <1>5. QED
    BY <1>2, <1>3, <1>4

LEMMA ChangedType ==
    ASSUME TypeOK, NEW s \in Servers, NEW kind \in Kinds, Changed(s, kind)
    PROVE  server' \in Servers /\ stream' \in Seq(Events) /\ Len(stream') <= StreamSize
  <1>1. State(s) \in Events /\ Event(kind) \in Events
    BY EventTypes
  <1>2. <<State(s), Event(kind)>> \in Seq(Events) /\ <<State(s), Event(kind)>> # <<>>
    BY <1>1
  <1>3. QED
    BY <1>2, EmitType DEF Changed, TypeOK

LEMMA AnswerType ==
    ASSUME TypeOK, NEW e \in Events, Emit(<<e>>)
    PROVE  stream' \in Seq(Events) /\ Len(stream') <= StreamSize
  <1>1. <<e>> \in Seq(Events) /\ <<e>> # <<>>
    OBVIOUS
  <1>2. QED
    BY <1>1, EmitType DEF TypeOK

\* What the server's configuration becomes.
LEMMA ChangesType ==
    ASSUME TypeOK, NEW d, Adds \/ Updates(d) \/ Removes(d)
    PROVE  server' \in Servers /\ stream' \in Seq(Events) /\ Len(stream') <= StreamSize
  <1> "added" \in Kinds /\ "updated" \in Kinds /\ "removed" \in Kinds
    BY DEF Kinds
  <1> server \in Servers
    BY DEF TypeOK
  <1>1. CASE Adds
    <2>1. PICK a \in Destinations : Changed([server EXCEPT !.list = Append(@, a)], "added")
      BY <1>1 DEF Adds
    <2>2. [server EXCEPT !.list = Append(@, a)] \in Servers
      <3>1. Append(server.list, a) \in Seq(Destinations)
        BY DEF Servers
      <3>2. QED
        BY <3>1 DEF Servers
    <2>3. QED
      BY <2>1, <2>2, ChangedType
  <1>2. CASE Updates(d)
    BY <1>2, ChangedType DEF Updates
  <1>3. CASE Removes(d)
    <2>1. RemoveFirst(server.list, d) \in Seq(Destinations)
      BY RemoveFirstEntries DEF Servers
    <2>2. [server EXCEPT !.list = RemoveFirst(@, d), !.containers[d] = "none"] \in Servers
      BY <2>1 DEF Servers, Containers
    <2>3. QED
      BY <1>3, <2>2, ChangedType DEF Removes
  <1>4. QED
    BY <1>1, <1>2, <1>3

-----------------------------------------------------------------------------
(***************************************************************************)
(* Types and focus                                                         *)
(***************************************************************************)

LEMMA InitTypes == Init => TypeOK
  <1> SUFFICES ASSUME Init PROVE TypeOK
    OBVIOUS
  <1> USE TerminalClientAssumption
  <1>1. server \in Servers
    <2>1. ASSUME NEW l \in Lists PROVE l \in Seq(Destinations)
      <3>1. PICK m \in 0 .. 2 : l \in [1 .. m -> Destinations]
        BY DEF Lists, SeqOf
      <3>2. QED
        BY <3>1
    <2>2. PICK l \in Lists :
            server = [list |-> l, containers |-> [d \in Destinations |-> "none"], runs |-> {}]
      BY DEF Init
    <2>3. [d \in Destinations |-> "none"] \in [Destinations -> Containers]
      BY DEF Containers
    <2>4. QED
      BY <2>1, <2>2, <2>3 DEF Servers
  <1>2. ScreenOK(ui)
    <2>1. [d \in Destinations |-> "not started"] \in [Destinations -> StartStates]
      BY DEF StartStates
    <2>2. /\ ui.pages = <<>> /\ ui.focus = "table" /\ ui.addingDestination = FALSE
          /\ ui \in Screens
      BY <2>1, EmptyEntries DEF Init, Screens
    <2>3. QED
      BY <2>2 DEF ScreenOK, Range
  <1>3. /\ commands \in Seq(Commands) /\ stream \in Seq(Events) /\ eventC \in Seq(Events)
        /\ Len(stream) <= StreamSize /\ Len(eventC) <= BusSize /\ changes \in 0 .. MaxChanges
    <2>1. commands = <<>> /\ stream = <<>> /\ eventC = <<>> /\ changes = 0
      BY DEF Init
    <2>2. QED
      BY <2>1, EmptyEntries
  <1>4. QED
    BY <1>1, <1>2, <1>3 DEF Init, TypeOK

LEMMA ChangeType ==
    ASSUME TypeOK, Change
    PROVE  changes' \in 0 .. MaxChanges
  <1>1. changes \in 0 .. MaxChanges /\ changes < MaxChanges /\ changes' = changes + 1
    BY DEF TypeOK, Change
  <1>2. QED
    BY <1>1, TerminalClientAssumption

LEMMA DispatchType ==
    ASSUME TypeOK, NEW kind \in {"add", "update", "remove", "start", "stop", "close other", "kill"},
           NEW d \in Destinations \union {None}, Dispatch(kind, d)
    PROVE  commands' \in Seq(Commands) /\ changes' \in 0 .. MaxChanges
  <1> DEFINE c == [kind |-> kind, of |-> d]
  <1>1. c \in Commands
    BY DEF Commands
  <1>2. changes' \in 0 .. MaxChanges
    BY ChangeType DEF Dispatch
  <1>3. commands \in Seq(Commands)
    BY DEF TypeOK
  <1>4. commands' = commands \/ commands' = Append(commands, c)
    BY DEF Dispatch
  <1> HIDE DEF c
  <1>5. Append(commands, c) \in Seq(Commands)
    BY <1>1, <1>3, AppendEntries
  <1>6. QED
    BY <1>2, <1>3, <1>4, <1>5

LEMMA KeysTypes ==
    ASSUME TypeOK, Keys
    PROVE  TypeOK'
  <1>1. ScreenOK(ui')
    BY KeysKeep DEF Keeps
  <1>2. ui.target \in Destinations \union {None}
    BY DEF TypeOK, ScreenOK, Screens
  <1>3. commands' \in Seq(Commands) /\ changes' \in 0 .. MaxChanges
    <2>1. CASE UNCHANGED <<commands, changes>>
      BY <2>1 DEF TypeOK
    <2>2. ASSUME NEW kind \in {"add", "update", "remove", "start", "stop", "close other", "kill"},
                 NEW d \in Destinations \union {None}, Dispatch(kind, d)
          PROVE  commands' \in Seq(Commands) /\ changes' \in 0 .. MaxChanges
      BY <2>2, DispatchType
    <2>3. QED
      BY <1>2, <2>1, <2>2 DEF Keys, PressAdd, PressNotice, PressCtrlC, SubmitForm, CancelForm, Dismiss,
         ConfirmRemove, AnswerStartupCheck, AnswerFatalError, ConfirmQuit, PressUpdate, PressRemove,
         Toggle, NoDispatch
  <1>4. UNCHANGED <<server, connected, stream, receiving, cancelled, run, eventC, halfClosed>>
    BY DEF Keys, PressAdd, PressNotice, PressCtrlC, SubmitForm, CancelForm, Dismiss,
       ConfirmRemove, AnswerStartupCheck, AnswerFatalError, ConfirmQuit, PressUpdate, PressRemove,
       Toggle, OfUI, client
  <1>5. loop' \in {"not started", "running", "ended"}
    BY DEF Keys, PressAdd, PressNotice, PressCtrlC, SubmitForm, CancelForm, Dismiss,
       ConfirmRemove, AnswerStartupCheck, AnswerFatalError, ConfirmQuit, PressUpdate, PressRemove,
       Toggle, OfUI, client, TypeOK
  <1>6. QED
    BY <1>1, <1>3, <1>4, <1>5 DEF TypeOK

\* Of the client's goroutines only the loop touches the screen.
LEMMA GoroutinesTypes ==
    ASSUME TypeOK, Goroutines \/ Interrupt \/ Disconnect
    PROVE  TypeOK' /\ (ui' # ui => LoopRuns)
  <1> USE TerminalClientAssumption
  <1>1. CASE RunRegisters
    BY <1>1 DEF RunRegisters, TypeOK
  <1>0. /\ stream \in Seq(Events) /\ Len(stream) <= StreamSize
        /\ eventC \in Seq(Events) /\ Len(eventC) <= BusSize
        /\ BusSize \in Nat /\ StreamSize \in Nat
    BY DEF TypeOK
  <1>2. CASE Receive
    <2>1. /\ stream # <<>> /\ stream' = Tail(stream)
          /\ eventC' = eventC \/ (Len(eventC) < BusSize /\ eventC' = Append(eventC, Head(stream)))
      BY <1>2 DEF Receive
    <2>2. Head(stream) \in Events /\ stream' \in Seq(Events) /\ Len(stream') <= StreamSize
      BY <1>0, <2>1, TailEntries
    <2>3. CASE eventC' = eventC
      BY <1>0, <1>2, <2>2, <2>3 DEF Receive, TypeOK
    <2>4. CASE Len(eventC) < BusSize /\ eventC' = Append(eventC, Head(stream))
      <3>1. eventC' \in Seq(Events) /\ Len(eventC') <= BusSize
        BY <1>0, <2>2, <2>4
      <3>2. QED
        BY <1>2, <2>2, <3>1 DEF Receive, TypeOK
    <2>5. QED
      BY <2>1, <2>3, <2>4
  <1>3. CASE ReceiveFails
    <2>1. stream' \in Seq(Events) /\ Len(stream') <= StreamSize
      BY <1>0, <1>3, EmptyEntries DEF ReceiveFails
    <2>2. QED
      BY <1>3, <2>1 DEF ReceiveFails, TypeOK
  <1>4. CASE RunQueues
    <2>1. eventC # <<>> /\ eventC' = Tail(eventC) /\ run' = [at |-> "queued", event |-> Head(eventC)]
      BY <1>4 DEF RunQueues
    <2>2. Head(eventC) \in Events /\ eventC' \in Seq(Events) /\ Len(eventC') <= BusSize
      BY <1>0, <2>1, TailEntries
    <2>3. /\ run' \in [at : {"starting", "select", "queued", "returned"}, event : Events \union {None}]
          /\ run'.event \in Events
      BY <2>1, <2>2
    <2>4. QED
      BY <1>4, <2>2, <2>3 DEF RunQueues, TypeOK
  <1>5. CASE LoopRuns
    <2>1. ScreenOK(ui')
      BY <1>5, HandleScreen DEF LoopRuns, TypeOK
    <2>2. /\ run' \in [at : {"starting", "select", "queued", "returned"}, event : Events \union {None}]
          /\ run'.at # "queued"
      BY <1>5 DEF LoopRuns
    <2>3. QED
      BY <1>5, <2>1, <2>2 DEF LoopRuns, TypeOK
  <1>6. CASE RunReturns
    <2>1. eventC' \in Seq(Events) /\ Len(eventC') <= BusSize
      BY <1>0, <1>6, EmptyEntries DEF RunReturns
    <2>2. /\ run' \in [at : {"starting", "select", "queued", "returned"}, event : Events \union {None}]
          /\ run'.at # "queued"
      BY <1>6 DEF RunReturns, TypeOK
    <2>3. QED
      BY <1>6, <2>1, <2>2 DEF RunReturns, TypeOK
  <1>12. <<>> \in Seq(Commands)
    BY EmptyEntries
  <1>7. CASE CloseRequest
    BY <1>7, <1>12 DEF CloseRequest, TypeOK, client
  <1>8. CASE CloseUI
    BY <1>8 DEF CloseUI, TypeOK
  <1>9. CASE Interrupt
    BY <1>9 DEF Interrupt, TypeOK
  <1>10. CASE Disconnect
    BY <1>10, <1>12 DEF Disconnect, TypeOK, client
  <1>11. QED
    BY <1>1, <1>2, <1>3, <1>4, <1>5, <1>6, <1>7, <1>8, <1>9, <1>10 DEF Goroutines

\* The server does not touch the screen.
LEMMA ServerTypes ==
    ASSUME TypeOK, Server
    PROVE  TypeOK' /\ UNCHANGED <<ui, client>>
  <1> USE TerminalClientAssumption
  <1> DEFINE ToClient == server' \in Servers /\ stream' \in Seq(Events) /\ Len(stream') <= StreamSize
  <1>1. ASSUME ToClient, commands' \in Seq(Commands), changes' \in 0 .. MaxChanges,
               connected' \in BOOLEAN, UNCHANGED <<client, ui>>
        PROVE  TypeOK'
    BY <1>1 DEF TypeOK, client
  <1>2. Change => changes' \in 0 .. MaxChanges
    BY ChangeType
  <1>3. Silent => ToClient
    BY DEF Silent, TypeOK
  <1>4. ASSUME NEW e \in Events, Emit(<<e>>), server' \in Servers PROVE ToClient
    BY <1>4, AnswerType
  <1>5. ASSUME NEW kind \in Kinds, Answers(kind) PROVE ToClient
    BY <1>4, <1>5, EventTypes DEF Answers, TypeOK
  <1>6. ASSUME NEW d, Adds \/ Updates(d) \/ Removes(d) PROVE ToClient
    BY <1>6, ChangesType
  <1> "config failed" \in Kinds /\ "start failed" \in Kinds /\ "other instance" \in Kinds
      /\ "fatal error" \in Kinds
    BY DEF Kinds
  <1>7. CASE ServerHandles
    <2>0. commands \in Seq(Commands) /\ commands # <<>>
      BY <1>7 DEF ServerHandles, TypeOK
    <2>1. Tail(commands) \in Seq(Commands)
      BY <2>0, TailEntries
    <2> DEFINE c == Head(commands)
    <2>2. ToClient
      <3>1. ASSUME c.of \in Range(server.list),
                   server' = [server EXCEPT !.runs = @ \union {c.of}], UNCHANGED stream
            PROVE  ToClient
        <4>1. c.of \in Destinations
          <5>1. server.list \in Seq(Destinations)
            BY DEF TypeOK, Servers
          <5>2. QED
            BY <3>1, <5>1, RangeEntries
        <4>2. QED
          BY <3>1, <4>1 DEF TypeOK, Servers
      <3>2. QED
        BY <1>3, <1>5, <1>6, <1>7, <3>1 DEF ServerHandles
    <2>3. QED
      BY <1>1, <1>7, <2>1, <2>2 DEF ServerHandles, TypeOK
  <1>8. CASE OtherClientChanges
    <2>1. ToClient
      BY <1>6, <1>8 DEF OtherClientChanges
    <2>2. QED
      BY <1>1, <1>2, <1>8, <2>1 DEF OtherClientChanges, TypeOK
  <1>9. CASE ServerWarns
    <2>1. ToClient
      BY <1>5, <1>9 DEF ServerWarns
    <2>2. QED
      BY <1>1, <1>2, <1>9, <2>1 DEF ServerWarns, TypeOK
  <1>10. CASE Tick
    <2>1. ToClient
      BY <1>4, <1>10, EventTypes DEF Tick, TypeOK
    <2>2. QED
      BY <1>1, <1>10, <2>1 DEF Tick, TypeOK
  <1>11. ASSUME NEW d \in Destinations, ContainerChanges(d) PROVE TypeOK' /\ UNCHANGED <<ui, client>>
    <2>1. server' \in Servers
      <3>1. PICK c \in Containers : server' = [server EXCEPT !.containers[d] = c]
        BY <1>11 DEF ContainerChanges
      <3>2. server \in Servers
        BY DEF TypeOK
      <3>3. QED
        BY <3>1, <3>2 DEF Servers
    <2>2. ToClient
      BY <1>4, <1>11, <2>1, EventTypes DEF ContainerChanges
    <2>3. QED
      BY <1>1, <1>2, <1>11, <2>2 DEF ContainerChanges, TypeOK
  <1>12. ASSUME NEW d \in Destinations, StreamEnds(d) PROVE TypeOK' /\ UNCHANGED <<ui, client>>
    <2>1. server' \in Servers
      BY <1>12 DEF StreamEnds, TypeOK, Servers
    <2>2. ToClient
      BY <1>4, <1>12, <2>1, EventTypes DEF StreamEnds
    <2>3. QED
      BY <1>1, <1>2, <1>12, <2>2 DEF StreamEnds, TypeOK
  <1>14. CASE ServerEnds
    BY <1>14 DEF ServerEnds, TypeOK, client
  <1>13. QED
    BY <1>7, <1>8, <1>9, <1>10, <1>11, <1>12, <1>14 DEF Server

LEMMA NextTypes == TypeOK /\ [Next]_vars => TypeOK'
  BY KeysTypes, GoroutinesTypes, ServerTypes DEF Next, vars, client, TypeOK

\* Every variable keeps its type: whatever events and keys come in whatever
\* order, no form or question is open twice, the page that has the focus is
\* still there, and addingDestination says whether the form is open.
THEOREM TypeCorrect == Spec => []TypeOK
  <1>1. QED
    BY InitTypes, NextTypes, PTL DEF Spec

\* ui.Run that waits for a function queued on a loop that has ended waits for
\* good: the exception of ClientEnds is a goroutine that never returns.
THEOREM StuckForGood == Spec => [][Stuck => Stuck']_vars
  <1>1. Next /\ Stuck => Stuck'
    <2> SUFFICES ASSUME Next, Stuck PROVE run' = run /\ loop' = loop
      BY DEF Stuck
    <2>1. run.at = "queued" /\ loop = "ended"
      BY DEF Stuck
    <2>2. CASE Keys
      BY <2>1, <2>2 DEF Keys, Key, PressAdd, PressNotice, PressCtrlC, SubmitForm, CancelForm, Dismiss,
         ConfirmRemove, AnswerStartupCheck, AnswerFatalError, ConfirmQuit, PressUpdate, PressRemove,
         Toggle
    <2>3. CASE Goroutines
      BY <2>1, <2>3 DEF Goroutines, RunRegisters, Receive, ReceiveFails, RunQueues, LoopRuns, RunReturns,
         CloseRequest, CloseUI, client
    <2>4. CASE Server
      BY <2>4 DEF Server, ServerHandles, ServerEnds, OtherClientChanges, ServerWarns, Tick, ContainerChanges,
         StreamEnds, client
    <2>5. CASE Interrupt \/ Disconnect
      BY <2>5 DEF Interrupt, Disconnect, client
    <2>6. QED
      BY <2>2, <2>3, <2>4, <2>5 DEF Next
  <1>2. QED
    BY <1>1, PTL DEF Spec

\* Only the end of a pull takes the focus from the front page.
THEOREM FocusAlwaysFollows == Spec => FocusFollowsFront
  <1> DEFINE A == HasFocus(ui) => HasFocus(ui')
                    \/ (HasPage(ui, "pull progress") /\ ~HasPage(ui', "pull progress"))
  <1>1. TypeOK /\ [Next]_vars => [A]_vars
    <2> SUFFICES ASSUME TypeOK, Next PROVE A
      OBVIOUS
    <2>1. CASE Keys
      BY <2>1, KeysKeep DEF Keeps
    <2>2. CASE LoopRuns
      BY <2>2, HandleScreen DEF LoopRuns, Keeps, TypeOK
    <2>3. CASE ui' = ui
      BY <2>3
    <2>4. QED
      BY <2>1, <2>2, <2>3, GoroutinesTypes, ServerTypes DEF Next
  <1>2. QED
    BY <1>1, TypeCorrect, PTL DEF Spec, FocusFollowsFront
=============================================================================
