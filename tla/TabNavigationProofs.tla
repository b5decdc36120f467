------------------------ MODULE TabNavigationProofs ------------------------
(***************************************************************************)
(* Proofs about tabs and history, for any addresses and any limits.        *)
(*                                                                         *)
(* IInv ties the history of the engine, the load in progress, the          *)
(* snapshots of the tabs, the card and the tab request together;           *)
(* TabOwnsHistory is its case without a load. Whole adds what is true of   *)
(* a load and of a request until they end, and under it every step is a    *)
(* step of TabbedHistory over what is seen, or none.                       *)
(***************************************************************************)
EXTENDS TabNavigation, SequenceTheorems, TLAPS

-----------------------------------------------------------------------------
(***************************************************************************)
(* Histories.                                                              *)
(***************************************************************************)
\* The histories a place of the given size can hold, in the form the theorems
\* about sequences are in.
Fits(limit) == {h \in [entries : Seq(Urls), at : Nat] :
                  Len(h.entries) <= limit /\ h.at \in 1 .. Len(h.entries)}

\* The limits, as the proofs use them.
LEMMA Limits == /\ HistoryLimit \in Nat /\ HistoryLimit >= 1
                /\ SessionLimit \in Nat /\ SessionLimit >= 1
                /\ TabLimit \in Nat /\ TabLimit >= 1
                /\ HistoryLimit <= SessionLimit /\ NoPage \notin Urls
BY LimitsAssumption

\* A history, part by part.
LEMMA FitsParts ==
    ASSUME NEW limit, NEW h \in Fits(limit)
    PROVE  /\ h.entries \in Seq(Urls) /\ Len(h.entries) \in Nat
           /\ Len(h.entries) <= limit
           /\ h.at \in Nat /\ h.at >= 1 /\ h.at <= Len(h.entries)
           /\ h = [entries |-> h.entries, at |-> h.at]
           /\ UrlOf(h) \in Urls /\ DOMAIN h.entries = 1 .. Len(h.entries)
<1>1. /\ h.entries \in Seq(Urls) /\ h.at \in 1 .. Len(h.entries)
      /\ h.at \in Nat
      /\ Len(h.entries) <= limit /\ h = [entries |-> h.entries, at |-> h.at]
  BY DEF Fits
<1> DEFINE e == h.entries
           n == h.at
<1>2. Len(e) \in Nat /\ DOMAIN e = 1 .. Len(e)
  BY <1>1, LenProperties
<1>3. e[n] \in Urls
  BY <1>1, ElementOfSeq
<1> HIDE DEF e, n
<1>4. n \in Nat /\ n >= 1 /\ n <= Len(e)
  BY <1>1, <1>2 DEF e, n
<1> QED BY <1>1, <1>2, <1>3, <1>4 DEF UrlOf, e, n

LEMMA FitsMade ==
    ASSUME NEW limit, NEW e \in Seq(Urls), NEW n \in Nat,
           Len(e) <= limit, n >= 1, n <= Len(e)
    PROVE  [entries |-> e, at |-> n] \in Fits(limit)
<1>1. Len(e) \in Nat
  BY LenProperties
<1> QED BY <1>1 DEF Fits

\* They are the histories of the model's type invariant.
LEMMA FitsAreHistories ==
    ASSUME NEW limit \in Nat PROVE Fits(limit) \subseteq Histories(limit)
<1> SUFFICES ASSUME NEW h \in Fits(limit) PROVE h \in Histories(limit)
  OBVIOUS
<1>1. /\ h.entries \in Seq(Urls) /\ Len(h.entries) \in Nat
      /\ Len(h.entries) <= limit
      /\ h.at \in Nat /\ h.at >= 1 /\ h.at <= Len(h.entries)
      /\ h = [entries |-> h.entries, at |-> h.at]
  BY FitsParts
<1> DEFINE n == Len(h.entries)
<1>2. h.entries \in [1 .. n -> Urls]
  BY <1>1, LenProperties
<1> HIDE DEF n
<1>3. n \in 1 .. limit /\ h.at \in 1 .. limit /\ h.at <= n
  BY <1>1 DEF n
<1>4. h.entries \in UNION {[1 .. k -> Urls] : k \in 1 .. limit}
  BY <1>2, <1>3
<1> QED BY <1>1, <1>3, <1>4 DEF Histories, n

LEMMA WiderFits ==
    ASSUME NEW h \in Fits(HistoryLimit) PROVE h \in Fits(SessionLimit)
<1>1. Len(h.entries) \in Nat /\ Len(h.entries) <= HistoryLimit
  BY FitsParts
<1>2. Len(h.entries) <= SessionLimit
  BY <1>1, Limits
<1> QED BY <1>2 DEF Fits

LEMMA SingleFits ==
    ASSUME NEW u \in Urls, NEW limit \in Nat, limit >= 1
    PROVE  /\ Single(u) \in Fits(limit) /\ UrlOf(Single(u)) = u
<1>1. <<u>> \in Seq(Urls) /\ Len(<<u>>) = 1 /\ <<u>>[1] = u
  OBVIOUS
<1> DEFINE e == <<u>>
<1>2. Single(u) = [entries |-> e, at |-> 1]
  BY DEF Single
<1>3. e \in Seq(Urls) /\ Len(e) <= limit /\ 1 \in Nat /\ 1 >= 1
      /\ 1 <= Len(e) /\ e[1] = u
  BY <1>1
<1> HIDE DEF e
<1>4. [entries |-> e, at |-> 1] \in Fits(limit)
  BY <1>3, FitsMade
<1> QED BY <1>2, <1>3, <1>4 DEF UrlOf

LEMMA ReplacedFits ==
    ASSUME NEW limit, NEW h \in Fits(limit), NEW u \in Urls
    PROVE  /\ Replaced(h, u) \in Fits(limit) /\ UrlOf(Replaced(h, u)) = u
           /\ Replaced(h, u) = [entries |-> [h.entries EXCEPT ![h.at] = u],
                                at |-> h.at]
<1> DEFINE e == h.entries
           n == h.at
           f == [e EXCEPT ![n] = u]
<1>1. e \in Seq(Urls) /\ n \in 1 .. Len(e) /\ Len(e) <= limit /\ n \in Nat
      /\ n >= 1 /\ n <= Len(e) /\ h = [entries |-> e, at |-> n]
  BY FitsParts DEF Fits
<1>2. Replaced(h, u) = [entries |-> f, at |-> n]
  BY <1>1 DEF Replaced
<1> HIDE DEF e, n
<1>3. f \in Seq(Urls) /\ Len(f) = Len(e) /\ f[n] = u
  BY <1>1, ExceptSeq
<1> HIDE DEF f
<1>4. [entries |-> f, at |-> n] \in Fits(limit)
  BY <1>1, <1>3, FitsMade
<1> QED BY <1>2, <1>3, <1>4 DEF UrlOf, e, n, f

\* A new entry leaves a history that fits, with the cursor on it, also when
\* the oldest entry has to go.
LEMMA PushedFits ==
    ASSUME NEW h \in Fits(SessionLimit), NEW u \in Urls
    PROVE  Pushed(h, u) \in Fits(SessionLimit) /\ UrlOf(Pushed(h, u)) = u
<1> DEFINE e == h.entries
           n == h.at
           f == SubSeq(e, 1, n)
           kept == Append(f, u)
           over == IF Len(kept) > SessionLimit THEN 1 ELSE 0
           g == SubSeq(kept, 1 + over, Len(kept))
           m == Len(kept) - over
<1>1. e \in Seq(Urls) /\ Len(e) \in Nat /\ Len(e) <= SessionLimit
      /\ n \in Nat /\ n >= 1 /\ n <= Len(e)
  BY FitsParts
<1>2. Pushed(h, u) = [entries |-> g, at |-> m]
  BY DEF Pushed
<1> HIDE DEF e, n
<1>3. f \in Seq(Urls) /\ Len(f) = n
  <2>1. \A i \in 1 .. n : e[i] \in Urls
    BY <1>1, ElementOfSeq
  <2> QED BY <1>1, <2>1, SubSeqProperties
<1> HIDE DEF f
<1>4. kept \in Seq(Urls) /\ Len(kept) = n + 1 /\ kept[n + 1] = u
  BY <1>3, AppendProperties
<1> HIDE DEF kept
<1>5. over \in {0, 1} /\ m \in Nat /\ m >= 1 /\ m <= SessionLimit
      /\ m = n + 1 - over
  BY <1>1, <1>4, Limits
<1> HIDE DEF over, m
<1>6. g \in Seq(Urls) /\ Len(g) = m /\ g[m] = u
  <2>1. \A i \in 1 + over .. Len(kept) : kept[i] \in Urls
    BY <1>1, <1>4, <1>5, ElementOfSeq
  <2>2. 1 + over \in Int /\ Len(kept) \in Int /\ 1 + over <= Len(kept)
        /\ Len(kept) - (1 + over) + 1 = m /\ (1 + over) + m - 1 = n + 1
    BY <1>1, <1>4, <1>5
  <2>3. /\ g \in Seq(Urls)
        /\ Len(g) = IF 1 + over <= Len(kept)
                      THEN Len(kept) - (1 + over) + 1 ELSE 0
        /\ \A i \in 1 .. Len(kept) - (1 + over) + 1 :
             g[i] = kept[(1 + over) + i - 1]
    BY <2>1, <2>2, SubSeqProperties
  <2>4. Len(g) = m /\ g[m] = kept[(1 + over) + m - 1]
    BY <1>5, <2>2, <2>3
  <2> QED BY <1>4, <2>2, <2>3, <2>4
<1> HIDE DEF g
<1>7. [entries |-> g, at |-> m] \in Fits(SessionLimit)
  BY <1>5, <1>6, FitsMade
<1> QED BY <1>2, <1>6, <1>7 DEF UrlOf

\* A capture fits a tab, and the entry under the cursor is in it.
LEMMA WindowFits ==
    ASSUME NEW h \in Fits(SessionLimit)
    PROVE  Window(h) \in Fits(HistoryLimit) /\ UrlOf(Window(h)) = UrlOf(h)
<1> DEFINE e == h.entries
           a == h.at
           n == Len(e)
           start == IF n <= HistoryLimit \/ a < HistoryLimit THEN 0
                                                ELSE a - HistoryLimit
           count == IF n - start > HistoryLimit THEN HistoryLimit
                                                ELSE n - start
           g == SubSeq(e, start + 1, start + count)
<1>1. e \in Seq(Urls) /\ n \in Nat /\ n <= SessionLimit
      /\ a \in Nat /\ a >= 1 /\ a <= n
  BY FitsParts
<1>2. Window(h) = [entries |-> g, at |-> a - start]
  BY DEF Window
<1>3. HistoryLimit \in Nat /\ HistoryLimit >= 1
  BY Limits
<1> HIDE DEF e, a
<1>4. \A i \in 1 .. n : e[i] \in Urls
  BY <1>1, ElementOfSeq
<1>5. n = Len(e)
  OBVIOUS
<1> HIDE DEF n
<1>6. /\ start \in Nat /\ count \in Nat /\ start + count <= n
      /\ count <= HistoryLimit /\ a - start \in Nat /\ a - start >= 1
      /\ a - start <= count
  BY <1>1, <1>3
<1> HIDE DEF start, count
<1> DEFINE m == start + 1
           k == start + count
<1>7. m \in Int /\ k \in Int /\ k - m + 1 = count /\ m <= k
      /\ m + (a - start) - 1 = a /\ m >= 1 /\ k <= n
  BY <1>1, <1>6
<1>8. \A i \in m .. k : e[i] \in Urls
  BY <1>1, <1>4, <1>7
<1> HIDE DEF m, k
<1>9. /\ SubSeq(e, m, k) \in Seq(Urls)
      /\ Len(SubSeq(e, m, k)) = k - m + 1
      /\ \A i \in 1 .. k - m + 1 : SubSeq(e, m, k)[i] = e[m + i - 1]
  BY <1>7, <1>8, SubSeqProperties
<1>10. g = SubSeq(e, m, k)
  BY DEF m, k
<1> HIDE DEF g
<1>11. Len(g) = count /\ g[a - start] = e[m + (a - start) - 1]
  BY <1>6, <1>7, <1>9, <1>10
<1>12. g[a - start] = e[a]
  BY <1>7, <1>11
<1>13. [entries |-> g, at |-> a - start] \in Fits(HistoryLimit)
  BY <1>6, <1>9, <1>10, <1>11, FitsMade
<1> QED BY <1>2, <1>12, <1>13 DEF UrlOf, e, a

-----------------------------------------------------------------------------
\* A tab is a history or the mark of the one that is on the card.
TabShape == [entries : Seq(Urls), at : Nat, asleep : BOOLEAN]
AwakeTab(t) == /\ t \in TabShape /\ ~t.asleep
               /\ AsHistory(t) \in Fits(HistoryLimit)
               /\ t = Awake(AsHistory(t))

LEMMA AwakeIsAwake ==
    ASSUME NEW h \in Fits(HistoryLimit)
    PROVE  AwakeTab(Awake(h)) /\ AsHistory(Awake(h)) = h
<1>1. /\ h.entries \in Seq(Urls) /\ h.at \in Nat
      /\ h = [entries |-> h.entries, at |-> h.at]
  BY FitsParts
<1>2. AsHistory(Awake(h)) = h
  BY <1>1 DEF AsHistory, Awake
<1>3. Awake(h) \in TabShape /\ ~Awake(h).asleep
  BY <1>1 DEF TabShape, Awake
<1> QED BY <1>2, <1>3 DEF AwakeTab

LEMMA SleeperShape ==
    Sleeper \in TabShape /\ Sleeper.asleep /\ ~AwakeTab(Sleeper)
<1>1. <<>> \in Seq(Urls)
  BY EmptySeq
<1>2. Sleeper \in TabShape /\ Sleeper.asleep
  BY <1>1 DEF Sleeper, TabShape
<1> QED BY <1>2 DEF AwakeTab

\* An entry of a tab is replaced as one of its history is.
LEMMA TabReplaced ==
    ASSUME NEW t, AwakeTab(t), NEW u \in Urls
    PROVE  AsHistory(Replaced(t, u)) = Replaced(AsHistory(t), u)
<1>1. t = [entries |-> t.entries, at |-> t.at, asleep |-> t.asleep]
  BY DEF AwakeTab, TabShape
<1> QED BY <1>1 DEF Replaced, AsHistory

\* The tabs without one of them.
LEMMA RemovedProperties ==
    ASSUME NEW S, NEW s \in Seq(S), NEW i \in 1 .. Len(s)
    PROVE  /\ Removed(s, i) \in Seq(S) /\ Len(Removed(s, i)) = Len(s) - 1
           /\ \A j \in 1 .. Len(s) - 1 :
                Removed(s, i)[j] = IF j < i THEN s[j] ELSE s[j + 1]
<1> DEFINE n == Len(s)
           a == SubSeq(s, 1, i - 1)
           b == SubSeq(s, i + 1, n)
<1>1. n \in Nat /\ i \in Nat /\ i >= 1 /\ i <= n
  BY LenProperties
<1>2. \A j \in 1 .. n : s[j] \in S
  BY ElementOfSeq
<1>3. Removed(s, i) = a \o b
  BY DEF Removed
<1> HIDE DEF n
<1> DEFINE m == i - 1
           k == i + 1
<1>4. m \in Int /\ k \in Int /\ n \in Int /\ 1 \in Int
      /\ m - 1 + 1 = m /\ n - k + 1 = n - i /\ m >= 0 /\ n - i >= 0
  BY <1>1
<1>5. /\ a \in Seq(S) /\ Len(a) = m
      /\ \A j \in 1 .. m : a[j] = s[j]
  <2>1. \A j \in 1 .. m : s[j] \in S
    BY <1>1, <1>2
  <2>2. a = SubSeq(s, 1, m)
    OBVIOUS
  <2> HIDE DEF a, m
  <2>3. /\ SubSeq(s, 1, m) \in Seq(S)
        /\ Len(SubSeq(s, 1, m)) = IF 1 <= m THEN m - 1 + 1 ELSE 0
        /\ \A j \in 1 .. m - 1 + 1 : SubSeq(s, 1, m)[j] = s[1 + j - 1]
    BY <1>4, <2>1, SubSeqProperties
  <2>4. Len(a) = m
    BY <1>4, <2>2, <2>3
  <2>5. \A j \in 1 .. m : a[j] = s[j]
    BY <1>4, <2>2, <2>3
  <2> QED BY <2>2, <2>3, <2>4, <2>5
<1>6. /\ b \in Seq(S) /\ Len(b) = n - i
      /\ \A j \in 1 .. n - i : b[j] = s[i + j]
  <2>1. \A j \in k .. n : s[j] \in S
    BY <1>1, <1>2
  <2>2. b = SubSeq(s, k, n)
    OBVIOUS
  <2>3. k = i + 1
    OBVIOUS
  <2> HIDE DEF b, k
  <2>4. /\ SubSeq(s, k, n) \in Seq(S)
        /\ Len(SubSeq(s, k, n)) = IF k <= n THEN n - k + 1 ELSE 0
        /\ \A j \in 1 .. n - k + 1 : SubSeq(s, k, n)[j] = s[k + j - 1]
    BY <1>4, <2>1, SubSeqProperties
  <2>5. Len(b) = n - i
    BY <1>1, <2>3, <2>2, <2>4
  <2>6. \A j \in 1 .. n - i : b[j] = s[i + j]
    BY <1>1, <2>3, <2>2, <2>4
  <2> QED BY <2>2, <2>4, <2>5, <2>6
<1> HIDE DEF a, b
<1>7. /\ a \o b \in Seq(S) /\ Len(a \o b) = Len(a) + Len(b)
      /\ \A j \in 1 .. Len(a) + Len(b) :
           (a \o b)[j] = IF j <= Len(a) THEN a[j] ELSE b[j - Len(a)]
  BY <1>5, <1>6, ConcatProperties
<1>8. Len(a) + Len(b) = n - 1 /\ Len(a) = i - 1
  BY <1>1, <1>5, <1>6
<1>9. ASSUME NEW j \in 1 .. n - 1
      PROVE  (a \o b)[j] = IF j < i THEN s[j] ELSE s[j + 1]
  <2>1. (a \o b)[j] = IF j <= i - 1 THEN a[j] ELSE b[j - (i - 1)]
    BY <1>7, <1>8
  <2>2. CASE j < i
    BY <1>1, <1>5, <2>1, <2>2
  <2>3. CASE ~(j < i)
    <3>1. j - (i - 1) \in 1 .. n - i /\ i + (j - (i - 1)) = j + 1
          /\ ~(j <= i - 1)
      BY <1>1, <2>3
    <3> QED BY <1>6, <2>1, <2>3, <3>1
  <2> QED BY <2>2, <2>3
<1> QED BY <1>3, <1>7, <1>8, <1>9 DEF n

\* Where the others are then.
LEMMA ShiftedProperties ==
    ASSUME NEW S, NEW s \in Seq(S), NEW i \in 1 .. Len(s),
           NEW j \in 1 .. Len(s), j # i
    PROVE  /\ Shifted(j, i) \in 1 .. Len(s) - 1
           /\ Removed(s, i)[Shifted(j, i)] = s[j]
<1>1. Len(s) \in Nat
  BY LenProperties
<1>2. Shifted(j, i) \in 1 .. Len(s) - 1
  BY <1>1 DEF Shifted
<1> DEFINE k == Shifted(j, i)
<1>3. Removed(s, i)[k] = IF k < i THEN s[k] ELSE s[k + 1]
  BY <1>2, RemovedProperties
<1>4. IF k < i THEN k = j ELSE k + 1 = j
  BY <1>1 DEF Shifted
<1> QED BY <1>2, <1>3, <1>4

-----------------------------------------------------------------------------
\* The tabs s with the card c: at most one tab sleeps, and then the card has
\* its history.
TabsFit(s, c) ==
    /\ s \in Seq(TabShape) /\ Len(s) >= 1 /\ Len(s) <= TabLimit
    /\ c \in Fits(HistoryLimit) \cup {NoFile}
    /\ \A i \in 1 .. Len(s) :
         AwakeTab(s[i]) \/ (s[i] = Sleeper /\ c \in Fits(HistoryLimit))
    /\ \A i, j \in 1 .. Len(s) : s[i].asleep /\ s[j].asleep => i = j

\* A tab is written.
LEMMA SetFits ==
    ASSUME NEW s, NEW c, TabsFit(s, c), NEW i \in 1 .. Len(s),
           NEW t, AwakeTab(t)
    PROVE  /\ TabsFit([s EXCEPT ![i] = t], c)
           /\ Len([s EXCEPT ![i] = t]) = Len(s) /\ Len(s) \in Nat
           /\ [s EXCEPT ![i] = t][i] = t
           /\ \A j \in 1 .. Len(s) : j # i => [s EXCEPT ![i] = t][j] = s[j]
<1> DEFINE z == [s EXCEPT ![i] = t]
<1>1. s \in Seq(TabShape) /\ t \in TabShape /\ ~t.asleep
  BY DEF TabsFit, AwakeTab
<1>2. /\ z \in Seq(TabShape) /\ Len(z) = Len(s)
      /\ \A j \in 1 .. Len(s) : z[j] = IF j = i THEN t ELSE s[j]
  BY <1>1, ExceptSeq
<1> HIDE DEF z
<1>3. TabsFit(z, c)
  BY <1>1, <1>2 DEF TabsFit
<1> QED BY <1>1, <1>2, <1>3, LenProperties DEF z

\* The document shown is captured.
LEMMA CapturedFits ==
    ASSUME NEW s, NEW c, TabsFit(s, c), NEW i \in 1 .. Len(s),
           NEW h \in Fits(SessionLimit)
    PROVE  /\ TabsFit(Captured(s, i, h), c)
           /\ Len(Captured(s, i, h)) = Len(s) /\ Len(s) \in Nat
           /\ Captured(s, i, h)[i] = Awake(Window(h))
           /\ AwakeTab(Captured(s, i, h)[i])
           /\ \A j \in 1 .. Len(s) : j # i => Captured(s, i, h)[j] = s[j]
<1> DEFINE t == Awake(Window(h))
<1>1. AwakeTab(t)
  BY WindowFits, AwakeIsAwake
<1>2. Captured(s, i, h) = [s EXCEPT ![i] = t]
  BY DEF Captured
<1> HIDE DEF t
<1> DEFINE z == [s EXCEPT ![i] = t]
<1>3. /\ TabsFit(z, c) /\ Len(z) = Len(s) /\ Len(s) \in Nat /\ z[i] = t
      /\ \A j \in 1 .. Len(s) : j # i => z[j] = s[j]
  BY <1>1, SetFits
<1>4. Captured(s, i, h) = z
  BY <1>2
<1> HIDE DEF z
<1>5. z[i] = Awake(Window(h)) /\ AwakeTab(z[i])
  BY <1>1, <1>3 DEF t
<1> QED BY <1>3, <1>4, <1>5

\* With nobody asleep the card is not needed.
LEMMA AwakeNeedsNoCard ==
    ASSUME NEW s, NEW c, TabsFit(s, c), \A i \in 1 .. Len(s) : ~s[i].asleep
    PROVE  TabsFit(s, NoFile)
BY SleeperShape DEF TabsFit

\* A tab that is written is awake.
LEMMA AwakeOne ==
    ASSUME NEW s, NEW c, TabsFit(s, c), NEW i \in 1 .. Len(s), ~s[i].asleep
    PROVE  AwakeTab(s[i])
BY SleeperShape DEF TabsFit

\* A tab is read back; the card is not needed then.
LEMMA WokenFits ==
    ASSUME NEW s, TabsFit(s, card), NEW i \in 1 .. Len(s)
    PROVE  /\ TabsFit(Woken(s, i), IF s[i].asleep THEN NoFile ELSE card)
           /\ Len(Woken(s, i)) = Len(s) /\ AwakeTab(Woken(s, i)[i])
           /\ \A j \in 1 .. Len(s) : j # i => Woken(s, i)[j] = s[j]
<1>1. CASE ~s[i].asleep
  BY <1>1, AwakeOne DEF Woken
<1>2. CASE s[i].asleep
  <2> DEFINE t == Awake(card)
             z == [s EXCEPT ![i] = t]
  <2>1. AwakeTab(t) /\ ~t.asleep
    <3>1. card \in Fits(HistoryLimit)
      BY <1>2 DEF TabsFit, AwakeTab
    <3>2. AwakeTab(t)
      BY <3>1, AwakeIsAwake
    <3> QED BY <3>2 DEF AwakeTab
  <2>2. Woken(s, i) = z
    BY <1>2 DEF Woken
  <2> HIDE DEF t
  <2>3. /\ TabsFit(z, card) /\ Len(z) = Len(s) /\ z[i] = t
        /\ \A j \in 1 .. Len(s) : j # i => z[j] = s[j]
    BY <2>1, SetFits
  <2> HIDE DEF z
  <2>4. \A j \in 1 .. Len(s) : ~z[j].asleep
    BY <1>2, <2>1, <2>3 DEF TabsFit
  <2>5. TabsFit(z, NoFile)
    BY <2>3, <2>4, AwakeNeedsNoCard
  <2> QED BY <1>2, <2>1, <2>2, <2>3, <2>5
<1> QED BY <1>1, <1>2

\* A tab goes; when it was the sleeper, the card is not needed.
LEMMA RemovedFits ==
    ASSUME NEW s, NEW c, TabsFit(s, c), NEW i \in 1 .. Len(s), Len(s) > 1
    PROVE  /\ TabsFit(Removed(s, i), c)
           /\ s[i].asleep => TabsFit(Removed(s, i), NoFile)
           /\ Len(Removed(s, i)) = Len(s) - 1 /\ Len(s) \in Nat
<1> DEFINE z == Removed(s, i)
<1>1. s \in Seq(TabShape) /\ Len(s) \in Nat
  BY LenProperties DEF TabsFit
<1>2. /\ z \in Seq(TabShape) /\ Len(z) = Len(s) - 1
      /\ \A j \in 1 .. Len(s) - 1 : z[j] = IF j < i THEN s[j] ELSE s[j + 1]
  BY <1>1, RemovedProperties
<1> HIDE DEF z
<1>3. ASSUME NEW j \in 1 .. Len(z)
      PROVE  \E k \in 1 .. Len(s) \ {i} :
               z[j] = s[k] /\ k = IF j < i THEN j ELSE j + 1
  BY <1>1, <1>2
<1>4. \A j \in 1 .. Len(z) :
        AwakeTab(z[j]) \/ (z[j] = Sleeper /\ c \in Fits(HistoryLimit))
  BY <1>3 DEF TabsFit
<1>5. ASSUME NEW j \in 1 .. Len(z), NEW k \in 1 .. Len(z),
             z[j].asleep, z[k].asleep
      PROVE  j = k
  <2>1. PICK a \in 1 .. Len(s) : z[j] = s[a] /\ a = IF j < i THEN j ELSE j + 1
    BY <1>3
  <2>2. PICK b \in 1 .. Len(s) : z[k] = s[b] /\ b = IF k < i THEN k ELSE k + 1
    BY <1>3
  <2>3. a = b
    BY <1>5, <2>1, <2>2 DEF TabsFit
  <2> QED BY <1>1, <1>2, <2>1, <2>2, <2>3
<1>6. TabsFit(z, c)
  <2>1. Len(z) >= 1 /\ Len(z) <= TabLimit
    BY <1>1, <1>2, Limits DEF TabsFit
  <2>2. c \in Fits(HistoryLimit) \cup {NoFile}
    BY DEF TabsFit
  <2> QED BY <1>2, <1>4, <1>5, <2>1, <2>2 DEF TabsFit
<1>7. ASSUME s[i].asleep PROVE TabsFit(z, NoFile)
  <2>1. \A j \in 1 .. Len(z) : ~z[j].asleep
    BY <1>3, <1>7 DEF TabsFit
  <2> QED BY <1>6, <2>1, AwakeNeedsNoCard
<1> QED BY <1>1, <1>2, <1>6, <1>7 DEF z

\* A tab is added.
LEMMA AppendFits ==
    ASSUME NEW s, NEW c, TabsFit(s, c), Len(s) < TabLimit, NEW t, AwakeTab(t)
    PROVE  /\ TabsFit(Append(s, t), c) /\ Len(Append(s, t)) = Len(s) + 1
           /\ Append(s, t)[Len(s) + 1] = t /\ Len(s) \in Nat
           /\ \A j \in 1 .. Len(s) : Append(s, t)[j] = s[j]
<1> DEFINE z == Append(s, t)
<1>1. s \in Seq(TabShape) /\ Len(s) \in Nat /\ t \in TabShape /\ ~t.asleep
  BY LenProperties DEF TabsFit, AwakeTab
<1>2. /\ z \in Seq(TabShape) /\ Len(z) = Len(s) + 1
      /\ \A j \in 1 .. Len(s) : z[j] = s[j]
      /\ z[Len(s) + 1] = t
  BY <1>1, AppendProperties
<1> HIDE DEF z
<1>3. \A j \in 1 .. Len(z) : j \in 1 .. Len(s) \/ j = Len(s) + 1
  BY <1>1, <1>2
<1>4. TabsFit(z, c)
  BY <1>1, <1>2, <1>3, Limits DEF TabsFit
<1> QED BY <1>1, <1>2, <1>4 DEF z

\* A tab goes to the card when no other is there.
LEMMA HibernateFits ==
    ASSUME NEW s, NEW c, TabsFit(s, c), NEW i \in 1 .. Len(s),
           \A j \in 1 .. Len(s) : ~s[j].asleep
    PROVE  /\ TabsFit([s EXCEPT ![i] = Sleeper], AsHistory(s[i]))
           /\ Len([s EXCEPT ![i] = Sleeper]) = Len(s)
           /\ \A j \in 1 .. Len(s) : j # i => [s EXCEPT ![i] = Sleeper][j] = s[j]
<1> DEFINE z == [s EXCEPT ![i] = Sleeper]
<1>1. s \in Seq(TabShape) /\ AwakeTab(s[i])
  BY AwakeOne DEF TabsFit
<1>2. /\ z \in Seq(TabShape) /\ Len(z) = Len(s)
      /\ \A j \in 1 .. Len(s) : z[j] = IF j = i THEN Sleeper ELSE s[j]
  BY <1>1, SleeperShape, ExceptSeq
<1> HIDE DEF z
<1>3. AsHistory(s[i]) \in Fits(HistoryLimit)
  BY <1>1 DEF AwakeTab
<1>4. TabsFit(z, AsHistory(s[i]))
  BY <1>2, <1>3, AwakeOne DEF TabsFit
<1> QED BY <1>2, <1>4 DEF z

-----------------------------------------------------------------------------
(***************************************************************************)
(* The inductive invariant.  A load that neither adds an entry nor takes   *)
(* one nor came without one is for the entry under the cursor.  The tab    *)
(* the user is in, the one a failure goes back to, keeps the history as it *)
(* was before the cursor moved.                                            *)
(***************************************************************************)
Plain(j) == ~j.record /\ ~j.replace /\ ~j.loose

\* The history and the page, in types.
Typed == /\ history \in Fits(SessionLimit)
         /\ page \in Urls \cup {NoPage}
         /\ astray \in {"no", "page", "tab"}

Jobs == [phase : Phases, url : Urls \cup {NoPage}, record : BOOLEAN,
         replace : BOOLEAN, moved : BOOLEAN, previous : Nat, loose : BOOLEAN]

\* No load in progress is the empty one; a plain one is for the entry under
\* the cursor.
JobStands ==
    /\ job \in Jobs
    /\ Idle => job = NoJob
    /\ job.previous >= 1 /\ job.previous <= Len(history.entries)
    /\ ~Idle => job.url \in Urls /\ (Plain(job) => job.url = UrlOf(history))

\* The selected tab is awake.
TabsStand == /\ TabsFit(tabs, card)
             /\ active \in 1 .. Len(tabs) /\ AwakeTab(tabs[active])

\* A transition goes from one tab that is awake to another; a tab made for it
\* is the last one.
TransitionStands ==
    /\ transition \in [pending : BOOLEAN, added : BOOLEAN, previous : Nat,
                       closes : BOOLEAN]
    /\ ~transition.pending => transition = NoTransition
    /\ transition.pending => /\ transition.previous \in 1 .. Len(tabs)
                             /\ transition.previous # active
                             /\ AwakeTab(tabs[transition.previous])
    /\ transition.added => active = Len(tabs) /\ ~transition.closes

\* The owner's snapshot is the history a failure goes back to, and the page
\* shown belongs to the entry under its cursor.
Kept == (page # NoPage /\ astray = "no")
            => tabs[Owner] = Awake(Window(Restored(page)))
Filed == (page # NoPage /\ astray # "page") => page = UrlOf(Restored(page))

IInv == Typed /\ JobStands /\ TabsStand /\ TransitionStands /\ Kept /\ Filed

LEMMA NoJobShape ==
    /\ NoJob \in Jobs /\ NoJob.phase = "none" /\ ~NoJob.moved
    /\ NoJob.previous = 1
BY DEF NoJob, Jobs, Phases

LEMMA NoTransitionShape ==
    /\ NoTransition \in [pending : BOOLEAN, added : BOOLEAN, previous : Nat,
                         closes : BOOLEAN]
    /\ ~NoTransition.pending /\ ~NoTransition.added /\ ~NoTransition.closes
BY DEF NoTransition

\* What a failure goes back to is a history with the same entries.
LEMMA RestoredFits ==
    ASSUME IInv, NEW shown
    PROVE  /\ Restored(shown) \in Fits(SessionLimit)
           /\ Len(Restored(shown).entries) = Len(history.entries)
           /\ Restored(shown).entries = history.entries
<1>1. /\ history.entries \in Seq(Urls) /\ Len(history.entries) \in Nat
      /\ Len(history.entries) <= SessionLimit
      /\ history = [entries |-> history.entries, at |-> history.at]
  BY FitsParts DEF IInv, Typed
<1>2. CASE job.moved /\ shown # NoPage
  <2>1. Restored(shown) = [entries |-> history.entries, at |-> job.previous]
    BY <1>1, <1>2 DEF Restored
  <2>2. job.previous \in Nat /\ job.previous >= 1
        /\ job.previous <= Len(history.entries)
    BY DEF IInv, JobStands, Jobs
  <2> QED BY <1>1, <2>1, <2>2, FitsMade
<1>3. CASE ~(job.moved /\ shown # NoPage)
  BY <1>3 DEF Restored, IInv, Typed
<1> QED BY <1>2, <1>3

\* Without a moved cursor there is nothing to restore.
LEMMA RestIsHistory ==
    ASSUME IInv, ~job.moved, NEW shown PROVE Restored(shown) = history
BY DEF Restored

\* Between loads there is nothing to go back to.
LEMMA IdleRests ==
    ASSUME IInv, Idle
    PROVE  /\ ~job.moved /\ job = NoJob
           /\ \A shown : Restored(shown) = history
BY NoJobShape DEF Restored, IInv, JobStands

-----------------------------------------------------------------------------
\* Steps that leave the tabs alone and what a failure restores as it is.
LEMMA LeavesTabs ==
    ASSUME IInv, UNCHANGED <<tabs, active, card, transition, astray>>,
           page' \in {page, NoPage}, Typed', JobStands',
           page' # NoPage => Restored(page)' = Restored(page)
    PROVE  IInv'
<1>1. TabsStand' /\ TransitionStands'
  BY DEF IInv, TabsStand, TransitionStands
<1>2. Owner' = Owner
  BY DEF Owner
<1>3. Kept'
  BY <1>2 DEF IInv, Kept
<1>4. Filed'
  BY DEF IInv, Filed
<1> QED BY <1>1, <1>3, <1>4 DEF IInv

\* A load begins: with nothing armed but what how says.
LEMMA BegunShape ==
    ASSUME NEW u \in Urls, NEW how \in Jobs, NEW j \in Begun(u, how)
    PROVE  /\ j \in Jobs /\ j.phase # "none" /\ j.url = u
           /\ j.moved = how.moved /\ j.previous = how.previous
           /\ Plain(j) <=> Plain(how)
<1>1. PICK p \in {"fetch", "adapter"} : j = [how EXCEPT !.phase = p, !.url = u]
  BY DEF Begun
<1>2. p \in Phases /\ p # "none"
  BY <1>1 DEF Phases
<1>3. j = [phase |-> p, url |-> u, record |-> how.record,
           replace |-> how.replace, moved |-> how.moved,
           previous |-> how.previous, loose |-> how.loose]
  BY <1>1 DEF Jobs
<1>4. /\ how.record \in BOOLEAN /\ how.replace \in BOOLEAN
      /\ how.moved \in BOOLEAN /\ how.previous \in Nat /\ how.loose \in BOOLEAN
  BY DEF Jobs
<1>5. j \in Jobs
  BY <1>2, <1>3, <1>4 DEF Jobs
<1> QED BY <1>2, <1>3, <1>5 DEF Plain

\* The ways a load is armed.
LEMMA Armed ==
    /\ ~Plain([NoJob EXCEPT !.record = TRUE])
    /\ ~Plain([NoJob EXCEPT !.replace = TRUE])
    /\ ~Plain([NoJob EXCEPT !.loose = TRUE])
    /\ {[NoJob EXCEPT !.record = TRUE], [NoJob EXCEPT !.replace = TRUE],
        [NoJob EXCEPT !.loose = TRUE], NoJob} \subseteq Jobs
    /\ \A h \in {[NoJob EXCEPT !.record = TRUE], [NoJob EXCEPT !.replace = TRUE],
                 [NoJob EXCEPT !.loose = TRUE], NoJob} :
         ~h.moved /\ h.previous = 1
<1> DEFINE a == [NoJob EXCEPT !.record = TRUE]
           b == [NoJob EXCEPT !.replace = TRUE]
           c == [NoJob EXCEPT !.loose = TRUE]
<1>1. /\ a \in Jobs /\ a.record /\ ~a.moved /\ a.previous = 1
      /\ b \in Jobs /\ b.replace /\ ~b.moved /\ b.previous = 1
      /\ c \in Jobs /\ c.loose /\ ~c.moved /\ c.previous = 1
  BY DEF NoJob, Jobs, Phases
<1> HIDE DEF a, b, c
<1>2. ~Plain(a) /\ ~Plain(b) /\ ~Plain(c)
  BY <1>1 DEF Plain
<1>3. {a, b, c, NoJob} \subseteq Jobs
      /\ \A h \in {a, b, c, NoJob} : ~h.moved /\ h.previous = 1
  BY <1>1, NoJobShape
<1> QED BY <1>2, <1>3 DEF a, b, c

\* A load begins without a move of the cursor.
LEMMA BeginsLoad ==
    ASSUME IInv, NEW u \in Urls, NEW how \in Jobs, job' \in Begun(u, how),
           ~how.moved, how.previous = 1,
           history' = Restored(page),
           Plain(how) => u = UrlOf(history'),
           UNCHANGED <<page, tabs, active, card, transition, astray>>
    PROVE  IInv'
<1>1. /\ job' \in Jobs /\ job'.phase # "none" /\ job'.url = u
      /\ ~job'.moved /\ job'.previous = 1
      /\ Plain(job') <=> Plain(how)
  BY BegunShape
<1>2. history' \in Fits(SessionLimit)
  BY RestoredFits
<1>3. Len(history'.entries) \in Nat /\ 1 <= Len(history'.entries)
  <2>1. Len(history'.entries) \in Nat /\ history'.at \in Nat
        /\ history'.at >= 1 /\ history'.at <= Len(history'.entries)
    BY <1>2, FitsParts
  <2> QED BY <2>1
<1>4. Typed'
  BY <1>2 DEF Typed, IInv
<1>5. JobStands'
  BY <1>1, <1>3 DEF JobStands, Idle
<1>6. Restored(page)' = Restored(page)
  BY <1>1 DEF Restored
<1> QED BY <1>4, <1>5, <1>6, LeavesTabs

LEMMA BeginKeeps ==
    ASSUME IInv, NEW u \in Urls,
           Link(u) \/ ScriptReplace(u) \/ Retry(u) \/ Reload
    PROVE  IInv'
<1>1. Idle /\ \A shown : Restored(shown) = history
  BY IdleRests DEF Link, ScriptReplace, Retry, Reload
<1>2. UrlOf(history) \in Urls
  BY FitsParts DEF IInv, Typed
<1>3. CASE Link(u)
  BY <1>1, <1>3, Armed, BeginsLoad DEF Link
<1>4. CASE ScriptReplace(u)
  BY <1>1, <1>4, Armed, BeginsLoad DEF ScriptReplace
<1>5. CASE Retry(u)
  BY <1>1, <1>5, Armed, BeginsLoad DEF Retry
<1>6. CASE Reload
  BY <1>1, <1>2, <1>6, Armed, BeginsLoad DEF Reload
<1> QED BY <1>3, <1>4, <1>5, <1>6

LEMMA MoveKeeps ==
    ASSUME IInv, NEW to \in DOMAIN history.entries, Move(to) PROVE IInv'
<1>1. Idle /\ \A shown : Restored(shown) = history
  BY IdleRests DEF Move
<1>2. /\ history.entries \in Seq(Urls) /\ Len(history.entries) \in Nat
      /\ Len(history.entries) <= SessionLimit
      /\ history.at \in Nat /\ history.at >= 1
      /\ history.at <= Len(history.entries)
      /\ history = [entries |-> history.entries, at |-> history.at]
      /\ DOMAIN history.entries = 1 .. Len(history.entries)
  BY FitsParts DEF IInv, Typed
<1>3. to \in Nat /\ to >= 1 /\ to <= Len(history.entries)
  BY <1>2
<1>4. history' = [entries |-> history.entries, at |-> to]
  <2>1. history' = [history EXCEPT !.at = to]
    BY DEF Move
  <2> QED BY <1>2, <2>1
<1>5. history' \in Fits(SessionLimit)
  BY <1>2, <1>3, <1>4, FitsMade
<1>6. history.entries[to] = UrlOf(history') /\ UrlOf(history') \in Urls
  BY <1>4, <1>5, FitsParts DEF UrlOf
<1> DEFINE how == [NoJob EXCEPT !.moved = TRUE, !.previous = history.at]
<1>7. /\ job' \in Begun(history.entries[to], how)
      /\ UNCHANGED <<page, tabs, active, card, transition, astray>>
  BY DEF Move
<1>8. how \in Jobs /\ how.moved /\ how.previous = history.at
  BY <1>2 DEF NoJob, Jobs, Phases
<1> HIDE DEF how
<1>9. /\ job' \in Jobs /\ job'.phase # "none"
      /\ job'.url = history.entries[to]
      /\ job'.moved /\ job'.previous = history.at
  BY <1>6, <1>7, <1>8, BegunShape
<1>10. Typed'
  BY <1>5, <1>7 DEF IInv, Typed
<1>11. JobStands'
  BY <1>2, <1>4, <1>6, <1>9 DEF JobStands, Idle
<1>12. page # NoPage => Restored(page)' = history
  <2>1. ASSUME page # NoPage
        PROVE  Restored(page)' = [history' EXCEPT !.at = history.at]
    BY <1>7, <1>9, <2>1 DEF Restored
  <2>2. [history' EXCEPT !.at = history.at] = history
    BY <1>2, <1>4
  <2> QED BY <2>1, <2>2
<1> QED BY <1>1, <1>7, <1>10, <1>11, <1>12, LeavesTabs

LEMMA PreviewLinkKeeps ==
    ASSUME IInv, NEW u \in Urls, PreviewLink(u) PROVE IInv'
<1>1. CASE job' = NoJob
  <2>1. history' \in Fits(SessionLimit)
    BY RestoredFits DEF PreviewLink
  <2>2. UNCHANGED <<page, tabs, active, card, transition, astray>>
        /\ history' = Restored(page)
    BY DEF PreviewLink
  <2>3. Len(history'.entries) \in Nat /\ history'.at \in Nat
        /\ history'.at >= 1 /\ history'.at <= Len(history'.entries)
    BY <2>1, FitsParts
  <2>4. JobStands' /\ ~job'.moved
    BY <1>1, <2>3, NoJobShape DEF JobStands, Idle
  <2>5. Restored(page)' = Restored(page)
    BY <2>2, <2>4 DEF Restored
  <2>6. Typed'
    BY <2>1, <2>2 DEF IInv, Typed
  <2> QED BY <2>2, <2>4, <2>5, <2>6, LeavesTabs
<1>2. CASE job' \in Begun(u, [NoJob EXCEPT !.record = TRUE])
  BY <1>2, Armed, BeginsLoad DEF PreviewLink
<1> QED BY <1>1, <1>2 DEF PreviewLink

LEMMA SuspendKeeps == ASSUME IInv, Suspend PROVE IInv'
<1>1. history' \in Fits(SessionLimit)
  BY RestoredFits DEF Suspend
<1>2. UNCHANGED <<page, tabs, active, card, transition, astray>>
      /\ history' = Restored(page) /\ job' = NoJob
  BY DEF Suspend
<1>3. Len(history'.entries) \in Nat /\ history'.at \in Nat
      /\ history'.at >= 1 /\ history'.at <= Len(history'.entries)
  BY <1>1, FitsParts
<1>4. JobStands' /\ ~job'.moved
  BY <1>2, <1>3, NoJobShape DEF JobStands, Idle
<1>5. Restored(page)' = Restored(page)
  BY <1>2, <1>4 DEF Restored
<1>6. Typed'
  BY <1>1, <1>2 DEF IInv, Typed
<1> QED BY <1>2, <1>4, <1>5, <1>6, LeavesTabs

-----------------------------------------------------------------------------
\* A load ends without a commit.
LEMMA UndoEffect ==
    ASSUME IInv, Undo, UNCHANGED card
    PROVE  /\ TabsStand' /\ TransitionStands' /\ Owner' = active'
           /\ tabs'[active'] = tabs[Owner]
<1>1. transition' = NoTransition
  BY DEF Undo
<1>2. TabsFit(tabs, card) /\ active \in 1 .. Len(tabs) /\ AwakeTab(tabs[active])
      /\ tabs \in Seq(TabShape) /\ Len(tabs) \in Nat
  BY LenProperties DEF IInv, TabsStand, TabsFit
<1>3. CASE ~transition.pending
  <2>1. ~transition.added /\ Owner = active
    BY <1>3, NoTransitionShape DEF IInv, TransitionStands, Owner
  <2>2. tabs' = tabs /\ active' = active
    BY <1>3, <2>1 DEF Undo
  <2> QED BY <1>1, <1>2, <2>1, <2>2, NoTransitionShape
          DEF TabsStand, TransitionStands, Owner
<1>4. CASE transition.pending /\ ~transition.added
  <2>1. /\ tabs' = tabs /\ active' = transition.previous
        /\ Owner = transition.previous
    BY <1>4 DEF Undo, Owner
  <2>2. transition.previous \in 1 .. Len(tabs)
        /\ AwakeTab(tabs[transition.previous])
    BY <1>4 DEF IInv, TransitionStands
  <2> QED BY <1>1, <1>2, <2>1, <2>2, NoTransitionShape
          DEF TabsStand, TransitionStands, Owner
<1>5. CASE transition.pending /\ transition.added
  <2> DEFINE p == transition.previous
             z == Removed(tabs, active)
  <2>1. /\ p \in 1 .. Len(tabs) /\ p # active /\ AwakeTab(tabs[p])
        /\ active = Len(tabs)
    BY <1>5 DEF IInv, TransitionStands
  <2>2. tabs' = z /\ active' = p /\ Owner = p
    BY <1>5 DEF Undo, Owner
  <2> HIDE DEF p
  <2>3. Len(tabs) > 1 /\ p \in 1 .. Len(tabs) - 1 /\ p < active
    BY <1>2, <2>1
  <2>4. TabsFit(z, card) /\ Len(z) = Len(tabs) - 1
    BY <1>2, <2>3, RemovedFits
  <2>5. z[p] = tabs[p]
    BY <1>2, <2>3, RemovedProperties
  <2> HIDE DEF z
  <2>6. TabsStand'
    BY <2>1, <2>2, <2>3, <2>4, <2>5 DEF TabsStand
  <2> QED BY <1>1, <2>2, <2>5, <2>6, NoTransitionShape
          DEF TransitionStands, Owner
<1> QED BY <1>3, <1>4, <1>5

LEMMA JobOver ==
    ASSUME history' \in Fits(SessionLimit), job' = NoJob
    PROVE  JobStands' /\ ~job'.moved
<1>1. Len(history'.entries) \in Nat /\ history'.at \in Nat
      /\ history'.at >= 1 /\ history'.at <= Len(history'.entries)
  BY FitsParts
<1> QED BY <1>1, NoJobShape DEF JobStands, Idle

\* It goes back to where it was, and the tab request with it.
LEMMA UnwindKeeps ==
    ASSUME IInv, NEW shown \in {page, NoPage}, page' = shown,
           history' = Restored(shown), job' = NoJob, Undo,
           UNCHANGED <<card, astray>>
    PROVE  IInv'
<1>1. history' \in Fits(SessionLimit)
  BY RestoredFits
<1>2. JobStands' /\ ~job'.moved
  BY <1>1, JobOver
<1>3. /\ TabsStand' /\ TransitionStands' /\ Owner' = active'
      /\ tabs'[active'] = tabs[Owner]
  BY UndoEffect
<1>4. Typed'
  BY <1>1 DEF IInv, Typed
<1>5. page' # NoPage => page' = page /\ Restored(page)' = Restored(page)
  BY <1>2 DEF Restored
<1>6. Kept'
  BY <1>3, <1>5 DEF IInv, Kept
<1>7. Filed'
  BY <1>5 DEF IInv, Filed
<1> QED BY <1>2, <1>3, <1>4, <1>6, <1>7 DEF IInv

LEMMA FailsKeeps ==
    ASSUME IInv, NEW shown \in {page, NoPage}, Fails(shown) PROVE IInv'
BY UnwindKeeps DEF Fails

LEMMA CancelsKeeps == ASSUME IInv, Cancels PROVE IInv'
<1>1. page' = page /\ page \in {page, NoPage}
  BY DEF Cancels
<1> QED BY <1>1, UnwindKeeps DEF Cancels

\* A load goes on in another way.
LEMMA GoesOn ==
    ASSUME IInv, ~Idle, job' \in Jobs, job'.phase # "none", job'.url = job.url,
           job'.moved = job.moved, job'.previous = job.previous,
           Plain(job') => Plain(job), page' \in {page, NoPage},
           UNCHANGED <<history, tabs, active, card, transition, astray>>
    PROVE  IInv'
<1>1. JobStands'
  BY DEF IInv, JobStands, Idle
<1>2. Typed'
  BY DEF IInv, Typed
<1>3. page' # NoPage => Restored(page)' = Restored(page)
  BY DEF Restored
<1> QED BY <1>1, <1>2, <1>3, LeavesTabs

LEMMA ByAdapterShape ==
    ASSUME IInv
    PROVE  /\ ByAdapter \in Jobs /\ ByAdapter.phase # "none"
           /\ ByAdapter.url = job.url /\ ByAdapter.moved = job.moved
           /\ ByAdapter.previous = job.previous
           /\ Plain(ByAdapter) => Plain(job)
<1>1. job \in Jobs
  BY DEF IInv, JobStands
<1>2. PICK b \in BOOLEAN : b = (job.loose \/ job.replace)
  BY <1>1 DEF Jobs
<1>3. ByAdapter = [job EXCEPT !.phase = "adapter", !.replace = FALSE,
                              !.loose = b]
  BY <1>2 DEF ByAdapter
<1>4. /\ ByAdapter \in Jobs /\ ByAdapter.phase = "adapter"
      /\ ByAdapter.url = job.url /\ ByAdapter.moved = job.moved
      /\ ByAdapter.previous = job.previous /\ ByAdapter.record = job.record
      /\ ByAdapter.loose = b /\ ByAdapter.replace = FALSE
  BY <1>1, <1>3 DEF Jobs, Phases
<1>5. Plain(ByAdapter) => Plain(job)
  BY <1>1, <1>2, <1>4 DEF Plain
<1> QED BY <1>4, <1>5

LEMMA AdapterKeeps ==
    ASSUME IInv, RedirectToAdapter \/ FallBackFromGoogle PROVE IInv'
<1>1. ~Idle
  BY DEF RedirectToAdapter, FallBackFromGoogle, Idle
<1>2. CASE Continues(ByAdapter)
  BY <1>1, <1>2, ByAdapterShape, GoesOn DEF Continues
<1>3. CASE Fails(page)
  BY <1>3, FailsKeeps
<1> QED BY <1>2, <1>3 DEF RedirectToAdapter, FallBackFromGoogle

LEMMA ParseKeeps == ASSUME IInv, Parse PROVE IInv'
<1>1. PICK shown \in {page, NoPage} :
         \/ /\ page' = shown
            /\ job' = [job EXCEPT !.phase = "finish"]
            /\ UNCHANGED <<history, tabs, active, card, transition, astray>>
         \/ Fails(shown)
  BY DEF Parse
<1>2. CASE Fails(shown)
  BY <1>2, FailsKeeps
<1>3. CASE /\ page' = shown
           /\ job' = [job EXCEPT !.phase = "finish"]
           /\ UNCHANGED <<history, tabs, active, card, transition, astray>>
  <2>1. ~Idle /\ job \in Jobs
    BY DEF Parse, Idle, IInv, JobStands
  <2>2. /\ job' \in Jobs /\ job'.phase # "none" /\ job'.url = job.url
        /\ job'.moved = job.moved /\ job'.previous = job.previous
        /\ job'.record = job.record /\ job'.replace = job.replace
        /\ job'.loose = job.loose
    BY <1>3, <2>1 DEF Jobs, Phases
  <2>3. Plain(job') => Plain(job)
    BY <2>2 DEF Plain
  <2> QED BY <1>3, <2>1, <2>2, <2>3, GoesOn
<1> QED BY <1>1, <1>2, <1>3

-----------------------------------------------------------------------------
\* A load commits.
LEMMA OutcomeFits ==
    ASSUME IInv, ~Idle
    PROVE  /\ Outcome \in Fits(SessionLimit) /\ job.url \in Urls
           /\ ~job.loose => UrlOf(Outcome) = job.url
<1>1. /\ history \in Fits(SessionLimit) /\ job.url \in Urls
      /\ Plain(job) => job.url = UrlOf(history)
  BY DEF IInv, Typed, JobStands
<1>2. CASE job.record
  <2>1. Outcome = Pushed(history, job.url)
    BY <1>2 DEF Outcome
  <2> QED BY <1>1, <2>1, PushedFits
<1>3. CASE ~job.record /\ job.replace
  <2>1. Outcome = Replaced(history, job.url)
    BY <1>3 DEF Outcome
  <2> QED BY <1>1, <2>1, ReplacedFits
<1>4. CASE ~job.record /\ ~job.replace
  <2>1. Outcome = history
    BY <1>4 DEF Outcome
  <2>2. ~job.loose => Plain(job)
    BY <1>4 DEF Plain
  <2> QED BY <1>1, <2>1, <2>2
<1> QED BY <1>2, <1>3, <1>4

\* The tabs once the one that was to close is gone.
Closing(s) == IF transition.closes THEN Removed(s, transition.previous) ELSE s
Landing == IF transition.closes THEN Shifted(active, transition.previous)
                                ELSE active

LEMMA ClosingFits ==
    ASSUME IInv, transition.pending, NEW s, TabsFit(s, card),
           Len(s) = Len(tabs)
    PROVE  /\ TabsFit(Closing(s), card) /\ Landing \in 1 .. Len(Closing(s))
           /\ Closing(s)[Landing] = s[active]
<1>1. /\ transition.previous \in 1 .. Len(s) /\ transition.previous # active
      /\ active \in 1 .. Len(s) /\ s \in Seq(TabShape) /\ Len(s) \in Nat
  BY LenProperties DEF IInv, TransitionStands, TabsStand, TabsFit
<1>2. CASE transition.closes
  <2> DEFINE p == transition.previous
  <2>1. p \in 1 .. Len(s) /\ p # active
    BY <1>1
  <2>2. Closing(s) = Removed(s, p) /\ Landing = Shifted(active, p)
    BY <1>2 DEF Closing, Landing
  <2> HIDE DEF p
  <2>3. Len(s) > 1
    BY <1>1, <2>1
  <2>4. TabsFit(Removed(s, p), card) /\ Len(Removed(s, p)) = Len(s) - 1
    BY <2>1, <2>3, RemovedFits
  <2>5. /\ Shifted(active, p) \in 1 .. Len(s) - 1
        /\ Removed(s, p)[Shifted(active, p)] = s[active]
    BY <1>1, <2>1, ShiftedProperties
  <2> QED BY <2>2, <2>4, <2>5
<1>3. CASE ~transition.closes
  BY <1>1, <1>3 DEF Closing, Landing
<1> QED BY <1>2, <1>3

\* A load that ends with the document of the active tab, told the frontend or
\* not: what has to be shown of the rest.
LEMMA CommitKeeps ==
    ASSUME IInv, page' \in Urls, job' = NoJob, history' \in Fits(SessionLimit),
           astray' \in {"no", "page", "tab"}, TabsStand',
           TransitionStands',
           astray' # "page" => page' = UrlOf(history'),
           astray' = "no" => /\ ~transition'.pending
                             /\ tabs'[active'] = Awake(Window(history'))
    PROVE  IInv'
<1>1. JobStands' /\ ~job'.moved
  BY JobOver
<1>2. Restored(page)' = history'
  BY <1>1 DEF Restored
<1>3. Typed'
  BY DEF Typed
<1>4. Kept'
  BY <1>2 DEF Kept, Owner
<1>5. Filed'
  BY <1>2 DEF Filed
<1> QED BY <1>1, <1>3, <1>4, <1>5 DEF IInv

LEMMA SettleCancelledKeeps ==
    ASSUME IInv, ~Idle, SettleCancelled(Outcome) PROVE IInv'
<1>1. /\ Outcome \in Fits(SessionLimit) /\ job.url \in Urls
      /\ ~job.loose => UrlOf(Outcome) = job.url
  BY OutcomeFits
<1>2. TabsStand' /\ TransitionStands'
  BY UndoEffect DEF SettleCancelled
<1>3. /\ page' = job.url /\ job' = NoJob /\ history' = Outcome
      /\ astray' = IF job.loose THEN "page" ELSE "tab"
  BY DEF SettleCancelled
<1> QED BY <1>1, <1>2, <1>3, CommitKeeps

LEMMA SettlePlainKeeps ==
    ASSUME IInv, ~Idle, ~transition.pending, Settle(Outcome) PROVE IInv'
<1>1. /\ Outcome \in Fits(SessionLimit) /\ job.url \in Urls
      /\ ~job.loose => UrlOf(Outcome) = job.url
  BY OutcomeFits
<1>2. /\ page' = job.url /\ job' = NoJob /\ history' = Outcome
      /\ tabs' = Captured(tabs, active, Outcome)
      /\ astray' = IF job.loose THEN "page" ELSE "no"
      /\ UNCHANGED <<active, card, transition>>
  BY DEF Settle
<1>3. TabsFit(tabs, card) /\ active \in 1 .. Len(tabs)
  BY DEF IInv, TabsStand
<1> DEFINE s == Captured(tabs, active, Outcome)
<1>4. /\ TabsFit(s, card) /\ Len(s) = Len(tabs) /\ AwakeTab(s[active])
      /\ s[active] = Awake(Window(Outcome))
  BY <1>1, <1>3, CapturedFits
<1> HIDE DEF s
<1>5. tabs' = s
  BY <1>2 DEF s
<1>6. TabsStand'
  BY <1>2, <1>3, <1>4, <1>5 DEF TabsStand
<1>7. transition = NoTransition
  BY DEF IInv, TransitionStands
<1>8. TransitionStands' /\ ~transition'.pending
  BY <1>2, <1>7, NoTransitionShape DEF TransitionStands
<1> QED BY <1>1, <1>2, <1>4, <1>5, <1>6, <1>8, CommitKeeps

\* The engine refused the target's history: no entry is claimed.
LEMMA LimitTabKeeps ==
    ASSUME IInv, ~Idle, transition.pending, LimitTab(Outcome),
           page' = job.url, job' = NoJob, transition' = NoTransition
    PROVE  IInv'
<1> DEFINE s == [tabs EXCEPT ![active] = Awake(Single(job.url))]
<1>1. Outcome \in Fits(SessionLimit) /\ job.url \in Urls
  BY OutcomeFits
<1>2. AwakeTab(Awake(Single(job.url)))
  BY <1>1, SingleFits, AwakeIsAwake, Limits
<1>3. TabsFit(tabs, card) /\ active \in 1 .. Len(tabs)
  BY DEF IInv, TabsStand
<1>4. /\ TabsFit(s, card) /\ Len(s) = Len(tabs) /\ AwakeTab(s[active])
  BY <1>2, <1>3, SetFits
<1>5. /\ history' = Outcome /\ astray' = "page" /\ UNCHANGED card
      /\ tabs' = Closing(s) /\ active' = Landing
  BY DEF LimitTab, Closing, Landing
<1> HIDE DEF s
<1>6. TabsStand'
  BY <1>4, <1>5, ClosingFits DEF TabsStand
<1>7. TransitionStands'
  BY NoTransitionShape DEF TransitionStands
<1> QED BY <1>1, <1>5, <1>6, <1>7, CommitKeeps

\* The target takes over: captured over itself, the tab that was to close
\* gone, another perhaps written to the card.
LEMMA FinishTabKeeps ==
    ASSUME IInv, ~Idle, transition.pending, FinishTab,
           page' = job.url, job' = NoJob, transition' = NoTransition
    PROVE  IInv'
<1> DEFINE h == AsHistory(Replaced(tabs[active], job.url))
           s == Closing(tabs)
           ready == Captured(s, Landing, h)
           p == transition.previous
<1>1. TabsFit(tabs, card) /\ AwakeTab(tabs[active]) /\ job.url \in Urls
  BY DEF IInv, TabsStand, JobStands
<1>2. h \in Fits(HistoryLimit) /\ UrlOf(h) = job.url
  BY <1>1, TabReplaced, ReplacedFits DEF AwakeTab
<1>3. /\ history' = h /\ active' = Landing /\ astray' = "no"
      /\ \/ tabs' = ready /\ UNCHANGED card
         \/ transition.added /\ Hibernate(ready, p)
  BY DEF FinishTab, Closing, Landing
<1> HIDE DEF h
<1>4. h \in Fits(SessionLimit)
  BY <1>2, WiderFits
<1>5. TabsFit(s, card) /\ Landing \in 1 .. Len(s)
  BY <1>1, ClosingFits
<1>6. /\ TabsFit(ready, card) /\ Len(ready) = Len(s)
      /\ AwakeTab(ready[Landing]) /\ ready[Landing] = Awake(Window(h))
  BY <1>4, <1>5, CapturedFits
<1> HIDE DEF ready
<1>7. TransitionStands' /\ ~transition'.pending
  BY NoTransitionShape DEF TransitionStands
<1>8. CASE tabs' = ready /\ UNCHANGED card
  <2>1. TabsStand'
    BY <1>3, <1>5, <1>6, <1>8 DEF TabsStand
  <2> QED BY <1>1, <1>2, <1>3, <1>4, <1>6, <1>7, <1>8, <2>1, CommitKeeps
<1>9. CASE transition.added /\ Hibernate(ready, p)
  <2>1. s = tabs /\ Landing = active
    BY <1>9 DEF Closing, Landing, IInv, TransitionStands
  <2>2. p \in 1 .. Len(ready) /\ p # Landing
    BY <1>6, <2>1 DEF IInv, TransitionStands
  <2>3. /\ \A j \in 1 .. Len(ready) : ~ready[j].asleep
        /\ tabs' = [ready EXCEPT ![p] = Sleeper]
        /\ card' = AsHistory(ready[p])
    <3>1. DOMAIN ready = 1 .. Len(ready)
      BY <1>6, LenProperties DEF TabsFit
    <3> QED BY <1>9, <3>1 DEF Hibernate
  <2> HIDE DEF p
  <2> DEFINE z == [ready EXCEPT ![p] = Sleeper]
  <2>6. /\ TabsFit(z, AsHistory(ready[p])) /\ Len(z) = Len(ready)
        /\ \A j \in 1 .. Len(ready) : j # p => z[j] = ready[j]
    BY <1>6, <2>2, <2>3, HibernateFits
  <2> HIDE DEF z
  <2>7. tabs' = z
    BY <2>3 DEF z
  <2>4. /\ TabsFit(tabs', card') /\ Len(tabs') = Len(ready)
        /\ tabs'[Landing] = ready[Landing]
    BY <1>5, <1>6, <2>2, <2>3, <2>6, <2>7
  <2>5. TabsStand'
    BY <1>3, <1>5, <1>6, <2>4 DEF TabsStand
  <2> QED BY <1>1, <1>2, <1>3, <1>4, <1>6, <1>7, <2>4, <2>5, CommitKeeps
<1> QED BY <1>3, <1>8, <1>9

LEMMA CommitActionKeeps == ASSUME IInv, Commit PROVE IInv'
<1>1. ~Idle
  BY DEF Commit, Idle
<1>2. CASE Settle(Outcome)
  <2>1. CASE ~transition.pending
    BY <1>1, <1>2, <2>1, SettlePlainKeeps
  <2>2. CASE transition.pending
    BY <1>1, <1>2, <2>2, FinishTabKeeps, LimitTabKeeps DEF Settle
  <2> QED BY <2>1, <2>2
<1>3. CASE SettleCancelled(Outcome)
  BY <1>1, <1>3, SettleCancelledKeeps
<1>4. CASE Fails(page)
  BY <1>4, FailsKeeps
<1> QED BY <1>2, <1>3, <1>4 DEF Commit

-----------------------------------------------------------------------------
\* Tab requests, between loads.
LEMMA BetweenLoads ==
    ASSUME IInv, MayRequest
    PROVE  /\ job = NoJob /\ ~job.moved /\ transition = NoTransition
           /\ Owner = active /\ (\A shown : Restored(shown) = history)
           /\ TabsFit(tabs, card) /\ active \in 1 .. Len(tabs)
           /\ TabsFit(Current, card) /\ Len(Current) = Len(tabs)
           /\ Len(tabs) \in Nat
           /\ Current[active] = Awake(Window(history))
           /\ AwakeTab(Current[active])
           /\ \A j \in 1 .. Len(tabs) : j # active => Current[j] = tabs[j]
<1>1. /\ job = NoJob /\ ~job.moved /\ (\A shown : Restored(shown) = history)
  BY IdleRests DEF MayRequest
<1>2. transition = NoTransition /\ Owner = active
  BY DEF MayRequest, IInv, TransitionStands, Owner
<1>3. TabsFit(tabs, card) /\ active \in 1 .. Len(tabs)
      /\ history \in Fits(SessionLimit)
  BY DEF IInv, TabsStand, Typed
<1> QED BY <1>1, <1>2, <1>3, CapturedFits DEF Current

\* After a request the document is accounted for as before, and the tab it is
\* in keeps its history.
LEMMA RequestedKeeps ==
    ASSUME IInv, MayRequest, UNCHANGED <<history, page>>, astray' = Caught,
           JobStands', ~job'.moved, TabsStand', TransitionStands',
           tabs'[Owner'] = Awake(Window(history))
    PROVE  IInv'
<1>1. Restored(page) = history /\ Restored(page)' = history
  BY BetweenLoads DEF Restored
<1>2. astray' \in {"no", "page", "tab"}
      /\ (astray' # "page" => astray # "page")
  BY DEF Caught, IInv, Typed
<1>3. Typed'
  BY <1>2 DEF IInv, Typed
<1>4. Kept'
  BY <1>1 DEF Kept
<1>5. Filed'
  BY <1>1, <1>2 DEF Filed, IInv
<1> QED BY <1>3, <1>4, <1>5 DEF IInv

LEMMA StillIdle ==
    ASSUME IInv, MayRequest, UNCHANGED <<job, history>>
    PROVE  JobStands' /\ ~job'.moved
BY BetweenLoads, JobOver DEF IInv, Typed

LEMMA StillNoTransition ==
    ASSUME IInv, MayRequest, UNCHANGED transition
    PROVE  TransitionStands' /\ Owner' = active'
BY BetweenLoads, NoTransitionShape DEF TransitionStands, Owner

\* A request, as far as it gets.
LEMMA RequestKeeps ==
    ASSUME IInv, MayRequest, NEW s, NEW i \in 1 .. Len(s), i # active,
           active \in 1 .. Len(s), AwakeTab(s[i]), s[active] = Current[active],
           NEW t \in [pending : BOOLEAN, added : BOOLEAN, previous : Nat,
                      closes : BOOLEAN],
           t.added => i = Len(s) /\ ~t.closes,
           TabsFit(s, IF t.added THEN card ELSE CardWithout(i)),
           Request(s, i, t)
    PROVE  IInv'
<1>1. /\ Current[active] = Awake(Window(history)) /\ AwakeTab(Current[active])
      /\ TabsFit(Current, card) /\ active \in 1 .. Len(Current)
  BY BetweenLoads
<1>2. UNCHANGED <<history, page>> /\ astray' = Caught
  BY DEF Request
<1>3. CASE /\ job' \in Begun(UrlOf(s[i]), [NoJob EXCEPT !.loose = TRUE])
           /\ tabs' = s /\ active' = i
           /\ transition' = [t EXCEPT !.pending = TRUE, !.previous = active]
           /\ card' = IF t.added THEN card ELSE CardWithout(i)
  <2> DEFINE how == [NoJob EXCEPT !.loose = TRUE]
             h == AsHistory(s[i])
             u == UrlOf(s[i])
  <2>1. how \in Jobs /\ ~how.moved /\ how.previous = 1 /\ ~Plain(how)
    BY Armed
  <2>2. u \in Urls
    <3>1. h \in Fits(HistoryLimit) /\ UrlOf(h) = u
      BY DEF AwakeTab, AsHistory, UrlOf
    <3> QED BY <3>1, FitsParts
  <2>3. job' \in Begun(u, how)
    BY <1>3
  <2> HIDE DEF how, h, u
  <2>4. /\ job' \in Jobs /\ job'.phase # "none" /\ job'.url = u
        /\ ~job'.moved /\ job'.previous = 1 /\ ~Plain(job')
    BY <2>1, <2>2, <2>3, BegunShape
  <2>5. Len(history'.entries) \in Nat /\ 1 <= Len(history'.entries)
    <3>1. Len(history.entries) \in Nat /\ history.at \in Nat
          /\ history.at >= 1 /\ history.at <= Len(history.entries)
      BY FitsParts DEF IInv, Typed
    <3> QED BY <1>2, <3>1
  <2>6. JobStands' /\ ~job'.moved
    BY <2>2, <2>4, <2>5 DEF JobStands, Idle
  <2>7. TabsStand'
    BY <1>3 DEF TabsStand
  <2>8. /\ transition' \in [pending : BOOLEAN, added : BOOLEAN, previous : Nat,
                            closes : BOOLEAN]
        /\ transition'.pending /\ transition'.previous = active
        /\ transition'.added = t.added /\ transition'.closes = t.closes
    <3>1. transition' = [pending |-> TRUE, added |-> t.added,
                         previous |-> active, closes |-> t.closes]
      BY <1>3
    <3>2. active \in Nat /\ t.added \in BOOLEAN /\ t.closes \in BOOLEAN
      BY DEF IInv, TabsStand
    <3> QED BY <3>1, <3>2
  <2>9. TransitionStands' /\ Owner' = active
    BY <1>1, <1>3, <2>8 DEF TransitionStands, Owner
  <2> QED BY <1>1, <1>2, <1>3, <2>6, <2>7, <2>9, RequestedKeeps
<1>4. CASE /\ tabs' = IF t.added THEN Current ELSE s
           /\ card' = IF t.added THEN card ELSE CardWithout(i)
           /\ UNCHANGED <<job, active, transition>>
  <2>1. TabsStand' /\ tabs'[active] = Awake(Window(history))
    BY <1>1, <1>4 DEF TabsStand
  <2> QED BY <1>2, <1>4, <2>1, RequestedKeeps, StillIdle, StillNoTransition
<1>5. CASE /\ tabs' = Current
           /\ UNCHANGED <<job, active, card, transition>>
  <2>1. TabsStand' /\ tabs'[active] = Awake(Window(history))
    BY <1>1, <1>5 DEF TabsStand
  <2> QED BY <1>2, <1>5, <2>1, RequestedKeeps, StillIdle, StillNoTransition
<1> QED BY <1>3, <1>4, <1>5 DEF Request

\* A tab that is woken: another than the active one.
LEMMA WokenCurrent ==
    ASSUME IInv, MayRequest, NEW i \in 1 .. Len(tabs), i # active
    PROVE  /\ TabsFit(Woken(Current, i), CardWithout(i))
           /\ Len(Woken(Current, i)) = Len(tabs)
           /\ AwakeTab(Woken(Current, i)[i])
           /\ Woken(Current, i)[active] = Current[active]
<1> DEFINE c == Current
<1>1. /\ TabsFit(c, card) /\ Len(c) = Len(tabs) /\ c[i] = tabs[i]
      /\ active \in 1 .. Len(tabs)
  BY BetweenLoads
<1> HIDE DEF c
<1>2. /\ TabsFit(Woken(c, i), IF c[i].asleep THEN NoFile ELSE card)
      /\ Len(Woken(c, i)) = Len(c) /\ AwakeTab(Woken(c, i)[i])
      /\ \A j \in 1 .. Len(c) : j # i => Woken(c, i)[j] = c[j]
  BY <1>1, WokenFits
<1>3. CardWithout(i) = IF c[i].asleep THEN NoFile ELSE card
  BY <1>1 DEF CardWithout
<1> QED BY <1>1, <1>2, <1>3 DEF c

LEMMA SwitchTabKeeps ==
    ASSUME IInv, NEW i \in DOMAIN tabs, SwitchTab(i) PROVE IInv'
<1>1. MayRequest /\ i # active /\ Request(Woken(Current, i), i, NoTransition)
  BY DEF SwitchTab
<1>2. i \in 1 .. Len(tabs) /\ active \in 1 .. Len(tabs)
  BY LenProperties DEF IInv, TabsStand, TabsFit
<1> QED BY <1>1, <1>2, WokenCurrent, NoTransitionShape, RequestKeeps

LEMMA CloseActiveKeeps == ASSUME IInv, CloseActive PROVE IInv'
<1> DEFINE i == IF active < Len(tabs) THEN active + 1 ELSE active - 1
           t == [NoTransition EXCEPT !.closes = TRUE]
<1>1. MayRequest /\ Len(tabs) > 1 /\ Request(Woken(Current, i), i, t)
  BY DEF CloseActive
<1>2. active \in 1 .. Len(tabs) /\ Len(tabs) \in Nat
  BY LenProperties DEF IInv, TabsStand, TabsFit
<1>3. i \in 1 .. Len(tabs) /\ i # active
  BY <1>1, <1>2
<1>4. /\ t \in [pending : BOOLEAN, added : BOOLEAN, previous : Nat,
                closes : BOOLEAN]
      /\ ~t.added
  BY DEF NoTransition
<1> HIDE DEF i, t
<1> QED BY <1>1, <1>2, <1>3, <1>4, WokenCurrent, RequestKeeps

LEMMA NewTabKeeps == ASSUME IInv, NEW u \in Urls, NewTab(u) PROVE IInv'
<1> DEFINE n == Len(tabs)
           s == Append(Current, Awake(Single(u)))
           t == [NoTransition EXCEPT !.added = TRUE]
<1>1. MayRequest /\ n < TabLimit /\ Request(s, n + 1, t)
  BY DEF NewTab
<1>2. AwakeTab(Awake(Single(u)))
  BY SingleFits, AwakeIsAwake, Limits
<1>3. TabsFit(Current, card) /\ Len(Current) = n /\ active \in 1 .. n
      /\ n \in Nat
  BY <1>1, BetweenLoads
<1> HIDE DEF n
<1>4. /\ TabsFit(s, card) /\ Len(s) = n + 1 /\ AwakeTab(s[n + 1])
      /\ s[active] = Current[active]
  BY <1>1, <1>2, <1>3, AppendFits
<1>5. /\ t \in [pending : BOOLEAN, added : BOOLEAN, previous : Nat,
                closes : BOOLEAN]
      /\ t.added /\ ~t.closes
  BY DEF NoTransition
<1> HIDE DEF s, t
<1>6. n + 1 \in 1 .. Len(s) /\ n + 1 # active /\ active \in 1 .. Len(s)
  BY <1>3, <1>4
<1> QED BY <1>1, <1>4, <1>5, <1>6, RequestKeeps

LEMMA CloseTabKeeps ==
    ASSUME IInv, NEW i \in DOMAIN tabs, CloseTab(i) PROVE IInv'
<1> DEFINE s == Current
<1>1. /\ MayRequest /\ i # active /\ tabs' = Removed(s, i)
      /\ active' = Shifted(active, i) /\ card' = CardWithout(i)
      /\ astray' = Caught /\ UNCHANGED <<history, page, job, transition>>
  BY DEF CloseTab
<1>2. i \in 1 .. Len(tabs)
  BY LenProperties DEF IInv, TabsStand, TabsFit
<1>3. /\ TabsFit(s, card) /\ Len(s) = Len(tabs) /\ s[i] = tabs[i]
      /\ Len(tabs) \in Nat /\ active \in 1 .. Len(tabs)
      /\ AwakeTab(s[active]) /\ s[active] = Awake(Window(history))
  BY <1>1, <1>2, BetweenLoads
<1> HIDE DEF s
<1>4. Len(s) > 1 /\ s \in Seq(TabShape)
  BY <1>1, <1>2, <1>3 DEF TabsFit
<1>5. /\ TabsFit(Removed(s, i), card)
      /\ s[i].asleep => TabsFit(Removed(s, i), NoFile)
      /\ Len(Removed(s, i)) = Len(s) - 1
  BY <1>2, <1>3, <1>4, RemovedFits
<1>6. TabsFit(tabs', card')
  BY <1>1, <1>3, <1>5 DEF CardWithout
<1>7. active' \in 1 .. Len(tabs') /\ tabs'[active'] = s[active]
  BY <1>1, <1>2, <1>3, <1>4, <1>5, ShiftedProperties
<1>8. TabsStand' /\ tabs'[active'] = Awake(Window(history))
  BY <1>3, <1>6, <1>7 DEF TabsStand
<1> QED BY <1>1, <1>8, RequestedKeeps, StillIdle, StillNoTransition

-----------------------------------------------------------------------------
\* Every step keeps the invariant.
LEMMA NextKeeps == ASSUME IInv, [Next]_vars PROVE IInv'
<1>1. CASE \E u \in Urls : Link(u) \/ ScriptReplace(u) \/ Retry(u)
  BY <1>1, BeginKeeps
<1>2. CASE Reload
  <2>1. UrlOf(history) \in Urls
    BY FitsParts DEF IInv, Typed
  <2> QED BY <1>2, <2>1, BeginKeeps
<1>3. CASE \E u \in Urls : PreviewLink(u) \/ NewTab(u)
  BY <1>3, PreviewLinkKeeps, NewTabKeeps
<1>4. CASE \E to \in DOMAIN history.entries : Move(to)
  BY <1>4, MoveKeeps
<1>5. CASE Pump
  BY <1>5, AdapterKeeps, CancelsKeeps, FailsKeeps, ParseKeeps,
     CommitActionKeeps DEF Pump, Download, FailFetch
<1>6. CASE CancelLoad \/ Suspend
  BY <1>6, CancelsKeeps, SuspendKeeps DEF CancelLoad
<1>7. CASE CloseActive \/ \E i \in DOMAIN tabs : SwitchTab(i) \/ CloseTab(i)
  BY <1>7, CloseActiveKeeps, SwitchTabKeeps, CloseTabKeeps
<1>8. CASE UNCHANGED vars
  BY <1>8 DEF vars, IInv, Typed, JobStands, Idle, TabsStand, TransitionStands,
     Kept, Filed, Owner, Restored
<1> QED BY <1>1, <1>2, <1>3, <1>4, <1>5, <1>6, <1>7, <1>8 DEF Next

LEMMA Starts == Init => IInv
<1> SUFFICES ASSUME Init PROVE IInv
  OBVIOUS
<1>1. PICK u \in Urls : /\ history = Single(u) /\ page = u
                        /\ tabs = <<Awake(Single(u))>> /\ active = 1
  BY DEF Init
<1>2. card = NoFile /\ job = NoJob /\ transition = NoTransition
      /\ astray = "no"
  BY DEF Init
<1> DEFINE h == Single(u)
<1>3. /\ h \in Fits(SessionLimit) /\ h \in Fits(HistoryLimit) /\ UrlOf(h) = u
      /\ Window(h) \in Fits(HistoryLimit)
  BY SingleFits, WindowFits, Limits
<1>4. Window(h) = h
  <2> DEFINE e == <<u>>
  <2>1. h = [entries |-> e, at |-> 1]
    BY DEF Single
  <2>2. e \in Seq(Urls) /\ Len(e) = 1
    OBVIOUS
  <2> HIDE DEF h, e
  <2>3. 1 <= HistoryLimit /\ HistoryLimit \in Nat
    BY Limits
  <2>4. Window(h) = [entries |-> SubSeq(e, 0 + 1, 0 + 1), at |-> 1 - 0]
    <3>1. h.at = 1 /\ h.entries = e
      BY <2>1
    <3>2. /\ (Len(e) <= HistoryLimit \/ 1 < HistoryLimit)
          /\ ~(Len(e) - 0 > HistoryLimit) /\ Len(e) - 0 = 1
      BY <2>2, <2>3
    <3> QED BY <3>1, <3>2 DEF Window
  <2>5. SubSeq(e, 1, Len(e)) = e
    BY <2>2, SubSeqFull
  <2>6. 0 + 1 = 1 /\ 1 - 0 = 1 /\ SubSeq(e, 1, 1) = e
    BY <2>2, <2>5
  <2> QED BY <2>1, <2>4, <2>6
<1>5. AwakeTab(Awake(h))
  BY <1>3, AwakeIsAwake
<1> DEFINE t == Awake(h)
<1>6. tabs = <<t>>
  BY <1>1
<1> HIDE DEF t
<1>7. t \in TabShape /\ ~t.asleep /\ AwakeTab(t)
  BY <1>5 DEF AwakeTab, t
<1>8. tabs \in Seq(TabShape) /\ Len(tabs) = 1 /\ tabs[1] = t
  BY <1>6, <1>7
<1>9. TabsFit(tabs, card)
  BY <1>2, <1>7, <1>8, Limits DEF TabsFit
<1>10. TabsStand
  BY <1>1, <1>7, <1>8, <1>9 DEF TabsStand
<1>11. TransitionStands /\ Owner = active
  BY <1>2, NoTransitionShape DEF TransitionStands, Owner
<1>12. JobStands /\ ~job.moved
  <2>1. Len(history.entries) \in Nat /\ history.at \in Nat
        /\ history.at >= 1 /\ history.at <= Len(history.entries)
    BY <1>1, <1>3, FitsParts
  <2> QED BY <1>2, <2>1, NoJobShape DEF JobStands, Idle
<1>13. Restored(page) = h
  BY <1>1, <1>12 DEF Restored
<1>14. Typed
  BY <1>1, <1>2, <1>3 DEF Typed
<1>15. Kept
  BY <1>1, <1>4, <1>8, <1>11, <1>13 DEF Kept, t
<1>16. Filed
  BY <1>1, <1>3, <1>13 DEF Filed
<1> QED BY <1>10, <1>11, <1>12, <1>14, <1>15, <1>16 DEF IInv

\* The inductive invariant holds.
THEOREM IInvHolds == Spec => []IInv
<1>1. IInv /\ [Next]_vars => IInv'
  BY NextKeeps
<1> QED BY <1>1, Starts, PTL DEF Spec

\* Between loads the active tab keeps the engine's history, as much of it as a
\* tab keeps, and the page is that of the entry under the cursor: for any
\* addresses, any limits, and any order of loads, failures and tab requests.
THEOREM TabOwns == Spec => []TabOwnsHistory
<1>1. IInv => TabOwnsHistory
  <2> SUFFICES ASSUME IInv, Idle, ~transition.pending, page # NoPage,
                      astray = "no"
               PROVE  /\ AsHistory(tabs[active]) = Window(history)
                      /\ ~tabs[active].asleep
                      /\ page = UrlOf(history)
    BY DEF TabOwnsHistory
  <2>1. Owner = active /\ Restored(page) = history
    BY IdleRests DEF Owner
  <2>2. tabs[active] = Awake(Window(history)) /\ page = UrlOf(history)
    BY <2>1 DEF IInv, Kept, Filed
  <2>3. Window(history) \in Fits(HistoryLimit)
    BY WindowFits DEF IInv, Typed
  <2>4. AsHistory(tabs[active]) = Window(history)
    BY <2>2, <2>3, AwakeIsAwake
  <2>5. ~tabs[active].asleep
    BY DEF IInv, TabsStand, AwakeTab
  <2> QED BY <2>2, <2>4, <2>5
<1> QED BY <1>1, IInvHolds, PTL

\* Histories, tabs, card and load stay in their types and limits.
THEOREM TypesHold == Spec => []TypeOK
<1>1. IInv => TypeOK
  <2> SUFFICES ASSUME IInv PROVE TypeOK
    OBVIOUS
  <2>1. history \in Histories(SessionLimit)
        /\ card \in Histories(HistoryLimit) \cup {NoFile}
    BY FitsAreHistories, Limits DEF IInv, Typed, TabsStand, TabsFit
  <2>2. Len(tabs) \in 1 .. TabLimit /\ DOMAIN tabs = 1 .. Len(tabs)
    BY LenProperties, Limits DEF IInv, TabsStand, TabsFit
  <2>3. active \in DOMAIN tabs
    BY <2>2 DEF IInv, TabsStand
  <2>4. ASSUME NEW i \in DOMAIN tabs
        PROVE  \/ tabs[i] = Sleeper
               \/ /\ ~tabs[i].asleep
                  /\ AsHistory(tabs[i]) \in Histories(HistoryLimit)
    BY <2>2, FitsAreHistories, Limits DEF IInv, TabsStand, TabsFit, AwakeTab
  <2>5. job \in [phase : Phases, url : Urls \cup {NoPage}, record : BOOLEAN,
                 replace : BOOLEAN, moved : BOOLEAN,
                 previous : 1 .. SessionLimit, loose : BOOLEAN]
    <3>1. Len(history.entries) <= SessionLimit /\ Len(history.entries) \in Nat
      BY FitsParts DEF IInv, Typed
    <3>2. job \in Jobs /\ job.previous >= 1
          /\ job.previous <= Len(history.entries) /\ job.previous \in Nat
      BY DEF IInv, JobStands, Jobs
    <3>3. job.previous \in 1 .. SessionLimit
      BY <3>1, <3>2, Limits
    <3> QED BY <3>2, <3>3 DEF Jobs
  <2>6. transition \in [pending : BOOLEAN, added : BOOLEAN,
                        previous : 1 .. TabLimit, closes : BOOLEAN]
    <3>1. transition \in [pending : BOOLEAN, added : BOOLEAN, previous : Nat,
                          closes : BOOLEAN]
      BY DEF IInv, TransitionStands
    <3>2. transition.previous \in 1 .. TabLimit
      <4>1. CASE transition.pending
        BY <2>2, <4>1, Limits DEF IInv, TransitionStands
      <4>2. CASE ~transition.pending
        BY <4>2, Limits DEF IInv, TransitionStands, NoTransition
      <4> QED BY <4>1, <4>2
    <3> QED BY <3>1, <3>2
  <2> QED BY <2>1, <2>2, <2>3, <2>4, <2>5, <2>6 DEF TypeOK, IInv, Typed
<1> QED BY <1>1, IInvHolds, PTL

-----------------------------------------------------------------------------
(***************************************************************************)
(* What the user sees, tab by tab: the tab of a transition in progress is  *)
(* not there yet, a sleeping tab has its history on the card, and the      *)
(* owner's is the engine's without the move in progress.                   *)
(***************************************************************************)
Told(i) == IF tabs[i].asleep THEN card ELSE AsHistory(tabs[i])
Number == IF transition.added THEN Len(tabs) - 1 ELSE Len(tabs)

\* The owner is one of the tabs seen, and awake.
LEMMA OwnerIsHere ==
    ASSUME IInv
    PROVE  /\ Number \in Nat /\ Owner \in 1 .. Number
           /\ Number \in 1 .. Len(tabs) /\ Len(tabs) \in Nat
           /\ AwakeTab(tabs[Owner])
<1>1. /\ Len(tabs) \in Nat /\ active \in 1 .. Len(tabs)
      /\ AwakeTab(tabs[active])
  BY LenProperties DEF IInv, TabsStand, TabsFit
<1>2. CASE transition.pending
  <2>1. /\ transition.previous \in 1 .. Len(tabs)
        /\ transition.previous # active
        /\ AwakeTab(tabs[transition.previous])
        /\ transition.added => active = Len(tabs)
    BY <1>2 DEF IInv, TransitionStands
  <2> QED BY <1>1, <1>2, <2>1 DEF Owner, Number
<1>3. CASE ~transition.pending
  <2>1. ~transition.added
    BY <1>3, NoTransitionShape DEF IInv, TransitionStands
  <2> QED BY <1>1, <1>3, <2>1 DEF Owner, Number
<1> QED BY <1>2, <1>3

LEMMA ToldFits ==
    ASSUME IInv, NEW i \in 1 .. Len(tabs)
    PROVE  Told(i) \in Fits(HistoryLimit) /\ Told(i) \in Fits(SessionLimit)
<1>1. Told(i) \in Fits(HistoryLimit)
  BY DEF IInv, TabsStand, TabsFit, Told, AwakeTab, Sleeper
<1> QED BY <1>1, WiderFits

\* SeenTabs, element by element.
SeenSo ==
    /\ SeenTabs \in Seq(Fits(SessionLimit)) /\ Len(SeenTabs) = Number
    /\ DOMAIN SeenTabs = 1 .. Number
    /\ \A i \in 1 .. Number :
         SeenTabs[i] = IF i = Owner THEN Restored(page) ELSE Told(i)
    /\ Number \in Nat /\ Owner \in 1 .. Number
    /\ Restored(page) \in Fits(SessionLimit)

\* SeenTabs is the sequence SeenSo describes.
LEMMA SeenIs == IInv => SeenSo
<1> SUFFICES ASSUME IInv PROVE SeenSo
  OBVIOUS
<1> DEFINE kept == IF transition.added THEN Removed(tabs, active) ELSE tabs
           f == [i \in DOMAIN kept |-> IF i = Owner THEN Restored(page)
                    ELSE IF kept[i].asleep THEN card ELSE AsHistory(kept[i])]
           n == Number
<1>1. /\ n \in Nat /\ n \in 1 .. Len(tabs) /\ Len(tabs) \in Nat
      /\ tabs \in Seq(TabShape) /\ active \in 1 .. Len(tabs)
  BY OwnerIsHere DEF IInv, TabsStand, TabsFit
<1>2. /\ kept \in Seq(TabShape) /\ Len(kept) = n
      /\ \A i \in 1 .. n : kept[i] = tabs[i]
  <2>1. CASE transition.added
    <3>1. active = Len(tabs) /\ n = Len(tabs) - 1
      BY <2>1 DEF IInv, TransitionStands, Number
    <3>2. /\ Removed(tabs, active) \in Seq(TabShape)
          /\ Len(Removed(tabs, active)) = Len(tabs) - 1
          /\ \A j \in 1 .. Len(tabs) - 1 :
               Removed(tabs, active)[j] = IF j < active THEN tabs[j]
                                                        ELSE tabs[j + 1]
      BY <1>1, RemovedProperties
    <3>3. kept = Removed(tabs, active)
      BY <2>1
    <3> HIDE DEF kept, n
    <3> QED BY <1>1, <3>1, <3>2, <3>3
  <2>2. CASE ~transition.added
    BY <1>1, <2>2 DEF Number
  <2> QED BY <2>1, <2>2
<1>3. SeenTabs = SubSeq(f, 1, Len(kept))
  BY DEF SeenTabs
<1> HIDE DEF kept, n
<1>4. DOMAIN kept = 1 .. n
  BY <1>2, LenProperties
<1>5. \A i \in 1 .. n : f[i] = IF i = Owner THEN Restored(page) ELSE Told(i)
  BY <1>2, <1>4 DEF Told
<1>6. \A i \in 1 .. n : f[i] \in Fits(SessionLimit)
  BY <1>1, <1>5, RestoredFits, ToldFits
<1> HIDE DEF f
<1>7. /\ SubSeq(f, 1, n) \in Seq(Fits(SessionLimit))
      /\ Len(SubSeq(f, 1, n)) = n
      /\ \A i \in 1 .. n : SubSeq(f, 1, n)[i] = f[i]
  <2>1. n - 1 + 1 = n /\ 1 <= n /\ 1 \in Int /\ n \in Int
    BY <1>1
  <2>2. /\ SubSeq(f, 1, n) \in Seq(Fits(SessionLimit))
        /\ Len(SubSeq(f, 1, n)) = IF 1 <= n THEN n - 1 + 1 ELSE 0
        /\ \A i \in 1 .. n - 1 + 1 : SubSeq(f, 1, n)[i] = f[1 + i - 1]
    BY <1>6, <2>1, SubSeqProperties
  <2>3. \A i \in 1 .. n : 1 + i - 1 = i
    BY <1>1
  <2> QED BY <2>1, <2>2, <2>3
<1>8. SeenTabs = SubSeq(f, 1, n)
  BY <1>2, <1>3
<1>9. /\ Number \in Nat /\ Owner \in 1 .. Number
      /\ Restored(page) \in Fits(SessionLimit)
  BY OwnerIsHere, RestoredFits
<1> QED BY <1>5, <1>7, <1>8, <1>9, LenProperties DEF SeenSo, n

LEMMA SeenIsNext == IInv' => SeenSo'
BY SeenIs, PTL

\* A step after which the same tabs are there and all but the owner's say what
\* they said.
OthersRest == /\ Number' = Number /\ Owner' = Owner
              /\ \A i \in 1 .. Number : i # Owner => Told(i)' = Told(i)

\* Then only the owner's history can be seen to change.
LEMMA SeenRest ==
    ASSUME IInv, IInv', OthersRest
    PROVE  /\ SeenTabs' = [SeenTabs EXCEPT ![Owner] = Restored(page)']
           /\ Restored(page)' \in Fits(SessionLimit)
<1> DEFINE n == Number
           o == Owner
           r == Restored(page)'
           s == SeenTabs
           t == SeenTabs'
<1>1. /\ s \in Seq(Fits(SessionLimit)) /\ Len(s) = n
      /\ \A i \in 1 .. n : s[i] = IF i = o THEN Restored(page) ELSE Told(i)
      /\ o \in 1 .. n
  BY SeenIs DEF SeenSo
<1>2. /\ t \in Seq(Fits(SessionLimit)) /\ Len(t) = Number'
      /\ \A i \in 1 .. Number' : t[i] = IF i = Owner' THEN r ELSE Told(i)'
  BY SeenIsNext DEF SeenSo
<1>3. r \in Fits(SessionLimit)
  BY SeenIsNext DEF SeenSo
<1>4. Number' = n /\ Owner' = o
  BY DEF OthersRest
<1>5. \A i \in 1 .. n : i # o => Told(i)' = Told(i)
  BY DEF OthersRest
<1>6. \A i \in 1 .. n : t[i] = IF i = o THEN r ELSE s[i]
  BY <1>1, <1>2, <1>4, <1>5
<1>7. Len(t) = Len(s)
  BY <1>1, <1>2, <1>4
<1> HIDE DEF n, o, r, s, t
<1> DEFINE z == [s EXCEPT ![o] = r]
<1>8. /\ z \in Seq(Fits(SessionLimit)) /\ Len(z) = Len(s)
      /\ \A i \in 1 .. Len(s) : z[i] = IF i = o THEN r ELSE s[i]
  BY <1>1, <1>3, <1>4, ExceptSeq
<1> HIDE DEF z
<1>9. t = z
  <2>1. t \in Seq(Fits(SessionLimit))
    BY <1>2 DEF t
  <2>2. Len(z) = Len(t) /\ \A i \in 1 .. Len(t) : t[i] = z[i]
    BY <1>1, <1>6, <1>7, <1>8
  <2> QED BY <1>8, <2>1, <2>2, SeqEqual
<1> QED BY <1>3, <1>9 DEF z, s, t, o, r

-----------------------------------------------------------------------------
\* A load is begun in one way and the cursor moves by one; the tab that is to
\* be left keeps what it should, and the target of a transition is the one the
\* request chose.
OneWay(j) == /\ j.record => ~j.replace /\ ~j.moved /\ ~j.loose
             /\ j.replace => ~j.moved /\ ~j.loose
             /\ j.moved => ~j.loose

LoadStands == /\ OneWay(job)
              /\ job.moved => \/ history.at = job.previous - 1
                              \/ history.at = job.previous + 1

\* What a tab may keep of the history h when it is left.
Behind(h, shown) ==
    {Window([h EXCEPT !.at = c]) : c \in IF shown = NoPage THEN DOMAIN h.entries
                                                            ELSE {h.at}}

\* The tab that is selected when tab i of n closes.
Neighbour(i, n) == IF i < n THEN i + 1 ELSE i - 1

\* A tab that is being left keeps a window of what a failure goes back to; a
\* tab made for a load has one entry; one that closes gives way to its
\* neighbour.
LeavingStands ==
    /\ transition.pending =>
         /\ astray # "tab"
         /\ AsHistory(tabs[transition.previous]) \in Behind(Restored(page), page)
    /\ transition.added => \E v \in Urls : tabs[active] = Awake(Single(v))
    /\ transition.closes =>
         active = Neighbour(transition.previous, Len(tabs))

Whole == IInv /\ LoadStands /\ LeavingStands

\* A history with its own cursor.
LEMMA SameCursor ==
    ASSUME NEW limit, NEW h \in Fits(limit)
    PROVE  [h EXCEPT !.at = h.at] = h
BY FitsParts

LEMMA NoneLeaving ==
    ASSUME transition' = NoTransition PROVE LeavingStands'
BY NoTransitionShape DEF LeavingStands

LEMMA NoneLoading ==
    ASSUME job' = NoJob PROVE LoadStands'
BY DEF NoJob, LoadStands, OneWay

LEMMA BegunWay ==
    ASSUME NEW u \in Urls, NEW how \in Jobs, NEW j \in Begun(u, how),
           OneWay(how)
    PROVE  OneWay(j)
<1>1. PICK p \in {"fetch", "adapter"} : j = [how EXCEPT !.phase = p, !.url = u]
  BY DEF Begun
<1>2. /\ j.record = how.record /\ j.replace = how.replace
      /\ j.moved = how.moved /\ j.loose = how.loose
  BY <1>1 DEF Jobs
<1> QED BY <1>2 DEF OneWay

LEMMA ArmedOneWay ==
    \A how \in {[NoJob EXCEPT !.record = TRUE], [NoJob EXCEPT !.replace = TRUE],
                [NoJob EXCEPT !.loose = TRUE], NoJob} : OneWay(how)
<1> DEFINE a == [NoJob EXCEPT !.record = TRUE]
           b == [NoJob EXCEPT !.replace = TRUE]
           c == [NoJob EXCEPT !.loose = TRUE]
<1>1. /\ a.record /\ ~a.replace /\ ~a.moved /\ ~a.loose
      /\ ~b.record /\ b.replace /\ ~b.moved /\ ~b.loose
      /\ ~c.record /\ ~c.replace /\ ~c.moved /\ c.loose
      /\ ~NoJob.record /\ ~NoJob.replace /\ ~NoJob.moved
  BY DEF NoJob
<1> HIDE DEF a, b, c
<1>2. OneWay(a) /\ OneWay(b) /\ OneWay(c) /\ OneWay(NoJob)
  BY <1>1 DEF OneWay
<1> QED BY <1>2 DEF a, b, c

\* A load that was begun on a cursor that stays.
LEMMA BegunStands ==
    ASSUME NEW u \in Urls,
           NEW how \in {[NoJob EXCEPT !.record = TRUE],
                        [NoJob EXCEPT !.replace = TRUE],
                        [NoJob EXCEPT !.loose = TRUE], NoJob},
           job' \in Begun(u, how)
    PROVE  LoadStands' /\ ~job'.moved
<1>1. how \in Jobs /\ ~how.moved /\ OneWay(how)
  BY Armed, ArmedOneWay
<1>2. ~job'.moved
  BY <1>1, BegunShape
<1>3. OneWay(job')
  BY <1>1, BegunWay
<1> QED BY <1>2, <1>3 DEF LoadStands

-----------------------------------------------------------------------------
\* What a step that commits nothing does to what is seen: nothing, or the page
\* is lost and the cursor shows.
CursorShows ==
    \E c \in DOMAIN Restored(page).entries :
        /\ c \in {Restored(page).at - 1, Restored(page).at, Restored(page).at + 1}
        /\ Restored(page)' = [Restored(page) EXCEPT !.at = c]
Rests == \/ page' = page /\ Restored(page)' = Restored(page)
         \/ page' = NoPage /\ CursorShows

\* What the tab that is left may keep, it may keep after such a step.
LEMMA BehindStays ==
    ASSUME IInv, Rests, NEW w \in Behind(Restored(page), page)
    PROVE  w \in Behind(Restored(page)', page')
<1> DEFINE r == Restored(page)
           q == Restored(page)'
<1>1. r \in Fits(SessionLimit)
  BY RestoredFits
<1>2. CASE page' = page /\ q = r
  BY <1>2
<1>3. CASE page' = NoPage /\ CursorShows
  <2>1. PICK c \in DOMAIN r.entries : q = [r EXCEPT !.at = c]
    BY <1>3 DEF CursorShows
  <2>2. PICK d \in DOMAIN r.entries : w = Window([r EXCEPT !.at = d])
    BY <1>1, FitsParts DEF Behind
  <2> HIDE DEF r, q
  <2>3. r = [entries |-> r.entries, at |-> r.at]
    BY <1>1, FitsParts
  <2>4. q.entries = r.entries /\ [q EXCEPT !.at = d] = [r EXCEPT !.at = d]
    BY <2>1, <2>3
  <2>5. w = Window([q EXCEPT !.at = d]) /\ d \in DOMAIN q.entries
    BY <2>2, <2>4
  <2> QED BY <1>3, <2>5 DEF Behind, q
<1> QED BY <1>2, <1>3 DEF Rests

LEMMA UnchangedRests ==
    ASSUME IInv, UNCHANGED <<tabs, active, card, transition>>
    PROVE  OthersRest
BY DEF OthersRest, Number, Owner, Told

LEMMA LeavingRests ==
    ASSUME Whole, Rests, UNCHANGED <<tabs, active, transition, astray>>
    PROVE  LeavingStands'
BY BehindStays DEF Whole, LeavingStands

\* The cursor as the load moved it, seen from where it was.
LEMMA CursorIsNear ==
    ASSUME Whole, Restored(page)' = history
    PROVE  CursorShows
<1> DEFINE r == Restored(page)
           c == history.at
<1>1. /\ r \in Fits(SessionLimit) /\ r.entries = history.entries
      /\ history \in Fits(SessionLimit)
  BY RestoredFits DEF Whole, IInv, Typed
<1>2. /\ history = [entries |-> history.entries, at |-> c]
      /\ r = [entries |-> r.entries, at |-> r.at]
      /\ c \in DOMAIN r.entries /\ c \in Nat /\ r.at \in Nat
  BY <1>1, FitsParts
<1>3. c \in {r.at - 1, r.at, r.at + 1}
  <2>1. CASE job.moved /\ page # NoPage
    <3>1. r.at = job.previous
      BY <1>2, <2>1 DEF Restored
    <3>2. c = job.previous - 1 \/ c = job.previous + 1
      BY <2>1 DEF Whole, LoadStands
    <3> QED BY <3>1, <3>2
  <2>2. CASE ~(job.moved /\ page # NoPage)
    BY <2>2 DEF Restored
  <2> QED BY <2>1, <2>2
<1> HIDE DEF r, c
<1>4. history = [r EXCEPT !.at = c]
  BY <1>1, <1>2
<1> QED BY <1>2, <1>3, <1>4 DEF CursorShows, r

-----------------------------------------------------------------------------
\* The steps that begin a load or let it go on.
LEMMA BeginRests ==
    ASSUME Whole, NEW u \in Urls,
           Link(u) \/ ScriptReplace(u) \/ Retry(u) \/ Reload
    PROVE  Rests /\ LoadStands'
<1>1. Idle /\ \A shown : Restored(shown) = history
  BY IdleRests DEF Whole, Link, ScriptReplace, Retry, Reload
<1>2. UrlOf(history) \in Urls
  BY FitsParts DEF Whole, IInv, Typed
<1>3. LoadStands' /\ ~job'.moved
  <2>1. CASE Link(u)
    BY <2>1, BegunStands DEF Link
  <2>2. CASE ScriptReplace(u)
    BY <2>2, BegunStands DEF ScriptReplace
  <2>3. CASE Retry(u)
    BY <2>3, BegunStands DEF Retry
  <2>4. CASE Reload
    BY <1>2, <2>4, BegunStands DEF Reload
  <2> QED BY <2>1, <2>2, <2>3, <2>4
<1>4. UNCHANGED <<history, page>>
  BY DEF Link, ScriptReplace, Retry, Reload
<1>5. Restored(page)' = history
  BY <1>3, <1>4 DEF Restored
<1> QED BY <1>1, <1>3, <1>4, <1>5 DEF Rests

LEMMA MoveRests ==
    ASSUME Whole, NEW to \in DOMAIN history.entries, Move(to)
    PROVE  Rests /\ LoadStands'
<1>1. Idle /\ \A shown : Restored(shown) = history
  BY IdleRests DEF Whole, Move
<1>2. /\ history.entries \in Seq(Urls) /\ history.at \in Nat
      /\ history = [entries |-> history.entries, at |-> history.at]
      /\ DOMAIN history.entries = 1 .. Len(history.entries)
  BY FitsParts DEF Whole, IInv, Typed
<1>3. /\ to \in Nat /\ to \in {history.at - 1, history.at + 1}
      /\ history' = [history EXCEPT !.at = to] /\ UNCHANGED page
  BY <1>2 DEF Move
<1> DEFINE how == [NoJob EXCEPT !.moved = TRUE, !.previous = history.at]
<1>4. job' \in Begun(history.entries[to], how)
  BY DEF Move
<1>5. how \in Jobs /\ how.moved /\ how.previous = history.at /\ OneWay(how)
  BY <1>2 DEF NoJob, Jobs, Phases, OneWay
<1>6. history.entries[to] \in Urls
  BY <1>2
<1> HIDE DEF how
<1>7. job'.moved /\ job'.previous = history.at /\ OneWay(job')
  BY <1>4, <1>5, <1>6, BegunShape, BegunWay
<1>8. history' = [entries |-> history.entries, at |-> to]
  BY <1>2, <1>3
<1>9. LoadStands'
  BY <1>2, <1>3, <1>7, <1>8 DEF LoadStands
<1>10. Restored(page)' = IF page # NoPage
                           THEN [history' EXCEPT !.at = history.at]
                           ELSE history'
  BY <1>3, <1>7 DEF Restored
<1>11. CASE page # NoPage
  <2>1. [history' EXCEPT !.at = history.at] = history
    BY <1>2, <1>8
  <2> QED BY <1>1, <1>3, <1>9, <1>10, <1>11, <2>1 DEF Rests
<1>12. CASE page = NoPage
  <2>1. CursorShows
    BY <1>1, <1>3, <1>10, <1>12 DEF CursorShows
  <2> QED BY <1>3, <1>9, <1>12, <2>1 DEF Rests
<1> QED BY <1>11, <1>12

LEMMA TurnRests ==
    ASSUME Whole, (\E u \in Urls : PreviewLink(u)) \/ Suspend
    PROVE  Rests /\ LoadStands'
<1>1. UNCHANGED page /\ history' = Restored(page)
  BY DEF PreviewLink, Suspend
<1>2. LoadStands' /\ ~job'.moved
  <2>1. CASE job' = NoJob
    BY <2>1, NoneLoading, NoJobShape
  <2>2. ASSUME NEW u \in Urls, job' \in Begun(u, [NoJob EXCEPT !.record = TRUE])
        PROVE  LoadStands' /\ ~job'.moved
    BY <2>2, BegunStands
  <2> QED BY <2>1, <2>2 DEF PreviewLink, Suspend
<1>3. Restored(page)' = Restored(page)
  BY <1>1, <1>2 DEF Restored
<1> QED BY <1>1, <1>2, <1>3 DEF Rests

LEMMA AdapterRests ==
    ASSUME Whole, Continues(ByAdapter)
    PROVE  Rests /\ LoadStands'
<1>1. /\ job'.moved = job.moved /\ job'.previous = job.previous
      /\ UNCHANGED <<history, page>>
  BY ByAdapterShape DEF Continues, Whole
<1>2. /\ job'.record = job.record /\ ~job'.replace
      /\ job'.loose => job.loose \/ job.replace
  BY DEF Continues, ByAdapter, Whole, IInv, JobStands, Jobs
<1>3. OneWay(job')
  BY <1>1, <1>2 DEF Whole, LoadStands, OneWay
<1>4. LoadStands'
  BY <1>1, <1>3 DEF Whole, LoadStands
<1>5. Restored(page)' = Restored(page)
  BY <1>1 DEF Restored
<1> QED BY <1>1, <1>4, <1>5 DEF Rests

LEMMA ParseRests ==
    ASSUME Whole, NEW shown \in {page, NoPage}, page' = shown,
           job' = [job EXCEPT !.phase = "finish"], UNCHANGED history
    PROVE  Rests /\ LoadStands'
<1>1. /\ job'.moved = job.moved /\ job'.previous = job.previous
      /\ job'.record = job.record /\ job'.replace = job.replace
      /\ job'.loose = job.loose
  BY DEF Whole, IInv, JobStands, Jobs
<1>2. LoadStands'
  BY <1>1 DEF Whole, LoadStands, OneWay
<1>3. CASE page' = page
  <2>1. Restored(page)' = Restored(page)
    BY <1>1, <1>3 DEF Restored
  <2> QED BY <1>2, <1>3, <2>1 DEF Rests
<1>4. CASE page' = NoPage
  <2>1. Restored(page)' = history
    BY <1>4 DEF Restored
  <2>2. CursorShows
    BY <2>1, CursorIsNear
  <2> QED BY <1>2, <1>4, <2>2 DEF Rests
<1> QED BY <1>3, <1>4

\* A load that ends without a commit.
LEMMA UndoRests == ASSUME IInv, Undo, UNCHANGED card PROVE OthersRest
<1>1. TransitionStands' /\ Owner' = active' /\ transition' = NoTransition
  BY UndoEffect DEF Undo
<1>2. ~transition'.added
  BY <1>1, NoTransitionShape
<1>3. CASE ~transition.added
  <2>1. tabs' = tabs /\ active' = Owner
    BY <1>3 DEF Undo, Owner
  <2> QED BY <1>1, <1>2, <1>3, <2>1 DEF OthersRest, Number, Told
<1>4. CASE transition.added
  <2>1. /\ active = Len(tabs) /\ transition.pending
        /\ active \in 1 .. Len(tabs) /\ tabs \in Seq(TabShape)
        /\ Len(tabs) \in Nat
    BY <1>4, LenProperties, NoTransitionShape
       DEF IInv, TransitionStands, TabsStand, TabsFit
  <2>2. tabs' = Removed(tabs, active) /\ active' = Owner
    BY <1>4, <2>1 DEF Undo, Owner
  <2>3. /\ Len(tabs') = Len(tabs) - 1
        /\ \A j \in 1 .. Len(tabs) - 1 : tabs'[j] = IF j < active THEN tabs[j]
                                                           ELSE tabs[j + 1]
    BY <2>1, <2>2, RemovedProperties
  <2>4. \A j \in 1 .. Len(tabs) - 1 : tabs'[j] = tabs[j]
    BY <2>1, <2>3
  <2> QED BY <1>1, <1>2, <1>4, <2>2, <2>3, <2>4 DEF OthersRest, Number, Told
<1> QED BY <1>3, <1>4

LEMMA UnwindRests ==
    ASSUME Whole, NEW shown \in {page, NoPage}, page' = shown,
           history' = Restored(shown), job' = NoJob
    PROVE  Rests
<1>1. Restored(page)' = Restored(shown)
  BY NoJobShape DEF Restored
<1>2. CASE shown = page
  BY <1>1, <1>2 DEF Rests
<1>3. CASE shown = NoPage
  <2>1. Restored(shown) = history
    BY <1>3 DEF Restored
  <2>2. CursorShows
    BY <1>1, <2>1, CursorIsNear
  <2> QED BY <1>3, <2>2 DEF Rests
<1> QED BY <1>2, <1>3

-----------------------------------------------------------------------------
\* A load that commits in the tab it was begun in.
Lands == /\ OthersRest /\ page' = job.url /\ Restored(page)' = Outcome
         /\ astray' # "page" <=> ~job.loose

LEMMA SettleCancelledLands ==
    ASSUME IInv, SettleCancelled(Outcome)
    PROVE  Lands /\ transition' = NoTransition
<1>1. /\ page' = job.url /\ job' = NoJob /\ history' = Outcome /\ Undo
      /\ astray' = (IF job.loose THEN "page" ELSE "tab") /\ card' = card
  BY DEF SettleCancelled
<1>2. Restored(page)' = Outcome
  BY <1>1, NoJobShape DEF Restored
<1>3. astray' # "page" <=> ~job.loose
  BY <1>1
<1>4. transition' = NoTransition
  BY <1>1 DEF Undo
<1> QED BY <1>1, <1>2, <1>3, <1>4, UndoRests DEF Lands

LEMMA SettlePlainLands ==
    ASSUME IInv, ~Idle, ~transition.pending, Settle(Outcome)
    PROVE  Lands /\ transition' = NoTransition
<1>1. /\ page' = job.url /\ job' = NoJob /\ history' = Outcome
      /\ tabs' = Captured(tabs, active, Outcome)
      /\ astray' = (IF job.loose THEN "page" ELSE "no")
      /\ UNCHANGED <<active, card, transition>>
  BY DEF Settle
<1>2. Restored(page)' = Outcome
  BY <1>1, NoJobShape DEF Restored
<1>3. astray' # "page" <=> ~job.loose
  BY <1>1
<1>4. TabsFit(tabs, card) /\ active \in 1 .. Len(tabs)
      /\ Outcome \in Fits(SessionLimit) /\ transition = NoTransition
  BY OutcomeFits DEF IInv, TabsStand, TransitionStands
<1>5. /\ Len(tabs') = Len(tabs)
      /\ \A j \in 1 .. Len(tabs) : j # active => tabs'[j] = tabs[j]
  BY <1>1, <1>4, CapturedFits
<1>6. Owner = active /\ Owner' = active /\ ~transition.added
      /\ transition' = transition
  BY <1>1, <1>4, NoTransitionShape DEF Owner
<1>7. OthersRest
  BY <1>1, <1>5, <1>6 DEF OthersRest, Number, Told
<1> QED BY <1>1, <1>2, <1>3, <1>4, <1>7 DEF Lands

-----------------------------------------------------------------------------
\* The tabs that are neither the target nor the one that goes, and the index
\* they get.
Stays(j) == j # active /\ ~(transition.closes /\ j = transition.previous)
Gets(j) == IF transition.closes THEN Shifted(j, transition.previous) ELSE j

\* A transition that is made: the target has the new history, the others say
\* what they said, except the one that goes.
LEMMA FinishTabTells ==
    ASSUME Whole, ~Idle, transition.pending, FinishTab,
           job' = NoJob, transition' = NoTransition
    PROVE  /\ history' = Replaced(AsHistory(tabs[active]), job.url)
           /\ Owner' = Landing /\ Number' = Len(Closing(tabs))
           /\ astray' = "no"
           /\ \A j \in 1 .. Len(tabs) :
                \A k \in 1 .. Len(Closing(tabs)) :
                  (Stays(j) /\ k = Gets(j)) => Told(k)' = Told(j)
<1> DEFINE h == AsHistory(Replaced(tabs[active], job.url))
           s == Closing(tabs)
           ready == Captured(s, Landing, h)
           p == transition.previous
<1>1. /\ TabsFit(tabs, card) /\ AwakeTab(tabs[active]) /\ job.url \in Urls
      /\ active \in 1 .. Len(tabs) /\ tabs \in Seq(TabShape)
      /\ Len(tabs) \in Nat
  BY LenProperties DEF Whole, IInv, TabsStand, TabsFit, JobStands
<1>2. h = Replaced(AsHistory(tabs[active]), job.url)
      /\ h \in Fits(HistoryLimit)
  BY <1>1, TabReplaced, ReplacedFits DEF AwakeTab
<1>3. /\ history' = h /\ active' = Landing /\ astray' = "no"
      /\ \/ tabs' = ready /\ UNCHANGED card
         \/ transition.added /\ Hibernate(ready, p)
  BY DEF FinishTab, Closing, Landing
<1> HIDE DEF h
<1>4. /\ h \in Fits(SessionLimit) /\ p \in 1 .. Len(tabs) /\ p # active
      /\ AwakeTab(tabs[p])
  BY <1>2, WiderFits DEF Whole, IInv, TransitionStands
<1>5. TabsFit(s, card) /\ Landing \in 1 .. Len(s)
  BY <1>1, ClosingFits DEF Whole
<1>6. /\ TabsFit(ready, card) /\ Len(ready) = Len(s)
      /\ \A j \in 1 .. Len(s) : j # Landing => ready[j] = s[j]
  BY <1>4, <1>5, CapturedFits
<1>7. ~transition'.pending /\ ~transition'.added
  BY NoTransitionShape
<1>8. ASSUME NEW j \in 1 .. Len(tabs), Stays(j)
      PROVE  Gets(j) \in 1 .. Len(s) /\ Gets(j) # Landing /\ s[Gets(j)] = tabs[j]
  <2>1. CASE transition.closes
    <3>1. /\ s = Removed(tabs, p) /\ Gets(j) = Shifted(j, p)
          /\ Landing = Shifted(active, p) /\ j # p /\ j # active
      BY <1>8, <2>1 DEF Closing, Landing, Gets, Stays
    <3> HIDE DEF p, s
    <3>2. j # p /\ Len(Removed(tabs, p)) = Len(tabs) - 1
      BY <1>1, <1>4, <3>1, RemovedProperties
    <3>3. /\ Shifted(j, p) \in 1 .. Len(tabs) - 1
          /\ Removed(tabs, p)[Shifted(j, p)] = tabs[j]
      BY <1>1, <1>4, <3>2, ShiftedProperties
    <3>4. Shifted(j, p) # Shifted(active, p)
      BY <1>1, <1>4, <3>1, <3>2 DEF Shifted
    <3> QED BY <3>1, <3>2, <3>3, <3>4
  <2>2. CASE ~transition.closes
    BY <1>8, <2>2 DEF Closing, Landing, Gets, Stays
  <2> QED BY <2>1, <2>2
<1> HIDE DEF s, ready
<1>9. CASE tabs' = ready /\ UNCHANGED card
  <2>1. Owner' = Landing /\ Number' = Len(s)
    BY <1>3, <1>6, <1>7, <1>9 DEF Owner, Number
  <2>2. ASSUME NEW j \in 1 .. Len(tabs), NEW k \in 1 .. Len(s),
               Stays(j), k = Gets(j)
        PROVE  Told(k)' = Told(j)
    <3>1. tabs'[k] = tabs[j]
      BY <1>6, <1>8, <1>9, <2>2
    <3> QED BY <1>9, <3>1 DEF Told, AsHistory
  <2> QED BY <1>2, <1>3, <2>1, <2>2 DEF s
<1>10. CASE transition.added /\ Hibernate(ready, p)
  <2>1. ~transition.closes
    BY <1>10 DEF Whole, IInv, TransitionStands
  <2>2. s = tabs /\ Landing = active
    BY <2>1 DEF s, Closing, Landing
  <2>3. ready[p] = tabs[p] /\ p \in 1 .. Len(ready)
    BY <1>4, <1>6, <2>2
  <2>4. /\ \A j \in 1 .. Len(ready) : ~ready[j].asleep
        /\ tabs' = [ready EXCEPT ![p] = Sleeper]
        /\ card' = AsHistory(ready[p]) /\ ready \in Seq(TabShape)
    <3>1. DOMAIN ready = 1 .. Len(ready) /\ ready \in Seq(TabShape)
      BY <1>6, LenProperties DEF TabsFit
    <3> QED BY <1>10, <3>1 DEF Hibernate
  <2> HIDE DEF p
  <2>5. /\ Len(tabs') = Len(ready) /\ tabs'[p] = Sleeper
        /\ \A j \in 1 .. Len(ready) : j # p => tabs'[j] = ready[j]
    BY <2>3, <2>4, SleeperShape, ExceptSeq
  <2>6. Owner' = Landing /\ Number' = Len(s)
    BY <1>3, <1>6, <1>7, <2>5 DEF Owner, Number
  <2>7. ASSUME NEW j \in 1 .. Len(tabs), j # active
        PROVE  Told(j)' = Told(j)
    <3>1. CASE j = p
      <4>1. Told(j) = AsHistory(tabs[p])
        BY <1>4, <3>1 DEF Told, AwakeTab, p
      <4>2. Told(j)' = card'
        BY <2>5, <3>1, SleeperShape DEF Told
      <4> QED BY <2>3, <2>4, <4>1, <4>2
    <3>2. CASE j # p
      <4>1. tabs'[j] = tabs[j] /\ ~tabs[j].asleep
        BY <1>6, <2>2, <2>4, <2>5, <2>7, <3>2
      <4> QED BY <4>1 DEF Told, AsHistory
    <3> QED BY <3>1, <3>2
  <2>8. \A j : Stays(j) => j # active /\ Gets(j) = j
    BY <2>1 DEF Stays, Gets
  <2> QED BY <1>2, <1>3, <2>6, <2>7, <2>8 DEF s
<1> QED BY <1>3, <1>9, <1>10

\* The same when the engine refused the target's history.
LEMMA LimitTabTells ==
    ASSUME Whole, ~Idle, transition.pending, LimitTab(Outcome),
           job' = NoJob, transition' = NoTransition
    PROVE  /\ history' = Outcome /\ astray' = "page"
           /\ Owner' = Landing /\ Number' = Len(Closing(tabs))
           /\ \A j \in 1 .. Len(tabs) :
                \A k \in 1 .. Len(Closing(tabs)) :
                  (Stays(j) /\ k = Gets(j)) => Told(k)' = Told(j)
<1> DEFINE s == [tabs EXCEPT ![active] = Awake(Single(job.url))]
           p == transition.previous
<1>1. /\ TabsFit(tabs, card) /\ active \in 1 .. Len(tabs)
      /\ tabs \in Seq(TabShape) /\ Len(tabs) \in Nat /\ job.url \in Urls
  BY LenProperties DEF Whole, IInv, TabsStand, TabsFit, JobStands
<1>2. AwakeTab(Awake(Single(job.url)))
  BY <1>1, SingleFits, AwakeIsAwake, Limits
<1>3. /\ TabsFit(s, card) /\ Len(s) = Len(tabs)
      /\ \A j \in 1 .. Len(tabs) : j # active => s[j] = tabs[j]
  BY <1>1, <1>2, SetFits
<1>4. /\ history' = Outcome /\ astray' = "page" /\ UNCHANGED card
      /\ tabs' = Closing(s) /\ active' = Landing
  BY DEF LimitTab, Closing, Landing
<1> HIDE DEF s
<1>5. p \in 1 .. Len(tabs) /\ p # active
  BY DEF Whole, IInv, TransitionStands
<1>6. ~transition'.pending /\ ~transition'.added
  BY NoTransitionShape
<1>7. s \in Seq(TabShape)
  BY <1>3 DEF TabsFit
<1>8. Len(Closing(s)) = Len(Closing(tabs))
  <2>1. Len(Removed(tabs, p)) = Len(tabs) - 1
    BY <1>1, <1>5, RemovedProperties
  <2>2. Len(Removed(s, p)) = Len(s) - 1
    BY <1>3, <1>5, <1>7, RemovedProperties
  <2> QED BY <1>3, <2>1, <2>2 DEF Closing
<1>9. Owner' = Landing /\ Number' = Len(Closing(tabs))
  BY <1>4, <1>6, <1>8 DEF Owner, Number
<1>10. ASSUME NEW j \in 1 .. Len(tabs), NEW k \in 1 .. Len(Closing(tabs)),
              Stays(j), k = Gets(j)
       PROVE  Told(k)' = Told(j)
  <2>1. tabs'[k] = tabs[j]
    <3>1. CASE transition.closes
      <4>1. /\ tabs' = Removed(s, p) /\ k = Shifted(j, p) /\ j # p
            /\ j # active
        BY <1>4, <1>10, <3>1 DEF Closing, Gets, Stays
      <4> HIDE DEF p
      <4>2. Removed(s, p)[Shifted(j, p)] = s[j]
        BY <1>3, <1>5, <1>7, <4>1, ShiftedProperties
      <4> QED BY <1>3, <4>1, <4>2
    <3>2. CASE ~transition.closes
      BY <1>3, <1>4, <1>10, <3>2 DEF Closing, Gets, Stays
    <3> QED BY <3>1, <3>2
  <2> QED BY <1>4, <2>1 DEF Told, AsHistory
<1> QED BY <1>4, <1>9, <1>10

-----------------------------------------------------------------------------
\* A request shows nothing yet.
Tells(s, c, j) == IF s[j].asleep THEN c ELSE AsHistory(s[j])

LEMMA CurrentTells ==
    ASSUME IInv, MayRequest, NEW j \in 1 .. Len(tabs), j # active
    PROVE  Tells(Current, card, j) = Told(j)
BY BetweenLoads DEF Tells, Told

LEMMA WokenTells ==
    ASSUME IInv, MayRequest, NEW i \in 1 .. Len(tabs), i # active,
           NEW j \in 1 .. Len(tabs), j # active
    PROVE  Tells(Woken(Current, i), CardWithout(i), j) = Told(j)
<1> DEFINE c == Current
           s == Woken(Current, i)
<1>1. /\ TabsFit(c, card) /\ Len(c) = Len(tabs) /\ c[i] = tabs[i]
      /\ c[j] = tabs[j]
  BY BetweenLoads
<1> HIDE DEF c
<1>2. s = Woken(c, i)
  BY DEF c
<1> HIDE DEF s
<1>3. /\ AwakeTab(s[i])
      /\ \A k \in 1 .. Len(c) : k # i => s[k] = c[k]
  BY <1>1, <1>2, WokenFits
<1>4. CASE j = i /\ c[i].asleep
  <2>1. card \in Fits(HistoryLimit) /\ c \in Seq(TabShape)
    BY <1>1, <1>4 DEF TabsFit, AwakeTab
  <2>2. s[i] = Awake(card)
    <3>1. s = [c EXCEPT ![i] = Awake(card)]
      BY <1>2, <1>4 DEF Woken
    <3>2. DOMAIN c = 1 .. Len(c)
      BY <2>1, LenProperties
    <3> QED BY <1>1, <3>1, <3>2
  <2>3. ~s[i].asleep /\ AsHistory(s[i]) = card
    BY <1>3, <2>1, <2>2, AwakeIsAwake DEF AwakeTab
  <2> QED BY <1>1, <1>4, <2>3 DEF Tells, Told, s
<1>5. CASE j = i /\ ~c[i].asleep
  <2>1. s[i] = c[i]
    BY <1>2, <1>5 DEF Woken
  <2> QED BY <1>1, <1>5, <2>1 DEF Tells, Told, s
<1>6. CASE j # i
  <2>1. s[j] = c[j]
    BY <1>1, <1>3, <1>6
  <2>2. c[j].asleep => CardWithout(i) = card
    BY <1>1, <1>6 DEF TabsFit, CardWithout
  <2> QED BY <1>1, <2>1, <2>2 DEF Tells, Told, s
<1> QED BY <1>4, <1>5, <1>6

\* Whatever becomes of a request, nothing is seen of it, and the tab to be
\* left keeps the capture of what is shown.
LEMMA RequestRests ==
    ASSUME Whole, MayRequest, NEW s, NEW i \in 1 .. Len(s), i # active,
           AwakeTab(s[i]), s[active] = Current[active],
           NEW t \in [pending : BOOLEAN, added : BOOLEAN, previous : Nat,
                      closes : BOOLEAN],
           Len(s) = IF t.added THEN Len(tabs) + 1 ELSE Len(tabs),
           t.added => \E v \in Urls : s[i] = Awake(Single(v)),
           t.closes => i = Neighbour(active, Len(s)),
           \A j \in 1 .. Len(tabs) : j # active =>
              Tells(s, IF t.added THEN card ELSE CardWithout(i), j) = Told(j),
           Request(s, i, t)
    PROVE  /\ OthersRest /\ Rests /\ LoadStands' /\ LeavingStands'
           /\ astray' # "page" <=> astray # "page"
<1>1. /\ job = NoJob /\ transition = NoTransition /\ Owner = active
      /\ Restored(page) = history /\ active \in 1 .. Len(tabs)
      /\ Len(tabs) \in Nat /\ Len(Current) = Len(tabs)
      /\ Current[active] = Awake(Window(history))
  BY BetweenLoads DEF Whole
<1>2. /\ UNCHANGED <<history, page>> /\ astray' = Caught
  BY DEF Request
<1>3. /\ astray' # "page" <=> astray # "page"
      /\ astray' # "tab"
  BY <1>2 DEF Caught
<1>4. Number = Len(tabs)
  BY <1>1, NoTransitionShape DEF Number
<1>5. ~job'.moved => Rests
  BY <1>1, <1>2 DEF Rests, Restored
<1>6. CASE /\ job' \in Begun(UrlOf(s[i]), [NoJob EXCEPT !.loose = TRUE])
           /\ tabs' = s /\ active' = i
           /\ transition' = [t EXCEPT !.pending = TRUE, !.previous = active]
           /\ card' = IF t.added THEN card ELSE CardWithout(i)
  <2>1. /\ transition'.pending /\ transition'.previous = active
        /\ transition'.added = t.added /\ transition'.closes = t.closes
    <3>1. transition' = [pending |-> TRUE, added |-> t.added,
                         previous |-> active, closes |-> t.closes]
      BY <1>6
    <3> QED BY <3>1
  <2>2. Owner' = active /\ Number' = Len(tabs)
    BY <1>1, <1>6, <2>1 DEF Owner, Number
  <2>3. OthersRest
    BY <1>1, <1>4, <1>6, <2>2 DEF OthersRest, Told, Tells, AsHistory
  <2>4. UrlOf(s[i]) \in Urls
    <3> DEFINE h == AsHistory(s[i])
    <3>1. h \in Fits(HistoryLimit) /\ UrlOf(h) = UrlOf(s[i])
      BY DEF AwakeTab, AsHistory, UrlOf
    <3> QED BY <3>1, FitsParts
  <2>5. LoadStands' /\ ~job'.moved
    BY <1>6, <2>4, BegunStands
  <2>6. AsHistory(tabs'[active]) = Window(history)
    <3>1. Window(history) \in Fits(HistoryLimit)
      BY WindowFits DEF Whole, IInv, Typed
    <3>2. tabs'[active] = Awake(Window(history))
      BY <1>1, <1>6
    <3> QED BY <3>1, <3>2, AwakeIsAwake
  <2>7. Window(history) \in Behind(history, page)
    <3>1. history.at \in DOMAIN history.entries
          /\ [history EXCEPT !.at = history.at] = history
      BY FitsParts, SameCursor DEF Whole, IInv, Typed
    <3> QED BY <3>1 DEF Behind
  <2>8. Restored(page)' = history
    BY <1>2, <2>5 DEF Restored
  <2>9. LeavingStands'
    BY <1>2, <1>3, <1>6, <2>1, <2>6, <2>7, <2>8 DEF LeavingStands, AsHistory
  <2> QED BY <1>3, <1>5, <2>3, <2>5, <2>9
<1>7. CASE /\ tabs' = IF t.added THEN Current ELSE s
           /\ card' = IF t.added THEN card ELSE CardWithout(i)
           /\ UNCHANGED <<job, active, transition>>
  <2>1. OthersRest
    <3>1. Owner' = Owner /\ Number' = Number
      BY <1>1, <1>7 DEF Owner, Number
    <3>2. \A j \in 1 .. Number : j # Owner => Told(j)' = Told(j)
      BY <1>1, <1>4, <1>7, CurrentTells DEF Whole, Told, Tells, AsHistory
    <3> QED BY <3>1, <3>2 DEF OthersRest
  <2> QED BY <1>1, <1>3, <1>5, <1>7, <2>1, NoneLoading, NoneLeaving, NoJobShape
<1>8. CASE /\ tabs' = Current
           /\ UNCHANGED <<job, active, card, transition>>
  <2>1. OthersRest
    <3>1. Owner' = Owner /\ Number' = Number
      BY <1>1, <1>8 DEF Owner, Number
    <3>2. \A j \in 1 .. Number : j # Owner => Told(j)' = Told(j)
      BY <1>1, <1>4, <1>8, CurrentTells DEF Whole, Told, Tells, AsHistory
    <3> QED BY <3>1, <3>2 DEF OthersRest
  <2> QED BY <1>1, <1>3, <1>5, <1>8, <2>1, NoneLoading, NoneLeaving, NoJobShape
<1> QED BY <1>6, <1>7, <1>8 DEF Request

LEMMA SwitchRests ==
    ASSUME Whole, NEW i \in 1 .. Len(tabs), i # active, MayRequest,
           NEW t \in [pending : BOOLEAN, added : BOOLEAN, previous : Nat,
                      closes : BOOLEAN],
           ~t.added, t.closes => i = Neighbour(active, Len(tabs)),
           Request(Woken(Current, i), i, t)
    PROVE  /\ OthersRest /\ Rests /\ LoadStands' /\ LeavingStands'
           /\ astray' # "page" <=> astray # "page"
<1> DEFINE s == Woken(Current, i)
<1>1. /\ Len(s) = Len(tabs) /\ AwakeTab(s[i]) /\ s[active] = Current[active]
  BY WokenCurrent DEF Whole
<1>2. \A j \in 1 .. Len(tabs) : j # active =>
              Tells(s, IF t.added THEN card ELSE CardWithout(i), j) = Told(j)
  BY WokenTells DEF Whole
<1> HIDE DEF s
<1>3. Request(s, i, t)
  BY DEF s
<1> QED BY <1>1, <1>2, <1>3, RequestRests

LEMMA NewTabRests ==
    ASSUME Whole, NEW u \in Urls, NewTab(u)
    PROVE  /\ OthersRest /\ Rests /\ LoadStands' /\ LeavingStands'
           /\ astray' # "page" <=> astray # "page"
<1> DEFINE n == Len(tabs)
           s == Append(Current, Awake(Single(u)))
           t == [NoTransition EXCEPT !.added = TRUE]
<1>1. MayRequest /\ n < TabLimit /\ Request(s, n + 1, t)
  BY DEF NewTab
<1>2. AwakeTab(Awake(Single(u)))
  BY SingleFits, AwakeIsAwake, Limits
<1>3. /\ TabsFit(Current, card) /\ Len(Current) = n /\ active \in 1 .. n
      /\ n \in Nat
  BY <1>1, BetweenLoads DEF Whole
<1>4. /\ Len(s) = n + 1 /\ s[n + 1] = Awake(Single(u))
      /\ \A j \in 1 .. n : s[j] = Current[j]
  BY <1>1, <1>2, <1>3, AppendFits
<1>5. /\ t \in [pending : BOOLEAN, added : BOOLEAN, previous : Nat,
                closes : BOOLEAN]
      /\ t.added /\ ~t.closes
  BY DEF NoTransition
<1>6. \A j \in 1 .. n : j # active => Tells(s, card, j) = Told(j)
  BY <1>1, <1>4, CurrentTells DEF Whole, Tells
<1> HIDE DEF n, s, t
<1>7. n + 1 \in 1 .. Len(s) /\ n + 1 # active /\ AwakeTab(s[n + 1])
      /\ s[active] = Current[active]
  BY <1>2, <1>3, <1>4
<1>8. \E v \in Urls : s[n + 1] = Awake(Single(v))
  BY <1>4
<1>9. /\ Len(s) = IF t.added THEN Len(tabs) + 1 ELSE Len(tabs)
      /\ \A j \in 1 .. Len(tabs) : j # active =>
           Tells(s, IF t.added THEN card ELSE CardWithout(n + 1), j) = Told(j)
  BY <1>4, <1>5, <1>6 DEF n
<1> QED BY <1>1, <1>5, <1>7, <1>8, <1>9, RequestRests

-----------------------------------------------------------------------------
(***************************************************************************)
(* The refinement.  What a tab keeps of a history is what TabbedHistory    *)
(* says it remembers, and the other operators are the same.                *)
(***************************************************************************)
LEMMA WindowIsRemembered ==
    ASSUME NEW h \in Fits(SessionLimit)
    PROVE  Seen!Remembered(h) = Window(h)
<1> DEFINE e == h.entries
           a == h.at
           n == Len(e)
           start == IF n <= HistoryLimit \/ a < HistoryLimit THEN 0
                                                ELSE a - HistoryLimit
           count == IF n - start > HistoryLimit THEN HistoryLimit
                                                ELSE n - start
           ends == IF a <= HistoryLimit THEN HistoryLimit ELSE a
           last == IF ends > n THEN n ELSE ends
           first == IF last > HistoryLimit THEN last - HistoryLimit ELSE 0
<1>1. n \in Nat /\ a \in Nat /\ a >= 1 /\ a <= n
  BY FitsParts
<1>2. HistoryLimit \in Nat /\ HistoryLimit >= 1
  BY Limits
<1>3. Window(h) = [entries |-> SubSeq(e, start + 1, start + count),
                   at |-> a - start]
  BY DEF Window
<1>4. Seen!Remembered(h) = [entries |-> SubSeq(e, first + 1, last),
                            at |-> a - first]
  BY DEF Seen!Remembered
<1> HIDE DEF e, a, n
<1>5. first = start /\ last = start + count
  <2>1. CASE n <= HistoryLimit
    BY <1>1, <1>2, <2>1
  <2>2. CASE n > HistoryLimit /\ a < HistoryLimit
    BY <1>1, <1>2, <2>2
  <2>3. CASE n > HistoryLimit /\ a >= HistoryLimit
    BY <1>1, <1>2, <2>3
  <2> QED BY <1>1, <1>2, <2>1, <2>2, <2>3
<1> HIDE DEF first, last, start, count
<1> QED BY <1>3, <1>4, <1>5

\* What LeavingStands allows, TabbedHistory allows.
LEMMA BehindIsLeft ==
    ASSUME NEW h \in Fits(SessionLimit)
    PROVE  Behind(h, page) \subseteq Seen!LeftBehind(h)
<1> SUFFICES ASSUME NEW w \in Behind(h, page) PROVE w \in Seen!LeftBehind(h)
  OBVIOUS
<1>1. PICK c \in (IF page = NoPage THEN DOMAIN h.entries ELSE {h.at}) :
        w = Window([h EXCEPT !.at = c])
  BY DEF Behind
<1>2. [h EXCEPT !.at = c] \in Fits(SessionLimit)
  <2>1. /\ h.entries \in Seq(Urls) /\ Len(h.entries) \in Nat
        /\ Len(h.entries) <= SessionLimit
        /\ h.at \in Nat /\ h.at >= 1 /\ h.at <= Len(h.entries)
        /\ h = [entries |-> h.entries, at |-> h.at]
        /\ DOMAIN h.entries = 1 .. Len(h.entries)
    BY FitsParts
  <2>2. c \in Nat /\ c >= 1 /\ c <= Len(h.entries)
    BY <1>1, <2>1
  <2>3. [h EXCEPT !.at = c] = [entries |-> h.entries, at |-> c]
    BY <2>1
  <2> QED BY <2>1, <2>2, <2>3, FitsMade
<1>3. Seen!Remembered([h EXCEPT !.at = c]) = w
  BY <1>1, <1>2, WindowIsRemembered
<1> QED BY <1>1, <1>3 DEF Seen!LeftBehind

LEMMA SameOperators ==
    /\ \A h, u : /\ Seen!Visited(h, u) = Pushed(h, u)
                 /\ Seen!Replaced(h, u) = Replaced(h, u)
    /\ \A u : Seen!Single(u) = Single(u)
    /\ \A h : Seen!UrlOf(h) = UrlOf(h)
    /\ \A s, i : Seen!Without(s, i) = Removed(s, i)
    /\ \A i, j : Seen!Shifted(i, j) = Shifted(i, j)
BY DEF Seen!Visited, Pushed, Seen!Replaced, Replaced, Seen!Single, Single,
       Seen!UrlOf, UrlOf, Seen!Without, Removed, Seen!Shifted, Shifted

\* The active history of the promise is what a failure goes back to.
LEMMA HereIsRestored ==
    ASSUME IInv
    PROVE  /\ Seen!Here = Restored(page) /\ SeenTabs[Owner] = Restored(page)
           /\ Restored(page) \in Fits(SessionLimit)
BY SeenIs DEF SeenSo, Seen!Here

-----------------------------------------------------------------------------
\* Nothing is seen, or the page is lost.
LEMMA RestIsStutter ==
    ASSUME IInv, IInv', OthersRest, Rests, astray' # "page" <=> astray # "page"
    PROVE  Seen!Next \/ UNCHANGED Seen!vars
<1> DEFINE r == Restored(page)
<1>1. /\ SeenTabs' = [SeenTabs EXCEPT ![Owner] = r'] /\ Owner' = Owner
      /\ SeenTabs[Owner] = r /\ Seen!Here = r
  BY SeenRest, HereIsRestored DEF OthersRest
<1>2. (astray # "page")' = (astray # "page")
  OBVIOUS
<1>3. SeenTabs = [SeenTabs EXCEPT ![Owner] = SeenTabs[Owner]]
  BY SeenIs DEF SeenSo
<1>4. CASE page' = page /\ r' = r
  <2>1. SeenTabs' = SeenTabs
    BY <1>1, <1>3, <1>4
  <2> QED BY <1>1, <1>2, <1>4, <2>1 DEF Seen!vars
<1>5. CASE page' = NoPage /\ CursorShows
  <2>1. PICK c \in DOMAIN r.entries :
          /\ c \in {r.at - 1, r.at, r.at + 1} /\ r' = [r EXCEPT !.at = c]
    BY <1>5 DEF CursorShows
  <2>2. SeenTabs' = [SeenTabs EXCEPT ![Owner].at = c]
    BY <1>1, <2>1
  <2>3. Seen!LosePage(c)
    BY <1>1, <1>2, <1>5, <2>1, <2>2 DEF Seen!LosePage
  <2>4. c \in DOMAIN Seen!Here.entries
    BY <1>1, <2>1
  <2> QED BY <2>3, <2>4 DEF Seen!Next
<1> QED BY <1>4, <1>5 DEF Rests

\* A visit, a replacement, a reload, a traversal, or a page without an entry,
\* by how the load was begun.
LEMMA LandsAsLoad ==
    ASSUME Whole, IInv', ~Idle, Lands
    PROVE  Seen!Next \/ UNCHANGED Seen!vars
<1> DEFINE r == Restored(page)
           u == job.url
<1>1. /\ SeenTabs' = [SeenTabs EXCEPT ![Owner] = r'] /\ Owner' = Owner
      /\ SeenTabs[Owner] = r /\ Seen!Here = r /\ r' = Outcome /\ page' = u
      /\ u \in Urls
  BY SeenRest, HereIsRestored, OutcomeFits DEF OthersRest, Lands, Whole
<1>2. astray' # "page" <=> ~job.loose
  BY DEF Lands
<1>3. SeenTabs = [SeenTabs EXCEPT ![Owner] = SeenTabs[Owner]]
  BY SeenIs DEF SeenSo, Whole
<1>4. /\ job.record => ~job.replace /\ ~job.moved /\ ~job.loose
      /\ job.replace => ~job.moved /\ ~job.loose
      /\ job.moved => ~job.loose
  BY DEF Whole, LoadStands, OneWay
<1>5. ~job.moved => r = history
  BY RestIsHistory DEF Whole
<1>6. CASE job.record
  <2>1. Outcome = Pushed(history, u)
    BY <1>6 DEF Outcome
  <2>2. r' = Seen!Visited(Seen!Here, u)
    BY <1>1, <1>4, <1>5, <1>6, <2>1, SameOperators
  <2>3. Seen!Visit(u)
    BY <1>1, <1>2, <1>4, <1>6, <2>2 DEF Seen!Visit, Seen!Shows
  <2> QED BY <1>1, <2>3 DEF Seen!Next
<1>7. CASE job.replace
  <2>1. Outcome = Replaced(history, u)
    BY <1>4, <1>7 DEF Outcome
  <2>2. r' = Seen!Replaced(Seen!Here, u)
    BY <1>1, <1>4, <1>5, <1>7, <2>1, SameOperators
  <2>3. Seen!Replace(u)
    BY <1>1, <1>2, <1>4, <1>7, <2>2 DEF Seen!Replace, Seen!Shows
  <2> QED BY <1>1, <2>3 DEF Seen!Next
<1>8. CASE ~job.record /\ ~job.replace
  <2>1. r' = history
    BY <1>1, <1>8 DEF Outcome
  <2>2. CASE job.loose
    <3>1. SeenTabs' = SeenTabs
      BY <1>1, <1>3, <1>4, <1>5, <2>1, <2>2
    <3>2. Seen!Misfile(u)
      BY <1>1, <1>2, <2>2, <3>1 DEF Seen!Misfile, Seen!ShowsUnfiled
    <3> QED BY <1>1, <3>2 DEF Seen!Next
  <2>3. CASE ~job.loose /\ r = history
    <3>1. SeenTabs' = SeenTabs
      BY <1>1, <1>3, <2>1, <2>3
    <3>2. u = UrlOf(history)
      BY <1>8, <2>3 DEF Whole, IInv, JobStands, Plain
    <3>3. u = Seen!UrlOf(Seen!Here)
      BY <1>1, <2>3, <3>2, SameOperators
    <3>4. Seen!Reload
      BY <1>1, <1>2, <2>3, <3>1, <3>3 DEF Seen!Reload, Seen!Shows
    <3> QED BY <3>4 DEF Seen!Next
  <2>4. CASE ~job.loose /\ r # history
    <3> DEFINE c == history.at
    <3>1. job.moved /\ page # NoPage
      BY <1>5, <2>4 DEF Restored
    <3>2. /\ r \in Fits(SessionLimit) /\ r.entries = history.entries
          /\ history \in Fits(SessionLimit)
      BY RestoredFits DEF Whole, IInv, Typed
    <3>3. /\ history = [entries |-> history.entries, at |-> c]
          /\ r = [entries |-> r.entries, at |-> r.at]
          /\ c \in DOMAIN r.entries /\ c \in Nat /\ r.at \in Nat
      BY <3>2, FitsParts
    <3>4. r.at = job.previous
      BY <3>1, <3>3 DEF Restored
    <3>5. c \in {r.at - 1, r.at + 1}
      BY <3>1, <3>3, <3>4 DEF Whole, LoadStands
    <3>6. u = r.entries[c]
      BY <1>8, <2>4, <3>2 DEF Whole, IInv, JobStands, Plain, UrlOf
    <3> HIDE DEF c
    <3>7. history = [r EXCEPT !.at = c]
      BY <3>2, <3>3
    <3>8. SeenTabs' = [SeenTabs EXCEPT ![Owner].at = c]
      BY <1>1, <2>1, <3>7
    <3>9. Seen!Traverse(c)
      BY <1>1, <1>2, <2>4, <3>5, <3>6, <3>8 DEF Seen!Traverse, Seen!Shows
    <3> QED BY <1>1, <3>3, <3>9 DEF Seen!Next
  <2> QED BY <2>2, <2>3, <2>4
<1> QED BY <1>6, <1>7, <1>8

-----------------------------------------------------------------------------
\* What is seen after a step, tab by tab.
LEMMA SeenEquals ==
    ASSUME IInv', NEW z \in Seq(Fits(SessionLimit)), Len(z) = Number',
           \A i \in 1 .. Len(z) :
             z[i] = IF i = Owner' THEN Restored(page)' ELSE Told(i)'
    PROVE  SeenTabs' = z
<1> DEFINE t == SeenTabs'
           r == Restored(page)'
           n == Number'
           o == Owner'
<1>1. /\ t \in Seq(Fits(SessionLimit)) /\ Len(t) = n
      /\ \A i \in 1 .. n : t[i] = IF i = o THEN r ELSE Told(i)'
  BY SeenIsNext DEF SeenSo
<1>2. Len(z) = n /\ \A i \in 1 .. Len(z) : z[i] = IF i = o THEN r ELSE Told(i)'
  OBVIOUS
<1> HIDE DEF t, r, n, o
<1>3. t = z
  BY <1>1, <1>2, SeqEqual
<1> QED BY <1>3 DEF t

\* The same when tab q has gone from the tabs z and tab a is the owner.
LEMMA SeenClosed ==
    ASSUME IInv', NEW z \in Seq(Fits(SessionLimit)),
           NEW q \in 1 .. Len(z), NEW a \in 1 .. Len(z), a # q,
           Number' = Len(z) - 1, Owner' = Shifted(a, q),
           Restored(page)' = z[a],
           \A j \in 1 .. Len(z) : \A k \in 1 .. Len(z) - 1 :
             (j # q /\ j # a /\ k = Shifted(j, q)) => Told(k)' = z[j]
    PROVE  SeenTabs' = Removed(z, q)
<1> DEFINE y == Removed(z, q)
           n == Len(z)
<1>1. /\ y \in Seq(Fits(SessionLimit)) /\ Len(y) = Len(z) - 1
      /\ \A j \in 1 .. Len(z) - 1 : y[j] = IF j < q THEN z[j] ELSE z[j + 1]
  BY RemovedProperties
<1>2. n \in Nat
  BY LenProperties
<1>3. ASSUME NEW i \in 1 .. Len(y)
      PROVE  y[i] = IF i = Owner' THEN Restored(page)' ELSE Told(i)'
  <2> DEFINE j == IF i < q THEN i ELSE i + 1
  <2>1. j \in 1 .. n /\ j # q /\ i = Shifted(j, q) /\ i \in 1 .. n - 1
    BY <1>1, <1>2 DEF Shifted
  <2>2. y[i] = z[j]
    BY <1>1, <2>1
  <2>3. i = Owner' <=> j = a
    <3>1. Shifted(j, q) = Shifted(a, q) <=> j = a
      BY <1>2, <2>1 DEF Shifted
    <3> QED BY <2>1, <3>1
  <2> HIDE DEF j
  <2>4. CASE j = a
    BY <2>2, <2>3, <2>4
  <2>5. CASE j # a
    <3>1. Told(i)' = z[j]
      BY <2>1, <2>5
    <3> QED BY <2>2, <2>3, <2>5, <3>1
  <2> QED BY <2>4, <2>5
<1> HIDE DEF y
<1>4. Len(y) = Number'
  BY <1>1
<1>5. SeenTabs' = y
  BY <1>1, <1>3, <1>4, SeenEquals
<1> QED BY <1>5 DEF y

\* Another tab than the active one is closed.
LEMMA CloseTabCloses ==
    ASSUME Whole, IInv', NEW i \in DOMAIN tabs, CloseTab(i)
    PROVE  Seen!Next
<1> DEFINE s == Current
           z == SeenTabs
           n == Len(tabs)
<1>1. /\ MayRequest /\ i # active /\ tabs' = Removed(s, i)
      /\ active' = Shifted(active, i) /\ card' = CardWithout(i)
      /\ astray' = Caught /\ UNCHANGED <<history, page, job, transition>>
  BY DEF CloseTab
<1>2. i \in 1 .. n /\ TabsFit(tabs, card)
  BY LenProperties DEF Whole, IInv, TabsStand, TabsFit
<1>3. /\ TabsFit(s, card) /\ Len(s) = n /\ n \in Nat
      /\ active \in 1 .. n /\ Owner = active /\ transition = NoTransition
      /\ \A j \in 1 .. n : j # active => s[j] = tabs[j]
      /\ job = NoJob /\ Restored(page) = history
  BY <1>1, BetweenLoads DEF Whole
<1>4. Number = n /\ ~transition'.added /\ ~transition'.pending
  BY <1>1, <1>3, NoTransitionShape DEF Number
<1>5. /\ z \in Seq(Fits(SessionLimit)) /\ Len(z) = n /\ DOMAIN z = 1 .. n
      /\ \A j \in 1 .. n : z[j] = IF j = active THEN history ELSE Told(j)
  BY <1>3, <1>4, SeenIs DEF SeenSo, Whole
<1> HIDE DEF s, z, n
<1>6. s \in Seq(TabShape) /\ Len(Removed(s, i)) = n - 1
  BY <1>2, <1>3, RemovedProperties DEF TabsFit
<1>7. Owner' = Shifted(active, i) /\ Number' = Len(z) - 1
  BY <1>1, <1>4, <1>5, <1>6 DEF Owner, Number
<1>8. Restored(page)' = z[active]
  <2>1. Restored(page)' = history
    BY <1>1, <1>3, NoJobShape DEF Restored
  <2> QED BY <1>3, <1>5, <2>1
<1>9. ASSUME NEW j \in 1 .. Len(z), NEW k \in 1 .. Len(z) - 1,
             j # i, j # active, k = Shifted(j, i)
      PROVE  Told(k)' = z[j]
  <2>1. tabs'[k] = tabs[j]
    <3>1. i \in 1 .. Len(s) /\ j \in 1 .. Len(s) /\ j # i
      BY <1>2, <1>3, <1>5, <1>9
    <3>2. Removed(s, i)[Shifted(j, i)] = s[j]
      BY <1>6, <3>1, ShiftedProperties
    <3>3. s[j] = tabs[j]
      BY <1>3, <1>5, <1>9
    <3> QED BY <1>1, <1>9, <3>2, <3>3
  <2>2. tabs[j].asleep => card' = card
    BY <1>1, <1>2, <1>5, <1>9 DEF TabsFit, CardWithout, n
  <2>3. z[j] = Told(j)
    BY <1>5, <1>9
  <2> QED BY <2>1, <2>2, <2>3 DEF Told, AsHistory
<1>10. SeenTabs' = Removed(z, i)
  BY <1>1, <1>2, <1>3, <1>5, <1>7, <1>8, <1>9, SeenClosed
<1>11. (astray # "page")' = (astray # "page")
  BY <1>1 DEF Caught
<1>12. Seen!CloseTab(i)
  BY <1>1, <1>3, <1>7, <1>10, <1>11, SameOperators DEF Seen!CloseTab, z
<1> QED BY <1>2, <1>5, <1>12 DEF Seen!Next, z

-----------------------------------------------------------------------------
\* A transition that is made, over the tabs z in which the tab that is left
\* keeps what it remembers and the target has what was installed.
LEMMA MadeOpen ==
    ASSUME Whole, IInv', transition.pending, ~transition.closes,
           NEW h \in Fits(SessionLimit), history' = h, job' = NoJob,
           Owner' = Landing, Number' = Len(Closing(tabs)),
           \A j \in 1 .. Len(tabs) :
             \A k \in 1 .. Len(Closing(tabs)) :
               (Stays(j) /\ k = Gets(j)) => Told(k)' = Told(j),
           NEW z \in Seq(Fits(SessionLimit)), Len(z) = Len(tabs),
           z[active] = h,
           \A j \in 1 .. Len(tabs) : j # active => z[j] = Told(j)
    PROVE  SeenTabs' = z /\ Owner' = active
<1>1. Landing = active /\ Closing(tabs) = tabs
  BY DEF Landing, Closing
<1>2. \A j : Stays(j) <=> j # active
  BY DEF Stays
<1>3. \A j : Gets(j) = j
  BY DEF Gets
<1>4. Restored(page)' = h
  BY NoJobShape DEF Restored
<1>5. \A i \in 1 .. Len(z) :
        z[i] = IF i = Owner' THEN Restored(page)' ELSE Told(i)'
  BY <1>1, <1>2, <1>3, <1>4
<1> QED BY <1>1, <1>5, SeenEquals

LEMMA MadeClosed ==
    ASSUME Whole, IInv', transition.pending, transition.closes,
           NEW h \in Fits(SessionLimit), history' = h, job' = NoJob,
           Owner' = Landing, Number' = Len(Closing(tabs)),
           \A j \in 1 .. Len(tabs) :
             \A k \in 1 .. Len(Closing(tabs)) :
               (Stays(j) /\ k = Gets(j)) => Told(k)' = Told(j),
           NEW z \in Seq(Fits(SessionLimit)), Len(z) = Len(tabs),
           z[active] = h,
           \A j \in 1 .. Len(tabs) :
             (j # active /\ j # transition.previous) => z[j] = Told(j)
    PROVE  /\ SeenTabs' = Removed(z, transition.previous)
           /\ Owner' = Shifted(active, transition.previous)
<1> DEFINE p == transition.previous
           n == Len(tabs)
<1>1. /\ active \in 1 .. n /\ p \in 1 .. n /\ active # p
      /\ tabs \in Seq(TabShape)
  BY DEF Whole, IInv, TabsStand, TabsFit, TransitionStands
<1>2. Landing = Shifted(active, p) /\ Closing(tabs) = Removed(tabs, p)
  BY DEF Landing, Closing
<1>3. Len(Closing(tabs)) = n - 1
  BY <1>1, <1>2, RemovedProperties
<1>4. \A j : /\ Stays(j) <=> (j # active /\ j # p)
             /\ Gets(j) = Shifted(j, p)
  BY DEF Stays, Gets
<1>5. Restored(page)' = z[active]
  BY NoJobShape DEF Restored
<1> HIDE DEF p, n
<1>6. n = Len(z)
  BY DEF n
<1>7. \A j \in 1 .. Len(z) : \A k \in 1 .. Len(z) - 1 :
        (j # p /\ j # active /\ k = Shifted(j, p)) => Told(k)' = z[j]
  BY <1>3, <1>4, <1>6 DEF p, n
<1>8. SeenTabs' = Removed(z, p)
  BY <1>1, <1>2, <1>3, <1>5, <1>6, <1>7, SeenClosed
<1> QED BY <1>2, <1>8 DEF p

\* While a transition waits: the tab that is left is the owner and keeps what
\* the promise lets it keep.
LEMMA LeavingSeen ==
    ASSUME Whole, transition.pending
    PROVE  /\ Owner = transition.previous /\ Owner \in 1 .. Len(tabs)
           /\ Owner # active /\ active \in 1 .. Len(tabs)
           /\ Told(Owner) \in Seen!LeftBehind(Seen!Here)
           /\ Told(active) = AsHistory(tabs[active])
           /\ Told(active) \in Fits(HistoryLimit)
           /\ Told(Owner) \in Fits(SessionLimit) /\ Len(tabs) \in Nat
           /\ Len(tabs) <= TabLimit
<1>1. /\ Owner = transition.previous /\ Owner \in 1 .. Len(tabs)
      /\ Owner # active /\ active \in 1 .. Len(tabs)
      /\ AwakeTab(tabs[Owner]) /\ AwakeTab(tabs[active])
      /\ Len(tabs) \in Nat /\ Len(tabs) <= TabLimit
  BY OwnerIsHere DEF Whole, IInv, TransitionStands, TabsStand, TabsFit, Owner
<1>2. /\ Told(Owner) = AsHistory(tabs[Owner])
      /\ Told(active) = AsHistory(tabs[active])
  BY <1>1 DEF Told, AwakeTab
<1>3. Told(Owner) \in Behind(Restored(page), page)
  BY <1>1, <1>2 DEF Whole, LeavingStands
<1>4. Told(Owner) \in Seen!LeftBehind(Seen!Here)
  BY <1>3, BehindIsLeft, HereIsRestored DEF Whole
<1> QED BY <1>1, <1>2, <1>4, ToldFits DEF Whole

\* What is seen then of the other tabs, without and with a tab made for the
\* load.
LEMMA SeenOpen ==
    ASSUME Whole, ~transition.added
    PROVE  /\ SeenTabs \in Seq(Fits(SessionLimit)) /\ Len(SeenTabs) = Len(tabs)
           /\ DOMAIN SeenTabs = 1 .. Len(tabs)
           /\ \A j \in 1 .. Len(tabs) : j # Owner => SeenTabs[j] = Told(j)
BY SeenIs DEF Whole, SeenSo, Number

LEMMA SeenAdded ==
    ASSUME Whole, transition.added
    PROVE  /\ SeenTabs \in Seq(Fits(SessionLimit))
           /\ Len(SeenTabs) = Len(tabs) - 1 /\ active = Len(tabs)
           /\ DOMAIN SeenTabs = 1 .. Len(tabs) - 1
           /\ Owner \in 1 .. Len(tabs) - 1 /\ transition.pending
           /\ \A j \in 1 .. Len(tabs) - 1 : j # Owner => SeenTabs[j] = Told(j)
<1>1. transition.pending /\ active = Len(tabs)
  BY NoTransitionShape DEF Whole, IInv, TransitionStands
<1> QED BY <1>1, SeenIs DEF Whole, SeenSo, Number

\* The target of a switch has arrived.
LEMMA SwitchMade ==
    ASSUME Whole, IInv', ~Idle, transition.pending, FinishTab,
           page' = job.url, job' = NoJob, transition' = NoTransition,
           ~transition.added, ~transition.closes
    PROVE  Seen!Next
<1> DEFINE p == Owner
           u == job.url
           s == SeenTabs
           left == Told(p)
           h == Replaced(Told(active), u)
           y == [s EXCEPT ![p] = left]
           z == [y EXCEPT ![active] = h]
<1>1. /\ p \in 1 .. Len(tabs) /\ p # active /\ active \in 1 .. Len(tabs)
      /\ left \in Seen!LeftBehind(Seen!Here) /\ left \in Fits(SessionLimit)
      /\ Told(active) = AsHistory(tabs[active])
      /\ Told(active) \in Fits(HistoryLimit)
  BY LeavingSeen
<1>2. /\ s \in Seq(Fits(SessionLimit)) /\ Len(s) = Len(tabs)
      /\ DOMAIN s = 1 .. Len(tabs)
      /\ \A j \in 1 .. Len(tabs) : j # p => s[j] = Told(j)
  BY SeenOpen
<1>3. /\ history' = h /\ Owner' = Landing /\ Number' = Len(Closing(tabs))
      /\ astray' = "no"
      /\ \A j \in 1 .. Len(tabs) :
           \A k \in 1 .. Len(Closing(tabs)) :
             (Stays(j) /\ k = Gets(j)) => Told(k)' = Told(j)
  BY <1>1, FinishTabTells
<1>4. u \in Urls /\ h \in Fits(SessionLimit)
  BY <1>1, ReplacedFits, WiderFits DEF Whole, IInv, JobStands
<1>5. h = Seen!Replaced(s[active], u)
  BY <1>1, <1>2, SameOperators
<1> HIDE DEF h, left, p, s, u
<1>6. /\ y \in Seq(Fits(SessionLimit)) /\ Len(y) = Len(s)
      /\ \A j \in 1 .. Len(s) : y[j] = IF j = p THEN left ELSE s[j]
  BY <1>1, <1>2, ExceptSeq
<1> HIDE DEF y
<1>7. /\ z \in Seq(Fits(SessionLimit)) /\ Len(z) = Len(y)
      /\ \A j \in 1 .. Len(y) : z[j] = IF j = active THEN h ELSE y[j]
  BY <1>1, <1>2, <1>4, <1>6, ExceptSeq
<1>8. z = [s EXCEPT ![p] = left, ![active] = h]
  BY <1>1 DEF y
<1> HIDE DEF z
<1>9. /\ Len(z) = Len(tabs) /\ z[active] = h
      /\ \A j \in 1 .. Len(tabs) : j # active => z[j] = Told(j)
  BY <1>1, <1>2, <1>6, <1>7 DEF left
<1>10. SeenTabs' = z /\ Owner' = active
  BY <1>3, <1>4, <1>7, <1>9, MadeOpen
<1>11. Seen!SwitchTab(active, u)
  <2>1. Seen!Shows(u)
    BY <1>3 DEF Seen!Shows, u
  <2>2. SeenTabs' = [SeenTabs EXCEPT ![Owner] = left,
                        ![active] = Seen!Replaced(SeenTabs[active], u)]
    BY <1>5, <1>8, <1>10 DEF s, p
  <2> QED BY <1>1, <1>10, <2>1, <2>2 DEF Seen!SwitchTab, p
<1> QED BY <1>1, <1>2, <1>4, <1>11 DEF Seen!Next, s

\* A new tab has arrived: its one entry is replaced by the address at which
\* the load ended.
LEMMA OpenMade ==
    ASSUME Whole, IInv', ~Idle, transition.added, FinishTab,
           page' = job.url, job' = NoJob, transition' = NoTransition
    PROVE  Seen!Next
<1> DEFINE p == Owner
           u == job.url
           s == SeenTabs
           left == Told(p)
           h == Single(u)
           y == [s EXCEPT ![p] = left]
           z == Append(y, h)
<1>1. /\ s \in Seq(Fits(SessionLimit)) /\ Len(s) = Len(tabs) - 1
      /\ active = Len(tabs) /\ p \in 1 .. Len(tabs) - 1 /\ transition.pending
      /\ \A j \in 1 .. Len(tabs) - 1 : j # p => s[j] = Told(j)
  BY SeenAdded
<1>2. /\ left \in Seen!LeftBehind(Seen!Here) /\ left \in Fits(SessionLimit)
      /\ Len(tabs) \in Nat /\ Len(tabs) <= TabLimit
      /\ Told(active) = AsHistory(tabs[active])
  BY <1>1, LeavingSeen
<1>3. u \in Urls /\ h \in Fits(SessionLimit) /\ ~transition.closes
  BY SingleFits, Limits DEF Whole, IInv, JobStands, TransitionStands
<1>4. Replaced(AsHistory(tabs[active]), u) = h
  <2>1. PICK v \in Urls : tabs[active] = Awake(Single(v))
    BY DEF Whole, LeavingStands
  <2>2. AsHistory(tabs[active]) = Single(v)
    BY <2>1, SingleFits, AwakeIsAwake, Limits
  <2>3. Replaced(Single(v), u) = Single(u)
    BY DEF Replaced, Single
  <2> QED BY <2>2, <2>3
<1>5. /\ history' = h /\ Owner' = Landing /\ Number' = Len(Closing(tabs))
      /\ astray' = "no"
      /\ \A j \in 1 .. Len(tabs) :
           \A k \in 1 .. Len(Closing(tabs)) :
             (Stays(j) /\ k = Gets(j)) => Told(k)' = Told(j)
  BY <1>1, <1>4, FinishTabTells
<1> HIDE DEF h, left, p, s, u
<1>6. /\ y \in Seq(Fits(SessionLimit)) /\ Len(y) = Len(s)
      /\ \A j \in 1 .. Len(s) : y[j] = IF j = p THEN left ELSE s[j]
  BY <1>1, <1>2, ExceptSeq
<1> HIDE DEF y
<1>7. /\ z \in Seq(Fits(SessionLimit)) /\ Len(z) = Len(y) + 1
      /\ \A j \in 1 .. Len(y) : z[j] = y[j]
      /\ z[Len(y) + 1] = h
  BY <1>3, <1>6, AppendProperties
<1> HIDE DEF z
<1>8. /\ Len(z) = Len(tabs) /\ z[active] = h
      /\ \A j \in 1 .. Len(tabs) : j # active => z[j] = Told(j)
  <2>1. Len(y) = Len(tabs) - 1 /\ Len(y) + 1 = Len(tabs)
    BY <1>1, <1>2, <1>6
  <2>2. ASSUME NEW j \in 1 .. Len(tabs), j # active
        PROVE  j \in 1 .. Len(tabs) - 1
    <3> DEFINE n == Len(tabs)
    <3>1. n \in Nat /\ j \in 1 .. n /\ j # n
      BY <1>1, <1>2, <2>2
    <3> HIDE DEF n
    <3>2. j \in 1 .. n - 1
      BY <3>1
    <3> QED BY <3>2 DEF n
  <2> QED BY <1>1, <1>6, <1>7, <2>1, <2>2 DEF left
<1>9. SeenTabs' = z /\ Owner' = active
  BY <1>1, <1>3, <1>5, <1>7, <1>8, MadeOpen
<1>10. Seen!OpenTab(u)
  <2>1. Seen!Shows(u)
    BY <1>5 DEF Seen!Shows, u
  <2>2. Len(SeenTabs) < TabLimit /\ Owner' = Len(SeenTabs) + 1
    <3>1. Len(s) < TabLimit /\ active = Len(s) + 1
      BY <1>1, <1>2, Limits
    <3> QED BY <1>9, <3>1 DEF s
  <2>3. SeenTabs' = Append([SeenTabs EXCEPT ![Owner] = left], Seen!Single(u))
    BY <1>9, SameOperators DEF z, y, s, p, h
  <2> QED BY <1>2, <2>1, <2>2, <2>3 DEF Seen!OpenTab
<1> QED BY <1>3, <1>10 DEF Seen!Next

\* The neighbour has arrived, and the tab that was active goes.
LEMMA CloseMade ==
    ASSUME Whole, IInv', ~Idle, transition.closes, transition.pending, FinishTab,
           page' = job.url, job' = NoJob, transition' = NoTransition
    PROVE  Seen!Next
<1> DEFINE p == Owner
           u == job.url
           s == SeenTabs
           h == Replaced(Told(active), u)
           z == [s EXCEPT ![active] = h]
<1>1. /\ p \in 1 .. Len(tabs) /\ p # active /\ active \in 1 .. Len(tabs)
      /\ p = transition.previous /\ Len(tabs) \in Nat
      /\ Told(active) = AsHistory(tabs[active])
      /\ Told(active) \in Fits(HistoryLimit)
  BY LeavingSeen
<1>2. ~transition.added
  BY DEF Whole, IInv, TransitionStands
<1>3. /\ s \in Seq(Fits(SessionLimit)) /\ Len(s) = Len(tabs)
      /\ DOMAIN s = 1 .. Len(tabs)
      /\ \A j \in 1 .. Len(tabs) : j # p => s[j] = Told(j)
  BY <1>2, SeenOpen
<1>4. /\ history' = h /\ Owner' = Landing /\ Number' = Len(Closing(tabs))
      /\ astray' = "no"
      /\ \A j \in 1 .. Len(tabs) :
           \A k \in 1 .. Len(Closing(tabs)) :
             (Stays(j) /\ k = Gets(j)) => Told(k)' = Told(j)
  BY <1>1, FinishTabTells
<1>5. u \in Urls /\ h \in Fits(SessionLimit)
  BY <1>1, ReplacedFits, WiderFits DEF Whole, IInv, JobStands
<1>6. h = Seen!Replaced(s[active], u)
  BY <1>1, <1>3, SameOperators
<1>7. active = IF p < Len(s) THEN p + 1 ELSE p - 1
  BY <1>1, <1>3 DEF Whole, LeavingStands, Neighbour
<1> HIDE DEF h, p, s, u
<1>8. /\ z \in Seq(Fits(SessionLimit)) /\ Len(z) = Len(s)
      /\ \A j \in 1 .. Len(s) : z[j] = IF j = active THEN h ELSE s[j]
  BY <1>1, <1>3, <1>5, ExceptSeq
<1> HIDE DEF z
<1>9. /\ Len(z) = Len(tabs) /\ z[active] = h
      /\ \A j \in 1 .. Len(tabs) :
           (j # active /\ j # transition.previous) => z[j] = Told(j)
  BY <1>1, <1>3, <1>8
<1>10. SeenTabs' = Removed(z, transition.previous)
       /\ Owner' = Shifted(active, transition.previous)
  BY <1>4, <1>5, <1>8, <1>9, MadeClosed
<1>11. Seen!CloseActive(u)
  <2>1. Seen!Shows(u)
    BY <1>4 DEF Seen!Shows, u
  <2>2. Len(SeenTabs) > 1
    BY <1>1, <1>3 DEF s
  <2> DEFINE i == IF Owner < Len(SeenTabs) THEN Owner + 1 ELSE Owner - 1
  <2>3. i = active
    BY <1>7 DEF p, s
  <2>4. Owner' = Seen!Shifted(active, Owner)
    BY <1>1, <1>10, SameOperators DEF p
  <2>5. SeenTabs' = Seen!Without([SeenTabs EXCEPT ![active] =
                        Seen!Replaced(SeenTabs[active], u)], Owner)
    BY <1>1, <1>6, <1>10, SameOperators DEF p, s, z
  <2> HIDE DEF i
  <2>6. /\ Owner' = Seen!Shifted(i, Owner)
        /\ SeenTabs' = Seen!Without([SeenTabs EXCEPT ![i] =
                        Seen!Replaced(SeenTabs[i], u)], Owner)
    BY <2>3, <2>4, <2>5
  <2> QED BY <2>1, <2>2, <2>6 DEF Seen!CloseActive, i
<1> QED BY <1>5, <1>11 DEF Seen!Next

\* The outcome of a commit is one the promise allows an unfinished tab.
LEMMA OutcomeAllowed ==
    ASSUME Whole, ~Idle
    PROVE  \/ Outcome = Seen!Here \/ Outcome = Seen!Visited(Seen!Here, job.url)
           \/ Outcome = Seen!Replaced(Seen!Here, job.url)
           \/ \E c \in DOMAIN Seen!Here.entries :
                Outcome = [Seen!Here EXCEPT !.at = c]
<1>1. Seen!Here = Restored(page) /\ Restored(page) \in Fits(SessionLimit)
  BY HereIsRestored DEF Whole
<1>2. /\ job.record => ~job.moved
      /\ job.replace => ~job.moved
      /\ ~job.moved => Restored(page) = history
  BY RestIsHistory DEF Whole, LoadStands, OneWay
<1>3. CASE job.record
  BY <1>1, <1>2, <1>3, SameOperators DEF Outcome
<1>4. CASE ~job.record /\ job.replace
  BY <1>1, <1>2, <1>4, SameOperators DEF Outcome
<1>5. CASE ~job.record /\ ~job.replace
  <2>1. Outcome = history
    BY <1>5 DEF Outcome
  <2>2. CASE ~job.moved \/ page = NoPage
    BY <1>1, <2>1, <2>2 DEF Restored
  <2>3. CASE job.moved /\ page # NoPage
    <3> DEFINE r == Restored(page)
    <3>1. r = [history EXCEPT !.at = job.previous]
      BY <2>3 DEF Restored
    <3>2. history \in Fits(SessionLimit)
      BY DEF Whole, IInv, Typed
    <3>3. /\ history = [entries |-> history.entries, at |-> history.at]
          /\ history.at \in DOMAIN history.entries
      BY <3>2, FitsParts
    <3>4. r = [entries |-> history.entries, at |-> job.previous]
      BY <3>1, <3>3
    <3>5. history = [r EXCEPT !.at = history.at] /\ r.entries = history.entries
      BY <3>3, <3>4
    <3> QED BY <1>1, <2>1, <3>3, <3>5
  <2> QED BY <2>2, <2>3
<1> QED BY <1>3, <1>4, <1>5

\* The target has arrived without its history: the engine's, as the load left
\* it, goes on in its place.
LEMMA LimitMade ==
    ASSUME Whole, IInv', ~Idle, transition.pending, LimitTab(Outcome),
           page' = job.url, job' = NoJob, transition' = NoTransition
    PROVE  Seen!Next
<1> DEFINE p == Owner
           u == job.url
           s == SeenTabs
           left == Told(p)
           h == Outcome
           z == [j \in 1 .. Len(tabs) |->
                   IF j = active THEN h ELSE IF j = p THEN left ELSE s[j]]
<1>1. /\ p \in 1 .. Len(tabs) /\ p # active /\ active \in 1 .. Len(tabs)
      /\ p = transition.previous
      /\ left \in Seen!LeftBehind(Seen!Here) /\ left \in Fits(SessionLimit)
      /\ Len(tabs) \in Nat /\ Len(tabs) <= TabLimit
  BY LeavingSeen
<1>2. /\ history' = h /\ Owner' = Landing /\ Number' = Len(Closing(tabs))
      /\ astray' = "page"
      /\ \A j \in 1 .. Len(tabs) :
           \A k \in 1 .. Len(Closing(tabs)) :
             (Stays(j) /\ k = Gets(j)) => Told(k)' = Told(j)
  BY LimitTabTells
<1>3. u \in Urls /\ h \in Fits(SessionLimit)
  BY OutcomeFits DEF Whole
\* The tabs that are neither.
<1>4. /\ \A j \in 1 .. Len(tabs) :
           (j # active /\ j # p) => s[j] = Told(j) /\ s[j] \in Fits(SessionLimit)
      /\ DOMAIN s \cup {active} = 1 .. Len(tabs)
      /\ active \in 1 .. Len(s) + 1 /\ s \in Seq(Fits(SessionLimit))
      /\ active = Len(s) + 1 => ~transition.closes /\ Len(s) < TabLimit
  <2>1. CASE transition.added
    <3>1. /\ s \in Seq(Fits(SessionLimit)) /\ Len(s) = Len(tabs) - 1
          /\ active = Len(tabs) /\ DOMAIN s = 1 .. Len(tabs) - 1
          /\ \A j \in 1 .. Len(tabs) - 1 : j # p => s[j] = Told(j)
      BY <2>1, SeenAdded
    <3>2. ~transition.closes
      BY <2>1 DEF Whole, IInv, TransitionStands
    <3> DEFINE n == Len(tabs)
               m == Len(s)
    <3>3. n \in Nat /\ n >= 1 /\ n <= TabLimit /\ m = n - 1 /\ active = n
      BY <1>1, <3>1
    <3> HIDE DEF n, m, s, p
    <3>4. ASSUME NEW j \in 1 .. n, j # active, j # p
          PROVE  s[j] = Told(j) /\ s[j] \in Fits(SessionLimit)
      <4>1. j \in 1 .. n - 1
        BY <3>3, <3>4
      <4>2. j \in 1 .. Len(s)
        BY <3>1, <4>1 DEF n
      <4> QED BY <3>1, <3>4, <4>1, <4>2, ElementOfSeq DEF n
    <3>5. (1 .. n - 1) \cup {n} = 1 .. n
      BY <3>3
    <3>6. n \in 1 .. m + 1 /\ m < TabLimit
      BY <3>3, Limits
    <3> QED BY <3>1, <3>2, <3>3, <3>4, <3>5, <3>6 DEF n, m
  <2>2. CASE ~transition.added
    <3>1. /\ s \in Seq(Fits(SessionLimit)) /\ Len(s) = Len(tabs)
          /\ DOMAIN s = 1 .. Len(tabs)
          /\ \A j \in 1 .. Len(tabs) : j # p => s[j] = Told(j)
      BY <2>2, SeenOpen
    <3>2. \A j \in 1 .. Len(tabs) : s[j] \in Fits(SessionLimit)
      BY <3>1, ElementOfSeq
    <3> HIDE DEF s, p
    <3> QED BY <1>1, <3>1, <3>2
  <2> QED BY <2>1, <2>2
<1> HIDE DEF h, left, p, s, u
<1>5. /\ z \in Seq(Fits(SessionLimit)) /\ Len(z) = Len(tabs)
      /\ z[active] = h
      /\ \A j \in 1 .. Len(tabs) :
           (j # active /\ j # p) => z[j] = Told(j)
      /\ z[p] = left
  <2>1. z \in [1 .. Len(tabs) -> Fits(SessionLimit)]
    BY <1>1, <1>3, <1>4
  <2>2. z \in Seq(Fits(SessionLimit)) /\ Len(z) = Len(tabs)
    BY <1>1, <2>1, LenProperties
  <2> QED BY <1>1, <1>4, <2>2
<1>6. z = [j \in DOMAIN s \cup {active} |->
             IF j = active THEN h ELSE IF j = p THEN left ELSE s[j]]
  BY <1>4
<1> HIDE DEF z
<1>7. SeenTabs' = (IF transition.closes THEN Removed(z, p) ELSE z)
      /\ Owner' = (IF transition.closes THEN Shifted(active, p) ELSE active)
  <2>1. CASE transition.closes
    BY <1>1, <1>2, <1>3, <1>5, <2>1, MadeClosed
  <2>2. CASE ~transition.closes
    <3>1. \A j \in 1 .. Len(tabs) : j # active => z[j] = Told(j)
      BY <1>5 DEF left
    <3> QED BY <1>2, <1>3, <1>5, <2>2, <3>1, MadeOpen
  <2> QED BY <2>1, <2>2
<1> DEFINE i == active
           c == transition.closes
<1>8. Seen!LimitedTab(i, u, c)
  <2>1. Seen!ShowsUnfiled(u)
    BY <1>2 DEF Seen!ShowsUnfiled, u
  <2>2. i # Owner /\ Owner' = IF c THEN Seen!Shifted(i, Owner) ELSE i
    BY <1>1, <1>7, SameOperators DEF p
  <2>3. i = Len(SeenTabs) + 1 => ~c /\ Len(SeenTabs) < TabLimit
    BY <1>4 DEF s
  <2>4. h \in {Seen!Here, Seen!Visited(Seen!Here, u), Seen!Replaced(Seen!Here, u)}
               \cup {[Seen!Here EXCEPT !.at = k] : k \in DOMAIN Seen!Here.entries}
    BY OutcomeAllowed DEF h, u
  <2>5. z = [j \in DOMAIN SeenTabs \cup {i} |->
               IF j = i THEN h ELSE IF j = Owner THEN left ELSE SeenTabs[j]]
    BY <1>6 DEF s, p
  <2>6. SeenTabs' = IF c THEN Seen!Without(z, Owner) ELSE z
    BY <1>7, SameOperators DEF p
  <2> QED BY <1>1, <2>1, <2>2, <2>3, <2>4, <2>5, <2>6 DEF Seen!LimitedTab
<1>9. c \in BOOLEAN
  BY DEF Whole, IInv, TransitionStands
<1> QED BY <1>3, <1>4, <1>8, <1>9 DEF Seen!Next, s

-----------------------------------------------------------------------------
\* What each step of the loads and the tabs is, of the promise.
Steps == [Seen!Next]_(Seen!vars)

LEMMA RestSteps ==
    ASSUME IInv, IInv', OthersRest, Rests, UNCHANGED astray
    PROVE  Steps
BY RestIsStutter DEF Steps

LEMMA BeginSteps ==
    ASSUME Whole, IInv', NEW u \in Urls,
           Link(u) \/ ScriptReplace(u) \/ Retry(u) \/ Reload
    PROVE  LoadStands' /\ LeavingStands' /\ Steps
<1>1. UNCHANGED <<history, page, tabs, active, card, transition, astray>>
  BY DEF Link, ScriptReplace, Retry, Reload
<1>2. Rests /\ LoadStands'
  BY BeginRests
<1>3. OthersRest
  BY <1>1, UnchangedRests DEF Whole
<1> QED BY <1>1, <1>2, <1>3, LeavingRests, RestSteps DEF Whole

LEMMA MoveSteps ==
    ASSUME Whole, IInv', NEW to \in DOMAIN history.entries, Move(to)
    PROVE  LoadStands' /\ LeavingStands' /\ Steps
<1>1. UNCHANGED <<page, tabs, active, card, transition, astray>>
  BY DEF Move
<1>2. Rests /\ LoadStands'
  BY MoveRests
<1>3. OthersRest
  BY <1>1, UnchangedRests DEF Whole
<1> QED BY <1>1, <1>2, <1>3, LeavingRests, RestSteps DEF Whole

LEMMA TurnSteps ==
    ASSUME Whole, IInv', (\E u \in Urls : PreviewLink(u)) \/ Suspend
    PROVE  LoadStands' /\ LeavingStands' /\ Steps
<1>1. UNCHANGED <<page, tabs, active, card, transition, astray>>
  BY DEF PreviewLink, Suspend
<1>2. Rests /\ LoadStands'
  BY TurnRests
<1>3. OthersRest
  BY <1>1, UnchangedRests DEF Whole
<1> QED BY <1>1, <1>2, <1>3, LeavingRests, RestSteps DEF Whole

\* A load that ends without a commit.
LEMMA UnwindSteps ==
    ASSUME Whole, IInv', NEW shown \in {page, NoPage}, page' = shown,
           history' = Restored(shown), job' = NoJob, Undo,
           UNCHANGED <<card, astray>>
    PROVE  LoadStands' /\ LeavingStands' /\ Steps
<1>1. Rests
  BY UnwindRests
<1>2. OthersRest
  BY UndoRests DEF Whole
<1>3. LoadStands' /\ LeavingStands'
  BY NoneLoading, NoneLeaving DEF Undo
<1> QED BY <1>1, <1>2, <1>3, RestSteps DEF Whole

LEMMA FailsSteps ==
    ASSUME Whole, IInv', NEW shown \in {page, NoPage}, Fails(shown)
    PROVE  LoadStands' /\ LeavingStands' /\ Steps
BY UnwindSteps DEF Fails

LEMMA CancelsSteps ==
    ASSUME Whole, IInv', Cancels
    PROVE  LoadStands' /\ LeavingStands' /\ Steps
BY UnwindSteps DEF Cancels

LEMMA AdapterSteps ==
    ASSUME Whole, IInv', RedirectToAdapter \/ FallBackFromGoogle
    PROVE  LoadStands' /\ LeavingStands' /\ Steps
<1>1. CASE Continues(ByAdapter)
  <2>1. UNCHANGED <<history, page, tabs, active, card, transition, astray>>
    BY <1>1 DEF Continues
  <2>2. Rests /\ LoadStands'
    BY <1>1, AdapterRests
  <2>3. OthersRest
    BY <2>1, UnchangedRests DEF Whole
  <2> QED BY <2>1, <2>2, <2>3, LeavingRests, RestSteps DEF Whole
<1>2. CASE Fails(page)
  BY <1>2, FailsSteps
<1> QED BY <1>1, <1>2 DEF RedirectToAdapter, FallBackFromGoogle

LEMMA ParseSteps ==
    ASSUME Whole, IInv', Parse
    PROVE  LoadStands' /\ LeavingStands' /\ Steps
<1>1. PICK shown \in {page, NoPage} :
        \/ /\ page' = shown
           /\ job' = [job EXCEPT !.phase = "finish"]
           /\ UNCHANGED <<history, tabs, active, card, transition, astray>>
        \/ Fails(shown)
  BY DEF Parse
<1>2. CASE Fails(shown)
  BY <1>2, FailsSteps
<1>3. CASE /\ page' = shown
           /\ job' = [job EXCEPT !.phase = "finish"]
           /\ UNCHANGED <<history, tabs, active, card, transition, astray>>
  <2>1. Rests /\ LoadStands'
    BY <1>3, ParseRests
  <2>2. OthersRest
    BY <1>3, UnchangedRests DEF Whole
  <2> QED BY <1>3, <2>1, <2>2, LeavingRests, RestSteps DEF Whole
<1> QED BY <1>1, <1>2, <1>3

LEMMA CommitSteps ==
    ASSUME Whole, IInv', Commit
    PROVE  LoadStands' /\ LeavingStands' /\ Steps
<1>1. ~Idle /\ (Settle(Outcome) \/ SettleCancelled(Outcome) \/ Fails(page))
  BY DEF Commit, Idle
<1>2. CASE Fails(page)
  BY <1>2, FailsSteps
<1>3. CASE SettleCancelled(Outcome)
  <2>1. Lands /\ transition' = NoTransition /\ job' = NoJob
    BY <1>3, SettleCancelledLands DEF Whole, SettleCancelled
  <2> QED BY <1>1, <2>1, LandsAsLoad, NoneLoading, NoneLeaving DEF Steps
<1>4. CASE Settle(Outcome) /\ ~transition.pending
  <2>1. Lands /\ transition' = NoTransition /\ job' = NoJob
    BY <1>1, <1>4, SettlePlainLands DEF Whole, Settle
  <2> QED BY <1>1, <2>1, LandsAsLoad, NoneLoading, NoneLeaving DEF Steps
<1>5. CASE Settle(Outcome) /\ transition.pending
  <2>1. /\ page' = job.url /\ job' = NoJob /\ transition' = NoTransition
        /\ FinishTab \/ LimitTab(Outcome)
    BY <1>5 DEF Settle
  <2>2. Seen!Next
    <3>1. CASE LimitTab(Outcome)
      BY <1>1, <1>5, <2>1, <3>1, LimitMade
    <3>2. CASE FinishTab /\ transition.added
      BY <1>1, <2>1, <3>2, OpenMade
    <3>3. CASE FinishTab /\ transition.closes
      BY <1>1, <1>5, <2>1, <3>3, CloseMade
    <3>4. CASE FinishTab /\ ~transition.added /\ ~transition.closes
      BY <1>1, <1>5, <2>1, <3>4, SwitchMade
    <3> QED BY <2>1, <3>1, <3>2, <3>3, <3>4
  <2> QED BY <2>1, <2>2, NoneLoading, NoneLeaving DEF Steps
<1> QED BY <1>1, <1>2, <1>3, <1>4, <1>5

\* Tab requests.
LEMMA SwitchTabSteps ==
    ASSUME Whole, IInv', NEW i \in DOMAIN tabs, SwitchTab(i)
    PROVE  LoadStands' /\ LeavingStands' /\ Steps
<1>1. /\ i \in 1 .. Len(tabs) /\ i # active /\ MayRequest
      /\ Request(Woken(Current, i), i, NoTransition)
  BY LenProperties DEF SwitchTab, Whole, IInv, TabsStand, TabsFit
<1>2. /\ OthersRest /\ Rests /\ LoadStands' /\ LeavingStands'
      /\ astray' # "page" <=> astray # "page"
  BY <1>1, NoTransitionShape, SwitchRests
<1> QED BY <1>2, RestIsStutter DEF Steps, Whole

LEMMA CloseActiveSteps ==
    ASSUME Whole, IInv', CloseActive
    PROVE  LoadStands' /\ LeavingStands' /\ Steps
<1> DEFINE i == Neighbour(active, Len(tabs))
           t == [NoTransition EXCEPT !.closes = TRUE]
<1>1. MayRequest /\ Len(tabs) > 1 /\ Request(Woken(Current, i), i, t)
  BY DEF CloseActive, Neighbour
<1>2. active \in 1 .. Len(tabs) /\ Len(tabs) \in Nat
  BY <1>1, BetweenLoads DEF Whole
<1>3. i \in 1 .. Len(tabs) /\ i # active
  BY <1>1, <1>2 DEF Neighbour
<1>4. /\ t \in [pending : BOOLEAN, added : BOOLEAN, previous : Nat,
                closes : BOOLEAN]
      /\ ~t.added
  BY DEF NoTransition
<1> HIDE DEF t, i
<1>5. i = Neighbour(active, Len(tabs))
  BY DEF i
<1>6. /\ OthersRest /\ Rests /\ LoadStands' /\ LeavingStands'
      /\ astray' # "page" <=> astray # "page"
  BY <1>1, <1>3, <1>4, <1>5, SwitchRests
<1> QED BY <1>6, RestIsStutter DEF Steps, Whole

LEMMA NewTabSteps ==
    ASSUME Whole, IInv', NEW u \in Urls, NewTab(u)
    PROVE  LoadStands' /\ LeavingStands' /\ Steps
BY NewTabRests, RestIsStutter DEF Steps, Whole

LEMMA CloseTabSteps ==
    ASSUME Whole, IInv', NEW i \in DOMAIN tabs, CloseTab(i)
    PROVE  LoadStands' /\ LeavingStands' /\ Steps
<1>1. job' = NoJob /\ transition' = NoTransition
  BY BetweenLoads DEF CloseTab, Whole
<1> QED BY <1>1, CloseTabCloses, NoneLoading, NoneLeaving DEF Steps

-----------------------------------------------------------------------------
\* A step of the browser keeps the invariant, and is a step of the promise.
LEMMA NextSteps ==
    ASSUME Whole, [Next]_vars PROVE Whole' /\ Steps
<1>1. IInv'
  BY NextKeeps DEF Whole
<1>2. CASE UNCHANGED vars
  <2>1. UNCHANGED <<history, page, job, tabs, active, card, transition, astray>>
    BY <1>2 DEF vars
  <2>2. Restored(page)' = Restored(page)
    BY <2>1 DEF Restored
  <2>3. OthersRest /\ Rests
    BY <2>1, <2>2, UnchangedRests DEF Rests, Whole
  <2>4. LoadStands' /\ LeavingStands'
    BY <2>1, <2>3, LeavingRests DEF Whole, LoadStands, OneWay
  <2> QED BY <1>1, <2>1, <2>3, <2>4, RestSteps DEF Whole
<1>3. ASSUME NEW u \in Urls, Link(u) \/ ScriptReplace(u) \/ Retry(u)
      PROVE  Whole' /\ Steps
  BY <1>1, <1>3, BeginSteps DEF Whole
<1>4. CASE Reload
  <2>1. UrlOf(history) \in Urls
    BY FitsParts DEF Whole, IInv, Typed
  <2> QED BY <1>1, <1>4, <2>1, BeginSteps DEF Whole
<1>5. ASSUME NEW u \in Urls, PreviewLink(u) PROVE Whole' /\ Steps
  BY <1>1, <1>5, TurnSteps DEF Whole
<1>6. ASSUME NEW u \in Urls, NewTab(u) PROVE Whole' /\ Steps
  BY <1>1, <1>6, NewTabSteps DEF Whole
<1>7. ASSUME NEW to \in DOMAIN history.entries, Move(to) PROVE Whole' /\ Steps
  BY <1>1, <1>7, MoveSteps DEF Whole
<1>8. CASE RedirectToAdapter \/ FallBackFromGoogle
  BY <1>1, <1>8, AdapterSteps DEF Whole
<1>9. CASE Download \/ CancelLoad
  BY <1>1, <1>9, CancelsSteps DEF Whole, Download, CancelLoad
<1>10. CASE FailFetch
  BY <1>1, <1>10, FailsSteps DEF Whole, FailFetch
<1>11. CASE Parse
  BY <1>1, <1>11, ParseSteps DEF Whole
<1>12. CASE Commit
  BY <1>1, <1>12, CommitSteps DEF Whole
<1>13. CASE Suspend
  BY <1>1, <1>13, TurnSteps DEF Whole
<1>14. CASE CloseActive
  BY <1>1, <1>14, CloseActiveSteps DEF Whole
<1>15. ASSUME NEW i \in DOMAIN tabs, SwitchTab(i) PROVE Whole' /\ Steps
  BY <1>1, <1>15, SwitchTabSteps DEF Whole
<1>16. ASSUME NEW i \in DOMAIN tabs, CloseTab(i) PROVE Whole' /\ Steps
  BY <1>1, <1>16, CloseTabSteps DEF Whole
<1> QED BY <1>2, <1>3, <1>4, <1>5, <1>6, <1>7, <1>8, <1>9, <1>10, <1>11, <1>12,
           <1>13, <1>14, <1>15, <1>16 DEF Next, Pump

\* The first page: one tab, one entry.
LEMMA StartsWhole ==
    ASSUME Init PROVE Whole /\ Seen!Init
<1>1. IInv /\ job = NoJob /\ transition = NoTransition
  BY Starts DEF Init
<1>2. Whole
  BY <1>1 DEF Whole, LoadStands, LeavingStands, OneWay, NoJob, NoTransition
<1>3. PICK u \in Urls :
        /\ history = Single(u) /\ page = u /\ tabs = <<Awake(Single(u))>>
        /\ active = 1 /\ astray = "no"
  BY DEF Init
<1> DEFINE z == <<Single(u)>>
           s == SeenTabs
<1>4. Restored(page) = Single(u) /\ Owner = 1 /\ Number = 1
  BY <1>1, <1>3, NoJobShape, NoTransitionShape DEF Restored, Owner, Number
<1>5. /\ s \in Seq(Fits(SessionLimit)) /\ Len(s) = 1 /\ s[1] = Single(u)
  BY <1>1, <1>4, SeenIs DEF SeenSo
<1> HIDE DEF s
<1>6. s = z
  <2>1. Single(u) \in Fits(SessionLimit)
    BY SingleFits, Limits
  <2>2. z \in Seq(Fits(SessionLimit)) /\ Len(z) = 1 /\ z[1] = Single(u)
    BY <2>1
  <2> HIDE DEF z
  <2>3. \A i \in 1 .. 1 : s[i] = z[i]
    BY <1>5, <2>2
  <2> QED BY <1>5, <2>2, <2>3, SeqEqual
<1>7. SeenTabs = <<Seen!Single(u)>>
  BY <1>6, SameOperators DEF s
<1> QED BY <1>2, <1>3, <1>4, <1>7 DEF Seen!Init

\* What the refinement needs besides: a load is begun in one way, moves the
\* cursor by one, and a request leaves the tab it goes from as it was.
THEOREM WholeHolds == Spec => []Whole
<1>1. Init => Whole
  BY StartsWhole
<1>2. Whole /\ [Next]_vars => Whole'
  BY NextSteps
<1> QED BY <1>1, <1>2, PTL DEF Spec

\* At every moment, also while a load has moved the cursor, a page that came
\* with an entry is the one of the entry that a failure goes back to.
FiledPage == (page # NoPage /\ astray # "page") => page = UrlOf(SeenTabs[Owner])

\* Only after Misfile or LimitedTab, and until a load files its page again, is a
\* page shown under the entry of another.
THEOREM FiledPageStands == Spec => []FiledPage
<1>1. IInv => FiledPage
  <2> SUFFICES ASSUME IInv PROVE FiledPage
    OBVIOUS
  <2>1. SeenTabs[Owner] = Restored(page)
    BY HereIsRestored
  <2> QED BY <2>1 DEF IInv, Filed, FiledPage
<1> QED BY <1>1, IInvHolds, PTL

\* Every load, however it is begun, retried, redirected, cancelled or failed,
\* and every tab request does to the tabs' histories what TabbedHistory says.
THEOREM TabsImplement == Spec => ImplementsTabbedHistory
<1>1. Init => Seen!Init
  BY StartsWhole
<1>2. Whole /\ [Next]_vars => [Seen!Next]_(Seen!vars)
  BY NextSteps DEF Steps
<1> QED BY <1>1, <1>2, WholeHolds, PTL
        DEF Spec, ImplementsTabbedHistory, Seen!Spec

=============================================================================
