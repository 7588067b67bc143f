-------------------------- MODULE ReviewCycleProofs --------------------------
(***************************************************************************)
(* The safety of ReviewCycle for every value of its constants, and that it *)
(* implements ReviewLedger. IInv is the inductive invariant: the verdict   *)
(* columns cannot be kept right without knowing that a submitted report    *)
(* has a revision whose round it carries, and the type of a request bounds *)
(* the revision a review binds to. TimeInv is a second one, of the clock   *)
(* and of what the requests in flight have read before it moved on.        *)
(***************************************************************************)
EXTENDS ReviewRefinement, MCReportDates, SequenceTheorems, FiniteSetTheorems,
        WellFoundedInduction, TLAPS

IInv ==
    /\ TypeOK
    /\ VerdictHasItsReview
    /\ DecidedOrOverdue
    /\ RoundOfLatest
    /\ FrozenWhileSubmitted

-----------------------------------------------------------------------------
(* The calendar.                                                           *)

\* An instant is a day and an offset in it.
LEMMA DayAndMinute ==
    ASSUME NEW t \in Nat
    PROVE  /\ DayOf(t) \in Nat /\ MinuteOf(t) \in 0 .. DayLen - 1
           /\ t = DayOf(t) * DayLen + MinuteOf(t)
<1>1. DayLen \in Nat /\ DayLen > 0
  BY CalendarAssumption
<1>2. t \div DayLen \in Int /\ t % DayLen \in 0 .. DayLen - 1
  BY <1>1
<1>3. t = (t \div DayLen) * DayLen + (t % DayLen)
  BY <1>1
<1>4. t \div DayLen >= 0
  BY <1>1
<1> QED
  BY <1>2, <1>3, <1>4 DEF DayOf, MinuteOf

\* A later day starts when the earlier one is over.
LEMMA DayOrder ==
    ASSUME NEW a \in Int, NEW b \in Int, a < b
    PROVE  /\ a * DayLen \in Int /\ b * DayLen \in Int
           /\ a * DayLen + DayLen <= b * DayLen
<1>1. DayLen \in Nat /\ b - a >= 1
  BY CalendarAssumption
<1>2. (b - a - 1) * DayLen >= 0
  BY <1>1
<1> QED
  BY <1>1, <1>2

\* The offset and the day of an instant that is made of them.
LEMMA DayOfInstant ==
    ASSUME NEW d \in Nat, NEW m \in 0 .. DayLen - 1
    PROVE  LET t == MinuteOfDayInstant(d, m)
           IN  t \in Nat /\ DayOf(t) = d /\ MinuteOf(t) = m
<1> DEFINE t == d * DayLen + m
<1>1. DayLen \in Nat /\ DayLen > 0 /\ d * DayLen \in Nat
  BY CalendarAssumption
<1>2. t \in Nat
  BY <1>1
<1>3. DayOf(t) \in Nat /\ MinuteOf(t) \in 0 .. DayLen - 1
      /\ t = DayOf(t) * DayLen + MinuteOf(t)
  BY <1>2, DayAndMinute
<1>4. ASSUME NEW a \in Nat, NEW b \in Nat, a < b,
             NEW i \in 0 .. DayLen - 1, NEW j \in 0 .. DayLen - 1
      PROVE  a * DayLen + i < b * DayLen + j
  BY <1>1, <1>4, DayOrder
<1>5. t = d * DayLen + m
  OBVIOUS
<1> HIDE DEF t
<1>6. ~ (DayOf(t) < d) /\ ~ (d < DayOf(t))
  BY <1>2, <1>3, <1>4, <1>5
<1>7. DayOf(t) = d
  BY <1>3, <1>6
<1> QED
  BY <1>1, <1>2, <1>3, <1>5, <1>7 DEF MinuteOfDayInstant

\* A report is open for writing only before the cutoff of its day.
LEMMA UnlockedBeforeCutoff ==
    ASSUME NEW t \in Nat, NEW day \in Nat, ~ IsReportLockedAt(day, t)
    PROVE  t < MinuteOfDayInstant(day, Cutoff)
<1> DEFINE d == DayOf(t)
           m == MinuteOf(t)
<1>1. d \in Nat /\ m \in 0 .. DayLen - 1 /\ t = d * DayLen + m
  BY DayAndMinute
<1>2. DayLen \in Nat /\ Cutoff \in Nat
  BY CalendarAssumption
<1>3. d < day \/ (d = day /\ m < Cutoff)
  BY <1>1, <1>2 DEF IsReportLockedAt
<1> HIDE DEF d, m
<1>4. d * DayLen \in Int
  BY <1>1, <1>2
<1>5. CASE d < day
  BY <1>1, <1>2, <1>4, <1>5, DayOrder DEF MinuteOfDayInstant
<1>6. CASE d = day /\ m < Cutoff
  BY <1>1, <1>2, <1>4, <1>6 DEF MinuteOfDayInstant
<1> QED
  BY <1>3, <1>5, <1>6

\* A scope that works on some weekday has a next working day within a week, and
\* works on no day before it.
LEMMA NextWorkingDateIs ==
    ASSUME NEW day \in Int, NEW weekdays \in SUBSET (1 .. 7), weekdays # {}
    PROVE  LET d == NextWorkingDate(day, weekdays)
           IN  /\ d \in day + 1 .. day + 7
               /\ IsWorkingDay(d, weekdays)
               /\ \A e \in day + 1 .. d - 1 : ~ IsWorkingDay(e, weekdays)
<1> DEFINE Works(d) == IsWorkingDay(d, weekdays)
<1>1. \E d \in day + 1 .. day + 7 : Works(d)
  <2>1. PICK w \in 1 .. 7 : w \in weekdays
    OBVIOUS
  <2> DEFINE d == day + 1 + ((w - 2 - day) % 7)
  <2>2. d \in day + 1 .. day + 7 /\ (d % 7) + 1 = w
    OBVIOUS
  <2> QED
    BY <2>1, <2>2 DEF IsWorkingDay, IsoWeekday
<1> HIDE DEF Works
<1>2. \E d \in day + 1 .. day + 7 : Works(d) /\ \A e \in day + 1 .. d - 1 : ~ Works(e)
  BY <1>1
<1> QED
  BY <1>2 DEF NextWorkingDate, Works

\* An edit window is open when it is granted and ends at the cutoff of the next
\* working day of the scope, in little more than a week at the latest (review,
\* reopen, nextWorkingDate): what MCReportDates checks at every instant of a
\* small calendar, for days of any length and any cutoff.
THEOREM EditWindowOpens ==
    ASSUME NEW t \in Nat, NEW s, s.weekdays \in SUBSET (1 .. 7), s.weekdays # {}
    PROVE  LET end == EditWindowEnd(t, s)
           IN  /\ end \in Nat /\ MinuteOf(end) = Cutoff
               /\ t < end /\ end < t + 8 * DayLen /\ DayOf(t) < DayOf(end)
               /\ IsWorkingDay(DayOf(end), s.weekdays)
               /\ \A d \in DayOf(t) + 1 .. DayOf(end) - 1 :
                        ~ IsWorkingDay(d, s.weekdays)
<1> DEFINE day == DayOf(t)
           d == NextWorkingDate(day, s.weekdays)
           end == d * DayLen + Cutoff
           m == MinuteOf(t)
<1>1. day \in Nat /\ m \in 0 .. DayLen - 1 /\ t = day * DayLen + m
  BY DayAndMinute
<1>2. /\ d \in day + 1 .. day + 7 /\ IsWorkingDay(d, s.weekdays)
      /\ \A e \in day + 1 .. d - 1 : ~ IsWorkingDay(e, s.weekdays)
  BY <1>1, NextWorkingDateIs
<1>3. EditWindowEnd(t, s) = end
  BY DEF EditWindowEnd, MinuteOfDayInstant
<1>4. DayLen \in Nat /\ DayLen > 0 /\ Cutoff \in 0 .. DayLen - 1
  BY CalendarAssumption
<1>5. d \in Nat /\ DayOf(end) = d /\ MinuteOf(end) = Cutoff
  <2>1. d \in Nat
    BY <1>1, <1>2
  <2> QED
    BY <1>4, <2>1, DayOfInstant DEF MinuteOfDayInstant
<1> HIDE DEF d, m, day
<1>6. day * DayLen \in Nat /\ d * DayLen \in Nat
  BY <1>1, <1>4, <1>5
<1>7. /\ day * DayLen + DayLen <= d * DayLen
      /\ d * DayLen <= day * DayLen + 7 * DayLen
  <2>1. (d - day - 1) * DayLen >= 0 /\ (day + 7 - d) * DayLen >= 0
    BY <1>1, <1>2, <1>4
  <2> QED
    BY <1>1, <1>2, <1>4, <2>1
<1>8. end \in Nat /\ t < end /\ end < t + 8 * DayLen
  BY <1>1, <1>4, <1>6, <1>7
<1>9. day < d
  BY <1>1, <1>2
<1> QED
  BY <1>2, <1>3, <1>5, <1>8, <1>9 DEF day

\* A set of numbers has a least one.
LEMMA LeastOf ==
    ASSUME NEW S \in SUBSET Nat, S # {}
    PROVE  \E x \in S : \A y \in S : x <= y
<1>1. PICK x \in S : \A y \in S : ~ (<<y, x>> \in OpToRel(<, Nat))
  BY NatLessThanWellFounded, WFMin
<1>2. \A y \in S : ~ (y < x)
  BY <1>1 DEF OpToRel
<1> QED
  BY <1>2

\* The days that the deadline counts, as a function that is defined by itself.
CountsFrom(day, weekdays, f) ==
    f = [n \in Nat |-> IF n <= 1 THEN day ELSE NextWorkingDate(f[n - 1], weekdays)]

\* The beginning of such a function, up to its k-th day.
CountsTo(day, weekdays, k, g) ==
    g = [n \in 0 .. k |-> IF n <= 1 THEN day ELSE NextWorkingDate(g[n - 1], weekdays)]

\* There is such a function: each beginning of it exists and continues the
\* shorter ones, by the least number for which that fails.
LEMMA CountExists ==
    ASSUME NEW day, NEW weekdays
    PROVE  \E f : CountsFrom(day, weekdays, f)
<1> DEFINE To(k, g) == CountsTo(day, weekdays, k, g)
           Following(e) == NextWorkingDate(e, weekdays)
<1>1. \A k \in Nat : \E g : To(k, g)
  <2> DEFINE Bad == {k \in Nat : ~ \E g : To(k, g)}
  <2> SUFFICES ASSUME Bad # {} PROVE FALSE
    OBVIOUS
  <2>1. PICK k \in Bad : \A m \in Bad : k <= m
    BY LeastOf
  <2>2. CASE k = 0
    <3> DEFINE g == [n \in 0 .. 0 |-> day]
    <3>1. g = [n \in 0 .. 0 |-> IF n <= 1 THEN day ELSE Following(g[n - 1])]
      OBVIOUS
    <3>2. To(0, g)
      BY <3>1 DEF CountsTo
    <3> QED
      BY <2>1, <2>2, <3>2
  <2>3. CASE k > 0
    <3>1. k - 1 \in Nat /\ k - 1 \notin Bad
      BY <2>1, <2>3
    <3>2. PICK h : To(k - 1, h)
      BY <3>1
    <3>3. /\ h = [n \in 0 .. k - 1 |-> h[n]]
          /\ \A n \in 0 .. k - 1 : h[n] = IF n <= 1 THEN day ELSE Following(h[n - 1])
      BY <3>2 DEF CountsTo
    <3> DEFINE g == [n \in 0 .. k |-> IF n < k THEN h[n]
                                      ELSE IF k <= 1 THEN day ELSE Following(h[k - 1])]
    <3>4. \A n \in 0 .. k : g[n] = IF n <= 1 THEN day ELSE Following(g[n - 1])
      <4> SUFFICES ASSUME NEW n \in 0 .. k
                   PROVE  g[n] = IF n <= 1 THEN day ELSE Following(g[n - 1])
        OBVIOUS
      <4> HIDE DEF Following
      <4>1. CASE n < k
        BY <2>1, <3>3, <4>1
      <4>2. CASE n = k
        BY <2>1, <2>3, <4>2
      <4> QED
        BY <2>1, <4>1, <4>2
    <3>5. To(k, g)
      <4> HIDE DEF Following
      <4>1. g = [n \in 0 .. k |-> g[n]]
        OBVIOUS
      <4> HIDE DEF g
      <4>2. g = [n \in 0 .. k |-> IF n <= 1 THEN day ELSE Following(g[n - 1])]
        BY <3>4, <4>1
      <4> QED
        BY <4>2 DEF CountsTo, Following
    <3> QED
      BY <2>1, <3>5
  <2> QED
    BY <2>1, <2>2, <2>3
<1> HIDE DEF Following
<1>2. \A k \in Nat : \A g : To(k, g) =>
        \A n \in 0 .. k : g[n] = IF n <= 1 THEN day ELSE Following(g[n - 1])
  BY DEF CountsTo, Following
<1> DEFINE G(k) == CHOOSE g : To(k, g)
<1>3. \A k \in Nat : To(k, G(k))
  BY <1>1
<1> HIDE DEF To, G
<1>4. \A k \in Nat : \A n \in 0 .. k :
        G(k)[n] = IF n <= 1 THEN day ELSE Following(G(k)[n - 1])
  BY <1>2, <1>3
<1>5. \A n \in Nat : \A k, m \in Nat : n <= k /\ n <= m => G(k)[n] = G(m)[n]
  <2> DEFINE Bad == {n \in Nat : ~ \A k, m \in Nat : n <= k /\ n <= m => G(k)[n] = G(m)[n]}
  <2> SUFFICES ASSUME Bad # {} PROVE FALSE
    OBVIOUS
  <2>1. PICK n \in Bad : \A i \in Bad : n <= i
    BY LeastOf
  <2>2. PICK k \in Nat, m \in Nat : n <= k /\ n <= m /\ G(k)[n] # G(m)[n]
    BY <2>1
  <2>3. n \in 0 .. k /\ n \in 0 .. m
    BY <2>1, <2>2
  <2>4. /\ G(k)[n] = IF n <= 1 THEN day ELSE Following(G(k)[n - 1])
        /\ G(m)[n] = IF n <= 1 THEN day ELSE Following(G(m)[n - 1])
    BY <1>4, <2>2, <2>3
  <2>5. CASE n > 1
    <3>1. n - 1 \in Nat /\ n - 1 \notin Bad
      BY <2>1, <2>5
    <3>2. G(k)[n - 1] = G(m)[n - 1]
      BY <2>1, <2>2, <3>1
    <3> QED
      BY <2>2, <2>4, <2>5, <3>2
  <2> QED
    BY <2>1, <2>2, <2>4, <2>5
<1> DEFINE f == [n \in Nat |-> G(n)[n]]
<1>6. \A n \in Nat : f[n] = IF n <= 1 THEN day ELSE Following(f[n - 1])
  <2> SUFFICES ASSUME NEW n \in Nat
               PROVE  f[n] = IF n <= 1 THEN day ELSE Following(f[n - 1])
    OBVIOUS
  <2>1. f[n] = IF n <= 1 THEN day ELSE Following(G(n)[n - 1])
    BY <1>4
  <2>2. n > 1 => G(n)[n - 1] = f[n - 1]
    <3>1. n > 1 => n - 1 \in Nat /\ n - 1 <= n
      OBVIOUS
    <3> QED
      BY <1>5, <3>1
  <2> QED
    BY <2>1, <2>2
<1>7. f = [n \in Nat |-> f[n]]
  OBVIOUS
<1> HIDE DEF f
<1>8. f = [n \in Nat |-> IF n <= 1 THEN day ELSE Following(f[n - 1])]
  BY <1>6, <1>7
<1> QED
  BY <1>8 DEF CountsFrom, Following

\* The working days after a day, up to another one.
DaysAfter(day, weekdays, last) ==
    {e \in day + 1 .. last : IsWorkingDay(e, weekdays)}

\* The next working day is one more.
LEMMA OneDayMore ==
    ASSUME NEW day \in Nat, NEW weekdays \in SUBSET (1 .. 7), weekdays # {},
           NEW last \in Nat, day <= last
    PROVE  LET next == NextWorkingDate(last, weekdays)
           IN  /\ next \in Nat /\ day < next /\ IsWorkingDay(next, weekdays)
               /\ IsFiniteSet(DaysAfter(day, weekdays, last))
               /\ Cardinality(DaysAfter(day, weekdays, next))
                    = Cardinality(DaysAfter(day, weekdays, last)) + 1
<1> DEFINE next == NextWorkingDate(last, weekdays)
           A == DaysAfter(day, weekdays, last)
           B == DaysAfter(day, weekdays, next)
<1>1. /\ next \in last + 1 .. last + 7 /\ IsWorkingDay(next, weekdays)
      /\ \A e \in last + 1 .. next - 1 : ~ IsWorkingDay(e, weekdays)
  BY NextWorkingDateIs
<1> HIDE DEF next
<1>2. next \in Nat /\ last < next /\ day < next
  BY <1>1
<1>3. B = A \cup {next} /\ next \notin A
  BY <1>1, <1>2 DEF DaysAfter
<1>4. IsFiniteSet(A)
  <2>1. IsFiniteSet(day + 1 .. last)
    BY FS_Interval
  <2> QED
    BY <2>1, FS_Subset DEF DaysAfter
<1>5. Cardinality(B) = Cardinality(A) + 1
  BY <1>3, <1>4, FS_AddElement
<1> QED
  BY <1>1, <1>2, <1>4, <1>5 DEF next

\* Up to the n-th day that is counted there are n - 1 working days, and it is
\* one itself, unless it is the first.
LEMMA CountIsRight ==
    ASSUME NEW day \in Nat, NEW weekdays \in SUBSET (1 .. 7), weekdays # {},
           NEW f, CountsFrom(day, weekdays, f)
    PROVE  \A n \in Nat \ {0} :
             /\ f[n] \in Nat /\ day <= f[n]
             /\ n > 1 => IsWorkingDay(f[n], weekdays)
             /\ Cardinality(DaysAfter(day, weekdays, f[n])) = n - 1
<1> DEFINE P(n) == /\ f[n] \in Nat /\ day <= f[n]
                   /\ n > 1 => IsWorkingDay(f[n], weekdays)
                   /\ Cardinality(DaysAfter(day, weekdays, f[n])) = n - 1
           Bad == {n \in Nat \ {0} : ~ P(n)}
<1>1. \A n \in Nat : f[n] = IF n <= 1 THEN day ELSE NextWorkingDate(f[n - 1], weekdays)
  BY DEF CountsFrom
<1> SUFFICES ASSUME Bad # {} PROVE FALSE
  OBVIOUS
<1>2. PICK n \in Bad : \A m \in Bad : n <= m
  BY LeastOf
<1>3. CASE n = 1
  <2>1. f[1] = day
    BY <1>1
  <2>2. DaysAfter(day, weekdays, day) = {}
    BY DEF DaysAfter
  <2>3. P(1)
    BY <2>1, <2>2, FS_EmptySet
  <2> QED
    BY <1>2, <1>3, <2>3
<1>4. CASE n > 1
  <2>1. n - 1 \in Nat \ {0} /\ n - 1 \notin Bad
    BY <1>2, <1>4
  <2>2. P(n - 1)
    BY <2>1
  <2>3. f[n] = NextWorkingDate(f[n - 1], weekdays)
    BY <1>1, <1>2, <1>4
  <2>4. P(n)
    <3> DEFINE last == f[n - 1]
    <3>1. last \in Nat /\ day <= last
      BY <2>2
    <3>2. Cardinality(DaysAfter(day, weekdays, last)) = (n - 1) - 1
      BY <2>2
    <3> HIDE DEF last
    <3>3. /\ f[n] \in Nat /\ day < f[n] /\ IsWorkingDay(f[n], weekdays)
          /\ Cardinality(DaysAfter(day, weekdays, f[n]))
               = Cardinality(DaysAfter(day, weekdays, last)) + 1
      <4>1. f[n] = NextWorkingDate(last, weekdays)
        BY <2>3 DEF last
      <4> QED
        BY <3>1, <4>1, OneDayMore
    <3> QED
      BY <1>2, <3>2, <3>3
  <2> QED
    BY <1>2, <2>4
<1> QED
  BY <1>2, <1>3, <1>4

\* The deadline of a review round is the cutoff of the day that such a function
\* counts to: the recursive definition of reviewDeadlineAt defines one.
LEMMA DeadlineCounts ==
    ASSUME NEW t, NEW s
    PROVE  \E f : /\ CountsFrom(DayOf(t), s.weekdays, f)
                  /\ ReviewDeadlineAt(t, s) = MinuteOfDayInstant(f[WindowDays(s)], Cutoff)
<1> DEFINE nth[n \in Nat] == IF n <= 1 THEN DayOf(t)
                             ELSE NextWorkingDate(nth[n - 1], s.weekdays)
<1>1. ReviewDeadlineAt(t, s) = MinuteOfDayInstant(nth[WindowDays(s)], Cutoff)
  BY DEF ReviewDeadlineAt
<1>2. nth = CHOOSE f : CountsFrom(DayOf(t), s.weekdays, f)
  BY DEF CountsFrom
<1> HIDE DEF nth
<1>3. CountsFrom(DayOf(t), s.weekdays, nth)
  BY <1>2, CountExists
<1> QED
  BY <1>1, <1>3

\* A review window of N days ends at the cutoff of the N-th day, the day of the
\* submission being the first one even when nobody works on it (reviewDeadlineAt):
\* from whichever instant, for any working days and any length of the window.
THEOREM DeadlineIsRight ==
    ASSUME NEW t \in Nat, NEW s, s.weekdays \in SUBSET (1 .. 7), s.weekdays # {},
           s.reviewWindowDays \in Nat
    PROVE  LET deadline == ReviewDeadlineAt(t, s)
               last == DayOf(deadline)
               n == s.reviewWindowDays
           IN  /\ deadline \in Nat /\ MinuteOf(deadline) = Cutoff
               /\ n <= 1 => last = DayOf(t)
               /\ n > 1 => /\ IsWorkingDay(last, s.weekdays)
                           /\ Cardinality(DaysAfter(DayOf(t), s.weekdays, last)) = n - 1
<1> DEFINE deadline == ReviewDeadlineAt(t, s)
           day == DayOf(t)
           n == s.reviewWindowDays
<1>1. day \in Nat
  BY DayAndMinute
<1>2. PICK f : /\ CountsFrom(day, s.weekdays, f)
               /\ deadline = MinuteOfDayInstant(f[WindowDays(s)], Cutoff)
  BY DeadlineCounts
<1> DEFINE k == WindowDays(s)
           last == f[k]
<1>3. k \in Nat \ {0} /\ (n <= 1 => k = 1) /\ (n > 1 => k = n)
  BY DEF WindowDays
<1> HIDE DEF k, deadline, day
<1>4. /\ last \in Nat /\ (k > 1 => IsWorkingDay(last, s.weekdays))
      /\ Cardinality(DaysAfter(day, s.weekdays, last)) = k - 1
  <2>1. \A i \in Nat \ {0} :
          /\ f[i] \in Nat
          /\ i > 1 => IsWorkingDay(f[i], s.weekdays)
          /\ Cardinality(DaysAfter(day, s.weekdays, f[i])) = i - 1
    BY <1>1, <1>2, CountIsRight
  <2> QED
    BY <1>3, <2>1
<1>5. k = 1 => last = day
  BY <1>2, <1>3 DEF CountsFrom
<1>6. deadline \in Nat /\ DayOf(deadline) = last /\ MinuteOf(deadline) = Cutoff
  <2>1. Cutoff \in 0 .. DayLen - 1
    BY CalendarAssumption
  <2>2. deadline = MinuteOfDayInstant(last, Cutoff)
    BY <1>2 DEF k
  <2> HIDE DEF last
  <2> QED
    BY <1>4, <2>1, <2>2, DayOfInstant
<1> HIDE DEF last
<1> QED
  BY <1>3, <1>4, <1>5, <1>6 DEF deadline, day

\* An earlier instant is of no later day, and of no later minute of the same day.
LEMMA DayIsMonotone ==
    ASSUME NEW t \in Nat, NEW u \in Nat, t <= u
    PROVE  /\ DayOf(t) <= DayOf(u)
           /\ DayOf(t) = DayOf(u) => MinuteOf(t) <= MinuteOf(u)
<1> DEFINE d == DayOf(t)
           e == DayOf(u)
           m == MinuteOf(t)
           n == MinuteOf(u)
<1>1. /\ d \in Nat /\ m \in 0 .. DayLen - 1 /\ t = d * DayLen + m
      /\ e \in Nat /\ n \in 0 .. DayLen - 1 /\ u = e * DayLen + n
  BY DayAndMinute
<1>2. DayLen \in Nat
  BY CalendarAssumption
<1> HIDE DEF d, e, m, n
<1>3. d * DayLen \in Int /\ e * DayLen \in Int
  BY <1>1, <1>2
<1>4. ~ (e < d)
  BY <1>1, <1>2, <1>3, DayOrder
<1>5. d = e => m <= n
  BY <1>1, <1>2, <1>3
<1> QED
  BY <1>1, <1>4, <1>5 DEF d, e, m, n

\* A day that is locked for writing does not open again (isReportLockedAt).
THEOREM LockStands ==
    ASSUME NEW t \in Nat, NEW u \in Nat, t <= u,
           NEW day \in Nat, IsReportLockedAt(day, t)
    PROVE  IsReportLockedAt(day, u)
<1>1. /\ DayOf(t) \in Nat /\ DayOf(u) \in Nat
      /\ MinuteOf(t) \in Int /\ MinuteOf(u) \in Int /\ Cutoff \in Int
  BY DayAndMinute, CalendarAssumption
<1>2. DayOf(t) <= DayOf(u) /\ (DayOf(t) = DayOf(u) => MinuteOf(t) <= MinuteOf(u))
  BY DayIsMonotone
<1> QED
  BY <1>1, <1>2 DEF IsReportLockedAt

\* Who submits later is not to be reviewed earlier, for the same settings of the
\* scope (reviewDeadlineAt).
THEOREM DeadlineIsMonotone ==
    ASSUME NEW t \in Nat, NEW u \in Nat, t <= u,
           NEW s, s.weekdays \in SUBSET (1 .. 7), s.weekdays # {},
           s.reviewWindowDays \in Nat
    PROVE  ReviewDeadlineAt(t, s) <= ReviewDeadlineAt(u, s)
<1> DEFINE a == ReviewDeadlineAt(t, s)
           b == ReviewDeadlineAt(u, s)
           n == s.reviewWindowDays
           A == DaysAfter(DayOf(t), s.weekdays, DayOf(a))
           B == DaysAfter(DayOf(u), s.weekdays, DayOf(b))
<1>1. /\ a \in Nat /\ MinuteOf(a) = Cutoff
      /\ n <= 1 => DayOf(a) = DayOf(t)
      /\ n > 1 => IsWorkingDay(DayOf(a), s.weekdays) /\ Cardinality(A) = n - 1
  BY DeadlineIsRight
<1>2. /\ b \in Nat /\ MinuteOf(b) = Cutoff
      /\ n <= 1 => DayOf(b) = DayOf(u)
      /\ n > 1 => IsWorkingDay(DayOf(b), s.weekdays) /\ Cardinality(B) = n - 1
  BY DeadlineIsRight
<1>3. n \in Nat /\ DayOf(t) \in Nat /\ DayOf(u) \in Nat /\ DayOf(t) <= DayOf(u)
  BY DayAndMinute, DayIsMonotone
<1> HIDE DEF a, b, n
<1>4. DayOf(a) \in Nat /\ DayOf(b) \in Nat
  BY <1>1, <1>2, DayAndMinute
<1>5. DayOf(a) <= DayOf(b)
  <2> SUFFICES ASSUME n > 1, DayOf(b) < DayOf(a)
               PROVE  FALSE
    BY <1>1, <1>2, <1>3, <1>4
  <2>1. IsFiniteSet(A)
    <3>1. IsFiniteSet(DayOf(t) + 1 .. DayOf(a))
      BY <1>3, <1>4, FS_Interval
    <3> QED
      BY <3>1, FS_Subset DEF DaysAfter
  <2>2. A # {}
    BY <1>1, <1>3, FS_EmptySet
  <2>3. B \subseteq A
    BY <1>3, <1>4 DEF DaysAfter
  <2>4. DayOf(a) \in A /\ DayOf(a) \notin B
    BY <1>1, <1>3, <1>4, <2>2 DEF DaysAfter
  <2>5. A # B
    BY <2>4
  <2>6. Cardinality(A) = Cardinality(B)
    BY <1>1, <1>2
  <2> HIDE DEF A, B
  <2> QED
    BY <2>1, <2>3, <2>5, <2>6, FS_Subset
<1>6. a <= b
  <2>1. /\ DayLen \in Nat /\ Cutoff \in Int
        /\ a = DayOf(a) * DayLen + Cutoff /\ b = DayOf(b) * DayLen + Cutoff
    BY <1>1, <1>2, DayAndMinute, CalendarAssumption
  <2>2. DayOf(a) * DayLen <= DayOf(b) * DayLen
    <3>1. CASE DayOf(a) < DayOf(b)
      <4>1. /\ DayOf(a) * DayLen \in Int /\ DayOf(b) * DayLen \in Int
            /\ DayOf(a) * DayLen + DayLen <= DayOf(b) * DayLen
        BY <1>4, <3>1, DayOrder
      <4> QED
        BY <2>1, <4>1
    <3>2. CASE DayOf(a) = DayOf(b)
      BY <1>4, <2>1, <3>2
    <3> QED
      BY <1>4, <1>5, <3>1, <3>2
  <2>3. DayOf(a) * DayLen \in Int /\ DayOf(b) * DayLen \in Int
    BY <1>4, <2>1
  <2> QED
    BY <2>1, <2>2, <2>3
<1> QED
  BY <1>6 DEF a, b

\* The clock counts instants, and anyScope is a scope's settings.
CalendarInv ==
    /\ instant \in Nat
    /\ anyScope \in [weekdays : (SUBSET (1 .. 7)) \ {{}},
                     reviewWindowDays : 0 .. MaxWindow]

\* The clock never goes back to before the first instant.
LEMMA CalendarInvHolds == CalendarSpec => []CalendarInv
<1>1. CalendarInit => CalendarInv
  BY DEF CalendarInit, CalendarInv
<1>2. CalendarInv /\ [NextInstant]_calendarVars => CalendarInv'
  BY DEF CalendarInv, NextInstant, calendarVars
<1> QED
  BY <1>1, <1>2, PTL DEF CalendarSpec

\* What the run of the calendar asks of the deadline holds at every instant, for
\* any working days and any window.
THEOREM DeadlineCorrect == CalendarSpec => []DeadlineIsNthDay
<1>1. CalendarInv => DeadlineIsNthDay
  <2> SUFFICES ASSUME CalendarInv
               PROVE  DeadlineIsNthDay
    OBVIOUS
  <2>1. /\ instant \in Nat /\ anyScope.weekdays \in SUBSET (1 .. 7)
        /\ anyScope.weekdays # {} /\ anyScope.reviewWindowDays \in Nat
    BY DEF CalendarInv
  <2> DEFINE deadline == ReviewDeadlineAt(instant, anyScope)
             n == anyScope.reviewWindowDays
  <2>2. /\ MinuteOf(deadline) = Cutoff
        /\ n <= 1 => DayOf(deadline) = DayOf(instant)
        /\ n > 1 => /\ IsWorkingDay(DayOf(deadline), anyScope.weekdays)
                    /\ Cardinality(DaysAfter(DayOf(instant), anyScope.weekdays,
                                             DayOf(deadline))) = n - 1
    BY <2>1, DeadlineIsRight
  <2>3. WorkingDaysIn(DayOf(instant) + 1 .. DayOf(deadline))
          = DaysAfter(DayOf(instant), anyScope.weekdays, DayOf(deadline))
    BY DEF WorkingDaysIn, DaysAfter
  <2> HIDE DEF deadline
  <2> QED
    BY <2>1, <2>2, <2>3 DEF DeadlineIsNthDay, deadline
<1> QED
  BY <1>1, CalendarInvHolds, PTL

\* And so does what it asks of the edit windows.
THEOREM WindowCorrect == CalendarSpec => []EditWindowIsOpen
<1>1. CalendarInv => EditWindowIsOpen
  <2> SUFFICES ASSUME CalendarInv
               PROVE  EditWindowIsOpen
    OBVIOUS
  <2>1. /\ instant \in Nat /\ anyScope.weekdays \in SUBSET (1 .. 7)
        /\ anyScope.weekdays # {}
    BY DEF CalendarInv
  <2> DEFINE end == EditWindowEnd(instant, anyScope)
  <2>2. /\ end \in Nat /\ MinuteOf(end) = Cutoff
        /\ instant < end /\ end < instant + 8 * DayLen
        /\ DayOf(instant) < DayOf(end)
        /\ IsWorkingDay(DayOf(end), anyScope.weekdays)
        /\ \A d \in DayOf(instant) + 1 .. DayOf(end) - 1 :
                 ~ IsWorkingDay(d, anyScope.weekdays)
    BY <2>1, EditWindowOpens
  <2> HIDE DEF end
  <2>3. DayOf(instant) \in Nat /\ DayOf(end) \in Nat /\ DayLen \in Nat
    BY <2>1, <2>2, DayAndMinute, CalendarAssumption
  <2>4. WorkingDaysIn(DayOf(instant) + 1 .. DayOf(end)) = {DayOf(end)}
    BY <2>2, <2>3 DEF WorkingDaysIn
  <2>5. end <= instant + 8 * DayLen
    <3>1. instant + 8 * DayLen \in Int
      BY <2>1, <2>3
    <3> QED
      BY <2>2, <3>1
  <2> QED
    BY <2>2, <2>4, <2>5 DEF EditWindowIsOpen, end
<1> QED
  BY <1>1, CalendarInvHolds, PTL

-----------------------------------------------------------------------------
(* What the requests carry.                                                *)

\* A request is idle or one of the four kinds, with the fields of its kind.
LEMMA RequestFields ==
    ASSUME NEW r \in Requests
    PROVE  /\ r # Idle => r.op # "idle"
           /\ r.op # "idle" => r.since \in Instants
           /\ r.op \in {"submit", "review", "reopen"} => r.scope \in ScopeSettings
           /\ r.op = "submit" => r.firstSubmittedAt \in Instants \cup {None}
           /\ r.op = "review" => r.rev \in 0 .. MaxRevisions
           /\ r.op = "reopen" => r.editableUntil \in WindowEnds \cup {None}
BY DEF Requests, Idle

\* Dropping the request of one user leaves the type of the requests.
LEMMA FinishType ==
    ASSUME TypeOK, NEW u \in Users, Finish(u),
           Len(revisions') \in Nat, Len(revisions') >= Len(revisions)
    PROVE  /\ req' \in [Users -> Requests]
           /\ \A v \in Users : req'[v].op = "review" => req'[v].rev <= Len(revisions')
<1>1. Idle \in Requests /\ Idle.op # "review"
  BY DEF Requests, Idle
<1>2. req' \in [Users -> Requests]
  BY <1>1 DEF TypeOK, Finish
<1>3. ASSUME NEW v \in Users, req'[v].op = "review"
      PROVE  req'[v].rev <= Len(revisions')
  <2>1. v # u /\ req'[v] = req[v]
    BY <1>1, <1>3 DEF TypeOK, Finish
  <2>2. req[v].rev \in 0 .. MaxRevisions /\ req[v].rev <= Len(revisions)
    BY <1>3, <2>1, RequestFields DEF TypeOK
  <2>3. Len(revisions) \in Nat
    BY DEF TypeOK
  <2> QED
    BY <2>1, <2>2, <2>3
<1> QED
  BY <1>2, <1>3

\* So does a request that is started, when it has the type and no revision yet.
LEMMA StartType ==
    ASSUME TypeOK, NEW u \in Users, NEW r \in Requests, Start(u, r),
           r.op = "review" => r.rev = 0
    PROVE  /\ req' \in [Users -> Requests]
           /\ \A v \in Users : req'[v].op = "review" => req'[v].rev <= Len(revisions')
<1>1. Len(revisions) \in Nat /\ revisions' = revisions
  BY DEF TypeOK, Start
<1>2. req' = [req EXCEPT ![u] = r]
  BY DEF Start
<1> QED
  BY <1>1, <1>2 DEF TypeOK

-----------------------------------------------------------------------------
(* What happens to the revisions.                                          *)

\* A submission becomes the latest revision.
LEMMA AppendRevision ==
    ASSUME TypeOK, NEW e \in Revisions, revisions' = Append(revisions, e)
    PROVE  /\ revisions' \in Seq(Revisions)
           /\ revisions' # <<>>
           /\ Len(revisions') = Len(revisions) + 1
           /\ Latest' = e
<1>1. revisions \in Seq(Revisions)
  BY DEF TypeOK
<1> QED
  BY <1>1, AppendProperties DEF Latest

\* A closed revision is a revision, and only its stamp is new.
LEMMA ClosedType ==
    ASSUME NEW r \in Revisions
    PROVE  /\ Closed(r) \in Revisions
           /\ Closed(r).expired
           /\ Closed(r).deadline = r.deadline
           /\ Closed(r).snapshot = r.snapshot
BY DEF Revisions, Closed

\* Closing the round of the latest revision leaves its deadline and its contents.
LEMMA CloseLatest ==
    ASSUME TypeOK, revisions # <<>>,
           revisions' = [revisions EXCEPT ![Len(revisions)] = Closed(@)]
    PROVE  /\ revisions' \in Seq(Revisions)
           /\ Len(revisions') = Len(revisions)
           /\ revisions' # <<>>
           /\ Latest'.expired
           /\ Latest'.deadline = Latest.deadline
           /\ Latest'.snapshot = Latest.snapshot
           /\ \A i \in 1 .. Len(revisions) :
                revisions'[i] = IF i = Len(revisions) THEN Closed(revisions[i])
                                                      ELSE revisions[i]
<1> DEFINE n == Len(revisions)
<1>1. revisions \in Seq(Revisions) /\ n \in Nat /\ n # 0
  BY EmptySeq DEF TypeOK
<1>2. n \in 1 .. n /\ Latest \in Revisions
  BY <1>1, ElementOfSeq DEF Latest
<1>3. Closed(Latest) \in Revisions
  BY <1>2, ClosedType
<1>4. revisions' = [revisions EXCEPT ![n] = Closed(Latest)]
  BY DEF Latest
<1>5. /\ revisions' \in Seq(Revisions)
      /\ Len(revisions') = n
      /\ revisions'[n] = Closed(Latest)
      /\ \A i \in 1 .. n : revisions'[i] = IF i = n THEN Closed(Latest)
                                                    ELSE revisions[i]
  BY <1>1, <1>2, <1>3, <1>4, ExceptSeq
<1>6. revisions' # <<>>
  BY <1>1, <1>5, EmptySeq
<1>7. Latest' = Closed(Latest)
  BY <1>5 DEF Latest
<1> QED
  BY <1>2, <1>5, <1>6, <1>7, ClosedType DEF Latest

-----------------------------------------------------------------------------
(* The inductive invariant.                                                *)

\* The generator's report satisfies it.
LEMMA InitInv == Init => IInv
<1> SUFFICES ASSUME Init PROVE IInv
  OBVIOUS
<1>1. revisions = <<>> /\ Len(revisions) = 0
  BY DEF Init
<1>2. TypeOK
  <2>1. report \in Reports
    <3>1. "DRAFT" \in Statuses
      BY DEF Statuses
    <3> QED
      BY <3>1 DEF Init, Reports
  <2>2. Idle \in Requests /\ Idle.op # "review"
    BY DEF Requests, Idle
  <2>3. req \in [Users -> Requests] /\ \A u \in Users : req[u].op # "review"
    BY <2>2 DEF Init
  <2>4. now \in Instants
    BY CycleAssumption DEF Init
  <2>5. revisions \in Seq(Revisions) /\ Len(revisions) <= MaxRevisions
    BY <1>1, CycleAssumption, EmptySeq
  <2> QED
    BY <2>1, <2>3, <2>4, <2>5 DEF Init, TypeOK
<1> QED
  BY <1>1, <1>2 DEF Init, IInv, VerdictHasItsReview, DecidedOrOverdue,
                    RoundOfLatest, FrozenWhileSubmitted

\* A step that moves neither the report nor its answers and history.
LEMMA QuietStep ==
    ASSUME IInv, TypeOK', UNCHANGED <<report, answers, revisions, reviews>>
    PROVE  IInv'
BY DEF IInv, VerdictHasItsReview, DecidedOrOverdue, RoundOfLatest,
       FrozenWhileSubmitted, Latest

\* A request that starts, ends or is cut off.
LEMMA RequestStep ==
    ASSUME IInv, NEW u \in Users,
           \/ LoadSave(u) \/ LoadSubmit(u) \/ LoadReview(u) \/ LoadRevision(u)
           \/ \E asOwner \in BOOLEAN : LoadReopen(u, asOwner)
           \/ Abort(u)
    PROVE  IInv'
<1> USE DEF IInv
<1>1. CASE LoadSave(u)
  <2> DEFINE r == [op |-> "save", since |-> now]
  <2>1. Start(u, r) /\ r \in Requests /\ r.op # "review"
    BY <1>1 DEF LoadSave, Requests, TypeOK
  <2> QED
    BY <2>1, StartType, QuietStep DEF Start, TypeOK
<1>2. CASE LoadSubmit(u)
  <2> DEFINE r == [op |-> "submit", since |-> now, scope |-> scope,
                   firstSubmittedAt |-> report.firstSubmittedAt]
  <2>1. r \in Requests /\ r.op # "review"
    BY DEF Requests, TypeOK, Reports
  <2>2. Start(u, r)
    BY <1>2 DEF LoadSubmit
  <2> HIDE DEF r
  <2> QED
    BY <2>1, <2>2, StartType, QuietStep DEF Start, TypeOK
<1>3. CASE LoadReview(u)
  <2> DEFINE r == [op |-> "review", since |-> now, scope |-> scope, rev |-> 0]
  <2>1. r \in Requests /\ r.rev = 0
    BY CycleAssumption DEF Requests, TypeOK
  <2>2. Start(u, r)
    BY <1>3 DEF LoadReview
  <2> HIDE DEF r
  <2> QED
    BY <2>1, <2>2, StartType, QuietStep DEF Start, TypeOK
<1>4. CASE LoadRevision(u)
  <2> DEFINE r == [req[u] EXCEPT !.rev = Len(revisions)]
  <2>1. req' = [req EXCEPT ![u] = r] /\ req[u].op = "review"
    BY <1>4 DEF LoadRevision
  <2>2. Len(revisions) \in 0 .. MaxRevisions
    BY CycleAssumption DEF TypeOK
  <2>3. r \in Requests /\ r.rev = Len(revisions)
    <3>1. req[u] \in [op : {"review"}, since : Instants, scope : ScopeSettings,
                      rev : 0 .. MaxRevisions]
      BY <2>1 DEF TypeOK, Requests, Idle
    <3> QED
      BY <2>2, <3>1 DEF Requests
  <2> HIDE DEF r
  <2>4. TypeOK'
    BY <1>4, <2>1, <2>2, <2>3 DEF TypeOK, LoadRevision
  <2> QED
    BY <1>4, <2>4, QuietStep DEF LoadRevision
<1>5. CASE \E asOwner \in BOOLEAN : LoadReopen(u, asOwner)
  <2>1. PICK expired \in BOOLEAN, until \in WindowEnds \cup {None}, grants \in BOOLEAN :
            Start(u, [op |-> "reopen", since |-> now, scope |-> scope,
                      expiredEdit |-> expired, editableUntil |-> until,
                      grants |-> grants])
    <3>1. report.editableUntil \in WindowEnds \cup {None}
      BY DEF TypeOK, Reports
    <3> QED
      BY <1>5, <3>1 DEF LoadReopen
  <2> DEFINE r == [op |-> "reopen", since |-> now, scope |-> scope,
                   expiredEdit |-> expired, editableUntil |-> until,
                   grants |-> grants]
  <2>2. r \in Requests /\ r.op # "review"
    BY DEF Requests, TypeOK
  <2>3. Start(u, r)
    BY <2>1
  <2> HIDE DEF r
  <2> QED
    BY <2>2, <2>3, StartType, QuietStep DEF Start, TypeOK
<1>6. CASE Abort(u)
  <2>1. Len(revisions') \in Nat /\ Len(revisions') >= Len(revisions)
    BY <1>6 DEF Abort, TypeOK
  <2>2. TypeOK'
    BY <1>6, <2>1, FinishType DEF Abort, TypeOK
  <2> QED
    BY <1>6, <2>2, QuietStep DEF Abort
<1> QED
  BY <1>1, <1>2, <1>3, <1>4, <1>5, <1>6

\* Saving changes the answers of a report that is not submitted.
LEMMA SaveStep ==
    ASSUME IInv, NEW u \in Users, CommitSave(u)
    PROVE  IInv'
<1> USE DEF IInv
<1>1. UNCHANGED <<report, revisions, reviews>> /\ report.status # "SUBMITTED"
  BY DEF CommitSave, Writable
<1>2. TypeOK'
  <2>1. Len(revisions') \in Nat /\ Len(revisions') >= Len(revisions) /\ Finish(u)
    BY <1>1 DEF TypeOK, CommitSave
  <2>2. answers' \in Contents \cup {Blank}
    BY DEF CommitSave
  <2> QED
    BY <1>1, <2>1, <2>2, FinishType DEF TypeOK, CommitSave
<1> QED
  BY <1>1, <1>2 DEF VerdictHasItsReview, DecidedOrOverdue, RoundOfLatest,
                    FrozenWhileSubmitted, Latest

\* What a submission makes of the report, and the revision it appends.
LEMMA SubmitMakes ==
    ASSUME TypeOK, NEW u \in Users, CommitSubmit(u)
    PROVE  \E e \in Revisions :
                /\ revisions' = Append(revisions, e)
                /\ e.submittedAt \in req[u].since .. now
                /\ e.expired = FALSE /\ answers' = e.snapshot
                /\ report' \in Reports
                /\ report'.status = "SUBMITTED" /\ report'.isResponse
                /\ report'.firstSubmittedAt =
                        IF req[u].firstSubmittedAt = None THEN e.submittedAt
                        ELSE req[u].firstSubmittedAt
                /\ report'.deadline = e.deadline /\ report'.expired = FALSE
                /\ report'.decision = None /\ report'.reviewedBy = None
                /\ report'.reviewedRev = None /\ report'.editableUntil = None
<1>1. PICK at \in req[u].since .. now, content \in Contents :
        LET deadline == ReviewDeadlineAt(at, req[u].scope)
            first == req[u].firstSubmittedAt
        IN  /\ report' = Submitted(at, first, deadline)
            /\ answers' = content
            /\ revisions' = Append(revisions,
                    [submittedAt |-> at, isFirst |-> first = None,
                     deadline |-> deadline, expired |-> FALSE,
                     snapshot |-> content])
  BY DEF CommitSubmit
<1> DEFINE deadline == ReviewDeadlineAt(at, req[u].scope)
           first == req[u].firstSubmittedAt
           e == [submittedAt |-> at, isFirst |-> first = None,
                 deadline |-> deadline, expired |-> FALSE, snapshot |-> content]
<1>2. at \in Instants /\ first \in Instants \cup {None} /\ deadline \in Deadlines
  <2>1. req[u] \in Requests /\ req[u].op = "submit" /\ now \in Instants
    BY DEF CommitSubmit, TypeOK
  <2>2. /\ req[u].since \in Instants /\ req[u].scope \in ScopeSettings
        /\ first \in Instants \cup {None}
    BY <2>1, RequestFields
  <2>3. at \in Instants
    BY <1>1, <2>1, <2>2, CycleAssumption DEF Instants
  <2> QED
    BY <2>2, <2>3 DEF Deadlines
<1>3. /\ e \in Revisions /\ e.submittedAt = at /\ e.deadline = deadline
      /\ e.expired = FALSE /\ e.snapshot = content
  BY <1>2 DEF Revisions
<1>4. report' = Submitted(at, first, deadline) /\ answers' = content
  BY <1>1
<1>5. revisions' = Append(revisions, e)
  BY <1>1
<1> HIDE DEF deadline, e
<1>6. /\ report' \in Reports
      /\ report'.status = "SUBMITTED" /\ report'.isResponse
      /\ report'.firstSubmittedAt = IF first = None THEN at ELSE first
      /\ report'.deadline = deadline /\ report'.expired = FALSE
      /\ report'.decision = None /\ report'.reviewedBy = None
      /\ report'.reviewedRev = None /\ report'.editableUntil = None
  <2> HIDE DEF first
  <2> QED
    BY <1>2, <1>4, CycleAssumption DEF Submitted, Reports, Statuses
<1> QED
  BY <1>1, <1>3, <1>4, <1>5, <1>6

\* A submission appends the revision whose round the report then carries.
LEMMA SubmitStep ==
    ASSUME IInv, NEW u \in Users, CommitSubmit(u)
    PROVE  IInv'
<1> USE DEF IInv
<1>1. PICK e \in Revisions :
        /\ revisions' = Append(revisions, e)
        /\ e.expired = FALSE /\ answers' = e.snapshot
        /\ report' \in Reports /\ report'.isResponse
        /\ report'.deadline = e.deadline /\ report'.expired = FALSE
        /\ report'.decision = None /\ report'.reviewedBy = None
        /\ report'.reviewedRev = None /\ report'.editableUntil = None
  BY SubmitMakes
<1>2. /\ revisions' \in Seq(Revisions) /\ revisions' # <<>>
      /\ Len(revisions') = Len(revisions) + 1 /\ Latest' = e
  BY <1>1, AppendRevision
<1>3. Len(revisions) \in Nat /\ UNCHANGED reviews
  BY DEF TypeOK, CommitSubmit
<1>4. TypeOK'
  <2>1. Len(revisions') \in Nat /\ Len(revisions') >= Len(revisions) /\ Finish(u)
    BY <1>2, <1>3 DEF CommitSubmit
  <2>2. Len(revisions') <= MaxRevisions
    BY <1>2, <1>3, CycleAssumption DEF CommitSubmit
  <2>3. answers' \in Contents \cup {Blank}
    BY <1>1 DEF Revisions
  <2> QED
    BY <1>1, <1>2, <2>1, <2>2, <2>3, FinishType DEF TypeOK, CommitSubmit
<1>5. VerdictHasItsReview'
  <2>1. \A r \in reviews : r.rev \in 1 .. Len(revisions') /\ r.rev # Len(revisions')
    BY <1>2, <1>3 DEF VerdictHasItsReview
  <2> QED
    BY <1>1, <1>3, <2>1 DEF VerdictHasItsReview
<1>6. DecidedOrOverdue'
  BY <1>1 DEF DecidedOrOverdue
<1>7. RoundOfLatest'
  BY <1>1, <1>2 DEF RoundOfLatest
<1>8. FrozenWhileSubmitted'
  <2>1. report'.decision # "REJECTED"
    BY <1>1, CycleAssumption DEF Decisions
  <2> QED
    BY <1>1, <1>2, <2>1 DEF FrozenWhileSubmitted
<1> QED
  BY <1>4, <1>5, <1>6, <1>7, <1>8

\* What a verdict makes of the report.
LEMMA DecidedFields ==
    ASSUME TypeOK, NEW u \in Users, NEW decision \in Decisions,
           NEW until \in WindowEnds, req[u].rev \in 1 .. MaxRevisions
    PROVE  LET r == Decided(u, decision, until)
           IN  /\ r \in Reports
               /\ r.status = IF decision = "REJECTED" THEN "REOPENED"
                                                     ELSE report.status
               /\ r.firstSubmittedAt = report.firstSubmittedAt
               /\ r.decision = decision /\ r.reviewedBy = u
               /\ r.reviewedRev = req[u].rev
               /\ r.deadline = report.deadline /\ r.expired = report.expired
               /\ r.status = "SUBMITTED" =>
                    /\ decision # "REJECTED"
                    /\ report.status = "SUBMITTED"
                    /\ r.isResponse = report.isResponse
                    /\ r.editableUntil = report.editableUntil
<1>1. report \in Reports
  BY DEF TypeOK
<1> QED
  BY <1>1 DEF Decided, Reports, Statuses

\* A review that commits is of a revision there is.
LEMMA ReviewReads ==
    ASSUME TypeOK, NEW u \in Users, NEW decision \in Decisions,
           CommitReview(u, decision)
    PROVE  /\ req[u].rev \in 1 .. Len(revisions)
           /\ req[u].rev \in 1 .. MaxRevisions
           /\ EditWindowEnd(req[u].since, req[u].scope) \in WindowEnds
<1>1. req[u].op = "review" /\ req[u].rev # 0
  BY DEF CommitReview, RevisionFound
<1>2. /\ req[u].rev \in 0 .. MaxRevisions /\ req[u].rev <= Len(revisions)
      /\ req[u].since \in Instants /\ req[u].scope \in ScopeSettings
  BY <1>1, RequestFields DEF TypeOK
<1>3. Len(revisions) \in Nat
  BY DEF TypeOK
<1>4. EditWindowEnd(req[u].since, req[u].scope) \in WindowEnds
  BY <1>2 DEF WindowEnds
<1> QED
  BY <1>1, <1>2, <1>3, <1>4, CycleAssumption

\* A verdict closes the round of the revision the review read.
LEMMA ReviewStep ==
    ASSUME IInv, NEW u \in Users, NEW decision \in Decisions,
           CommitReview(u, decision)
    PROVE  IInv'
<1> USE DEF IInv
<1> DEFINE until == EditWindowEnd(req[u].since, req[u].scope)
           review == [rev |-> req[u].rev, by |-> u, decision |-> decision]
<1>1. req[u].rev \in 1 .. Len(revisions) /\ req[u].rev \in 1 .. MaxRevisions
  BY ReviewReads
<1>2. until \in WindowEnds
  BY ReviewReads
<1>3. report' = Decided(u, decision, until) /\ reviews' = reviews \cup {review}
  BY DEF CommitReview
<1>4. /\ report.status = "SUBMITTED" /\ report.decision = None
      /\ report.expired = FALSE
      /\ \A r \in reviews : r.rev # req[u].rev
  BY DEF CommitReview, AwaitsVerdict, RevisionFree, TypeOK, Reports
<1>5. UNCHANGED <<answers, revisions, scope, now, sweep>> /\ Finish(u)
  BY DEF CommitReview
<1>6. /\ review \in Reviews /\ review.rev = req[u].rev
      /\ review = [rev |-> req[u].rev, by |-> u, decision |-> decision]
  BY <1>1 DEF Reviews
<1> HIDE DEF until, review
<1>7. /\ report' \in Reports
      /\ report'.decision = decision /\ report'.reviewedBy = u
      /\ report'.reviewedRev = req[u].rev
      /\ report'.deadline = report.deadline /\ report'.expired = report.expired
      /\ report'.status = "SUBMITTED" =>
            /\ decision # "REJECTED"
            /\ report'.isResponse = report.isResponse
            /\ report'.editableUntil = report.editableUntil
  BY <1>1, <1>2, <1>3, DecidedFields
<1>8. decision # None /\ u # None /\ req[u].rev # None
  BY <1>1, CycleAssumption
<1>9. TypeOK'
  <2>1. Len(revisions') \in Nat /\ Len(revisions') >= Len(revisions)
    BY <1>5 DEF TypeOK
  <2> QED
    BY <1>3, <1>5, <1>6, <1>7, <2>1, FinishType DEF TypeOK
<1>10. VerdictHasItsReview'
  <2>1. \A r \in reviews' : r.rev \in 1 .. Len(revisions')
    BY <1>1, <1>3, <1>5, <1>6 DEF VerdictHasItsReview
  <2>2. \A r, q \in reviews' : r.rev = q.rev => r = q
    BY <1>3, <1>4, <1>6 DEF VerdictHasItsReview
  <2>3. review \in reviews'
    BY <1>3
  <2> QED
    BY <1>6, <1>7, <1>8, <2>1, <2>2, <2>3 DEF VerdictHasItsReview
<1>11. DecidedOrOverdue'
  BY <1>4, <1>7 DEF DecidedOrOverdue
<1>12. RoundOfLatest' /\ FrozenWhileSubmitted'
  <2>1. revisions # <<>>
    BY <1>4 DEF FrozenWhileSubmitted
  <2>2. Latest' = Latest
    BY <1>5 DEF Latest
  <2>3. RoundOfLatest'
    BY <1>5, <1>7, <2>1, <2>2 DEF RoundOfLatest
  <2>4. FrozenWhileSubmitted'
    BY <1>4, <1>5, <1>7, <2>2 DEF FrozenWhileSubmitted
  <2> QED
    BY <2>3, <2>4
<1> QED
  BY <1>9, <1>10, <1>11, <1>12

\* What reopening and archiving make of the report: the round is not touched.
LEMMA SameRound ==
    ASSUME TypeOK
    PROVE  /\ \A until \in WindowEnds \cup {None} :
                LET r == Reopened(until)
                IN  /\ r \in Reports /\ r.status = "REOPENED"
                    /\ r.firstSubmittedAt = report.firstSubmittedAt
                    /\ r.editableUntil = until
                    /\ r.decision = report.decision
                    /\ r.reviewedBy = report.reviewedBy
                    /\ r.reviewedRev = report.reviewedRev
                    /\ r.deadline = report.deadline /\ r.expired = report.expired
           /\ LET r == [report EXCEPT !.status = "ARCHIVED"]
              IN  /\ r \in Reports /\ r.status = "ARCHIVED"
                  /\ r.firstSubmittedAt = report.firstSubmittedAt
                  /\ r.decision = report.decision
                  /\ r.reviewedBy = report.reviewedBy
                  /\ r.reviewedRev = report.reviewedRev
                  /\ r.deadline = report.deadline /\ r.expired = report.expired
<1>1. report \in Reports
  BY DEF TypeOK
<1>2. ASSUME NEW until \in WindowEnds \cup {None}
      PROVE  LET r == Reopened(until)
             IN  /\ r \in Reports /\ r.status = "REOPENED"
                 /\ r.firstSubmittedAt = report.firstSubmittedAt
                 /\ r.editableUntil = until
                 /\ r.decision = report.decision
                 /\ r.reviewedBy = report.reviewedBy
                 /\ r.reviewedRev = report.reviewedRev
                 /\ r.deadline = report.deadline /\ r.expired = report.expired
  BY <1>1, <1>2 DEF Reopened, Reports, Statuses
<1>3. LET r == [report EXCEPT !.status = "ARCHIVED"]
      IN  /\ r \in Reports /\ r.status = "ARCHIVED"
          /\ r.firstSubmittedAt = report.firstSubmittedAt
          /\ r.decision = report.decision
          /\ r.reviewedBy = report.reviewedBy
          /\ r.reviewedRev = report.reviewedRev
          /\ r.deadline = report.deadline /\ r.expired = report.expired
  BY <1>1 DEF Reports, Statuses
<1> QED
  BY <1>2, <1>3

\* A step that takes the report out of review and keeps its round.
LEMMA OutOfReview ==
    ASSUME IInv, TypeOK', UNCHANGED <<answers, revisions, reviews>>,
           report'.status # "SUBMITTED",
           report'.decision = report.decision,
           report'.reviewedBy = report.reviewedBy,
           report'.reviewedRev = report.reviewedRev,
           report'.deadline = report.deadline, report'.expired = report.expired
    PROVE  IInv'
BY DEF IInv, VerdictHasItsReview, DecidedOrOverdue, RoundOfLatest,
       FrozenWhileSubmitted, Latest

\* Reopening grants an edit window or none.
LEMMA ReopenGrants ==
    ASSUME TypeOK, NEW u \in Users, CommitReopen(u)
    PROVE  \E until \in WindowEnds \cup {None} : report' = Reopened(until)
<1>1. PICK at \in req[u].since .. now :
        report' = Reopened(IF req[u].grants
                           THEN EditWindowEnd(at, req[u].scope) ELSE None)
  BY DEF CommitReopen
<1>2. req[u] \in Requests /\ req[u].op = "reopen" /\ now \in Instants
  BY DEF CommitReopen, TypeOK
<1>3. req[u].since \in Instants /\ req[u].scope \in ScopeSettings
  BY <1>2, RequestFields
<1>4. at \in Instants
  BY <1>1, <1>2, <1>3, CycleAssumption DEF Instants
<1>5. EditWindowEnd(at, req[u].scope) \in WindowEnds
  BY <1>3, <1>4 DEF WindowEnds
<1> QED
  BY <1>1, <1>5

\* Reopening.
LEMMA ReopenStep ==
    ASSUME IInv, NEW u \in Users, CommitReopen(u)
    PROVE  IInv'
<1> USE DEF IInv
<1>1. PICK until \in WindowEnds \cup {None} : report' = Reopened(until)
  BY ReopenGrants
<1>2. /\ report' \in Reports /\ report'.status = "REOPENED"
      /\ report'.decision = report.decision
      /\ report'.reviewedBy = report.reviewedBy
      /\ report'.reviewedRev = report.reviewedRev
      /\ report'.deadline = report.deadline /\ report'.expired = report.expired
  BY <1>1, SameRound
<1>3. TypeOK'
  <2>1. Len(revisions') \in Nat /\ Len(revisions') >= Len(revisions) /\ Finish(u)
    BY DEF TypeOK, CommitReopen
  <2> QED
    BY <1>2, <2>1, FinishType DEF TypeOK, CommitReopen
<1> QED
  BY <1>2, <1>3, OutOfReview DEF CommitReopen

\* Archiving the scope.
LEMMA ArchiveStep == IInv /\ ArchiveScope => IInv'
<1> SUFFICES ASSUME IInv, ArchiveScope PROVE IInv'
  OBVIOUS
<1> USE DEF IInv
<1>1. /\ report' \in Reports /\ report'.status = "ARCHIVED"
      /\ report'.decision = report.decision
      /\ report'.reviewedBy = report.reviewedBy
      /\ report'.reviewedRev = report.reviewedRev
      /\ report'.deadline = report.deadline /\ report'.expired = report.expired
  BY SameRound DEF ArchiveScope
<1>2. TypeOK'
  BY <1>1 DEF ArchiveScope, TypeOK
<1> QED
  BY <1>1, <1>2, OutOfReview DEF ArchiveScope

\* New settings, the cron job's list and the clock move neither the report nor
\* its history.
LEMMA EnvironmentStep ==
    ASSUME IInv,
           \/ \E settings \in ScopeSettings : UpdateScope(settings)
           \/ SweepFind \/ Tick
    PROVE  IInv'
<1> USE DEF IInv
<1>1. CASE \E settings \in ScopeSettings : UpdateScope(settings)
  <2>1. TypeOK'
    BY <1>1 DEF UpdateScope, TypeOK
  <2> QED
    BY <1>1, <2>1, QuietStep DEF UpdateScope
<1>2. CASE SweepFind
  <2>1. TypeOK'
    BY <1>2 DEF SweepFind, TypeOK
  <2> QED
    BY <1>2, <2>1, QuietStep DEF SweepFind
<1>3. CASE Tick
  <2>1. Idle \in Requests /\ Idle.op # "review"
    BY DEF Requests, Idle
  <2>2. now' \in Instants
    BY <1>3, CycleAssumption DEF Tick, TypeOK, Instants
  <2>3. req' \in [Users -> Requests]
    BY <1>3, <2>1 DEF Tick, TypeOK
  <2>4. \A u \in Users : req'[u] = Idle \/ req'[u] = req[u]
    BY <1>3 DEF Tick
  <2>5. TypeOK'
    BY <1>3, <2>1, <2>2, <2>3, <2>4 DEF Tick, TypeOK
  <2> QED
    BY <1>3, <2>5, QuietStep DEF Tick
<1> QED
  BY <1>1, <1>2, <1>3

\* The cron job closes the round in the report and in its latest revision.
LEMMA SweepStep == IInv /\ SweepMark => IInv'
<1> SUFFICES ASSUME IInv, SweepMark PROVE IInv'
  OBVIOUS
<1> USE DEF IInv
<1>1. CASE ~ AwaitsVerdict
  <2>1. UNCHANGED <<report, answers, revisions, reviews, scope, now, req>>
    BY <1>1 DEF SweepMark
  <2>2. TypeOK'
    BY <2>1 DEF SweepMark, TypeOK
  <2> QED
    BY <2>1, <2>2, QuietStep
<1>2. CASE AwaitsVerdict
  <2>1. /\ report' = [report EXCEPT !.expired = TRUE]
        /\ revisions' = [revisions EXCEPT ![Len(revisions)] = Closed(@)]
        /\ UNCHANGED <<answers, reviews, scope, now, req>>
        /\ sweep' = FALSE
    BY <1>2 DEF SweepMark
  <2>2. report.status = "SUBMITTED" /\ report.decision = None
    BY <1>2 DEF AwaitsVerdict
  <2>3. revisions # <<>>
    BY <2>2 DEF FrozenWhileSubmitted
  <2>4. /\ revisions' \in Seq(Revisions) /\ Len(revisions') = Len(revisions)
        /\ revisions' # <<>> /\ Latest'.expired
        /\ Latest'.deadline = Latest.deadline
        /\ Latest'.snapshot = Latest.snapshot
    BY <2>1, <2>3, CloseLatest
  <2>5. /\ report' \in Reports /\ report'.expired = TRUE
        /\ report'.status = report.status /\ report'.isResponse = report.isResponse
        /\ report'.decision = report.decision
        /\ report'.reviewedBy = report.reviewedBy
        /\ report'.reviewedRev = report.reviewedRev
        /\ report'.deadline = report.deadline
        /\ report'.editableUntil = report.editableUntil
    BY <2>1 DEF TypeOK, Reports
  <2>6. TypeOK'
    BY <2>1, <2>4, <2>5 DEF TypeOK
  <2>7. VerdictHasItsReview'
    BY <2>1, <2>4, <2>5 DEF VerdictHasItsReview
  <2>8. DecidedOrOverdue'
    BY <2>2, <2>5 DEF DecidedOrOverdue
  <2>9. RoundOfLatest'
    <3>1. Latest'.expired = TRUE
      <4>1. 1 .. Len(revisions') # {} /\ Len(revisions') \in 1 .. Len(revisions')
        BY <2>4, EmptySeq
      <4>2. Latest' \in Revisions
        BY <2>4, <4>1, ElementOfSeq DEF Latest
      <4> QED
        BY <2>4, <4>2 DEF Revisions
    <3> QED
      BY <2>3, <2>4, <2>5, <3>1 DEF RoundOfLatest
  <2>10. FrozenWhileSubmitted'
    BY <2>1, <2>4, <2>5 DEF FrozenWhileSubmitted
  <2> QED
    BY <2>6, <2>7, <2>8, <2>9, <2>10
<1> QED
  BY <1>1, <1>2

\* Every step keeps it.
LEMMA StepInv == IInv /\ [Next]_vars => IInv'
<1> SUFFICES ASSUME IInv, [Next]_vars PROVE IInv'
  OBVIOUS
<1>1. CASE \E u \in Users : UserStep(u)
  <2>1. PICK u \in Users : UserStep(u)
    BY <1>1
  <2> QED
    BY <2>1, RequestStep, SaveStep, SubmitStep, ReviewStep, ReopenStep DEF UserStep
<1>2. CASE \/ \E settings \in ScopeSettings : UpdateScope(settings)
           \/ SweepFind \/ Tick
  BY <1>2, EnvironmentStep
<1>3. CASE ArchiveScope
  BY <1>3, ArchiveStep
<1>4. CASE SweepMark
  BY <1>4, SweepStep
<1>5. CASE UNCHANGED vars
  <2>1. TypeOK'
    BY <1>5 DEF vars, IInv, TypeOK
  <2> QED
    BY <1>5, <2>1, QuietStep DEF vars, IInv
<1> QED
  BY <1>1, <1>2, <1>3, <1>4, <1>5 DEF Next

-----------------------------------------------------------------------------
(* What every reachable state satisfies.                                   *)

\* The inductive invariant holds in every state.
THEOREM Safety == Spec => []IInv
BY InitInv, StepInv, PTL DEF Spec

\* Every variable keeps its type, and a review in flight names a revision that
\* exists or none.
THEOREM TypeCorrect == Spec => []TypeOK
<1>1. IInv => TypeOK
  BY DEF IInv
<1> QED
  BY <1>1, Safety, PTL

\* The verdict on a report is one row of daily_report_reviews, and a submission
\* has one review at most, however reviewers, submissions and the cron job
\* interleave.
THEOREM VerdictCorrect == Spec => []VerdictHasItsReview
<1>1. IInv => VerdictHasItsReview
  BY DEF IInv
<1> QED
  BY <1>1, Safety, PTL

\* No report is both decided and overdue.
THEOREM RoundClosedOnce == Spec => []DecidedOrOverdue
<1>1. IInv => DecidedOrOverdue
  BY DEF IInv
<1> QED
  BY <1>1, Safety, PTL

\* The report's round is that of its latest submission.
THEOREM RoundCorrect == Spec => []RoundOfLatest
<1>1. IInv => RoundOfLatest
  BY DEF IInv
<1> QED
  BY <1>1, Safety, PTL

\* What a reviewer reads is what was submitted.
THEOREM FrozenCorrect == Spec => []FrozenWhileSubmitted
<1>1. IInv => FrozenWhileSubmitted
  BY DEF IInv
<1> QED
  BY <1>1, Safety, PTL

-----------------------------------------------------------------------------
(* The kinds of steps, as the report's rounds see them.                    *)

\* A new round is opened.
Opens ==
    /\ report.status \in {"DRAFT", "REOPENED"}
    /\ \E e \in Revisions : e.expired = FALSE /\ revisions' = Append(revisions, e)
    /\ reviews' = reviews
    /\ report'.status = "SUBMITTED"
    /\ report'.decision = None /\ report'.expired = FALSE

\* A round, not always the latest, gets its verdict.
Decides ==
    \E u \in Users, d \in Decisions, k \in 1 .. Len(revisions) :
        /\ AwaitsVerdict
        /\ \A r \in reviews : r.rev # k
        /\ reviews' = reviews \cup {[rev |-> k, by |-> u, decision |-> d]}
        /\ revisions' = revisions
        /\ report'.status = IF d = "REJECTED" THEN "REOPENED" ELSE "SUBMITTED"
        /\ report'.decision = d /\ report'.expired = FALSE

\* The latest round ends without one.
Lapses ==
    /\ AwaitsVerdict
    /\ revisions # <<>>
    /\ revisions' = [revisions EXCEPT ![Len(revisions)] = Closed(@)]
    /\ reviews' = reviews
    /\ report'.status = "SUBMITTED"
    /\ report'.decision = None /\ report'.expired = TRUE

\* The report is reopened or archived, its rounds stay.
Turns ==
    /\ \/ report.status \in {"SUBMITTED", "REOPENED"} /\ report'.status = "REOPENED"
       \/ report.status # "ARCHIVED" /\ report'.status = "ARCHIVED"
    /\ UNCHANGED <<revisions, reviews>>
    /\ report'.decision = report.decision /\ report'.expired = report.expired

Rests == UNCHANGED <<report, revisions, reviews>>

\* Every step is of one of these kinds.
LEMMA StepKinds ==
    ASSUME IInv, [Next]_vars
    PROVE  Opens \/ Decides \/ Lapses \/ Turns \/ Rests
<1> USE DEF IInv
<1>1. CASE \E u \in Users : CommitSubmit(u)
  <2>1. PICK u \in Users : CommitSubmit(u)
    BY <1>1
  <2>2. \E e \in Revisions :
            /\ revisions' = Append(revisions, e) /\ e.expired = FALSE
            /\ report'.status = "SUBMITTED"
            /\ report'.decision = None /\ report'.expired = FALSE
    BY <2>1, SubmitMakes
  <2>3. report.status \in {"DRAFT", "REOPENED"} /\ reviews' = reviews
    BY <2>1 DEF CommitSubmit, Writable
  <2> QED
    BY <2>2, <2>3 DEF Opens
<1>2. CASE \E u \in Users, decision \in Decisions : CommitReview(u, decision)
  <2>1. PICK u \in Users, decision \in Decisions : CommitReview(u, decision)
    BY <1>2
  <2>2. /\ AwaitsVerdict /\ \A r \in reviews : r.rev # req[u].rev
        /\ report' = Decided(u, decision, EditWindowEnd(req[u].since, req[u].scope))
        /\ reviews' = reviews \cup
                {[rev |-> req[u].rev, by |-> u, decision |-> decision]}
        /\ revisions' = revisions
    BY <2>1 DEF CommitReview, RevisionFree
  <2>3. req[u].rev \in 1 .. Len(revisions) /\ req[u].rev \in 1 .. MaxRevisions
    BY <2>1, ReviewReads
  <2>4. EditWindowEnd(req[u].since, req[u].scope) \in WindowEnds
    BY <2>1, ReviewReads
  <2>5. /\ report'.status = IF decision = "REJECTED" THEN "REOPENED" ELSE report.status
        /\ report'.decision = decision /\ report'.expired = report.expired
    BY <2>2, <2>3, <2>4, DecidedFields
  <2>6. report.status = "SUBMITTED" /\ report.expired = FALSE
    BY <2>2 DEF AwaitsVerdict, TypeOK, Reports
  <2> QED
    BY <2>2, <2>3, <2>5, <2>6 DEF Decides
<1>3. CASE \E u \in Users : CommitReopen(u)
  <2>1. PICK u \in Users : CommitReopen(u)
    BY <1>3
  <2>2. PICK until \in WindowEnds \cup {None} : report' = Reopened(until)
    BY <2>1, ReopenGrants
  <2>3. /\ report.status \in {"SUBMITTED", "REOPENED"}
        /\ UNCHANGED <<revisions, reviews>>
    BY <2>1 DEF CommitReopen, ReopenClaim
  <2> QED
    BY <2>2, <2>3, SameRound DEF Turns
<1>4. CASE ArchiveScope
  BY <1>4, SameRound DEF ArchiveScope, Turns
<1>5. CASE SweepMark /\ AwaitsVerdict
  <2>1. revisions # <<>> /\ report \in Reports
    BY <1>5 DEF AwaitsVerdict, FrozenWhileSubmitted, TypeOK
  <2>2. /\ report' = [report EXCEPT !.expired = TRUE]
        /\ revisions' = [revisions EXCEPT ![Len(revisions)] = Closed(@)]
        /\ reviews' = reviews
    BY <1>5 DEF SweepMark
  <2>3. /\ report'.status = report.status /\ report'.decision = report.decision
        /\ report'.expired = TRUE
    BY <2>1, <2>2 DEF Reports
  <2>4. report.status = "SUBMITTED" /\ report.decision = None
    BY <1>5 DEF AwaitsVerdict
  <2> QED
    BY <1>5, <2>1, <2>2, <2>3, <2>4 DEF Lapses
<1>6. ASSUME NEW u \in Users, UserStep(u), ~ CommitSubmit(u), ~ CommitReopen(u),
             ~ \E decision \in Decisions : CommitReview(u, decision)
      PROVE  Rests
  BY <1>6 DEF UserStep, LoadSave, CommitSave, LoadSubmit, LoadReview,
        LoadRevision, LoadReopen, Abort, Start, Rests
<1>7. ASSUME \/ \E settings \in ScopeSettings : UpdateScope(settings)
             \/ SweepFind
             \/ SweepMark /\ ~ AwaitsVerdict
             \/ Tick
             \/ UNCHANGED vars
      PROVE  Rests
  BY <1>7 DEF UpdateScope, SweepFind, SweepMark, Tick, vars, Rests
<1>8. CASE \E u \in Users : UserStep(u)
  <2>1. PICK u \in Users : UserStep(u)
    BY <1>8
  <2> QED
    BY <1>1, <1>2, <1>3, <1>6, <2>1
<1> QED
  BY <1>4, <1>5, <1>7, <1>8 DEF Next

-----------------------------------------------------------------------------
(* What no step does.                                                      *)

\* A step that is no submission keeps a verdict that is there.
LEMMA VerdictStep ==
    ASSUME IInv, [Next]_vars, report.decision # None
    PROVE  \/ /\ report'.decision = report.decision
              /\ report'.reviewedBy = report.reviewedBy
              /\ report'.reviewedRev = report.reviewedRev
           \/ Len(revisions') = Len(revisions) + 1
<1> USE DEF IInv
<1>1. report \in Reports /\ revisions \in Seq(Revisions)
  BY DEF TypeOK
<1>2. ~ AwaitsVerdict
  BY DEF AwaitsVerdict
<1>3. CASE UNCHANGED report
  BY <1>3
<1>4. CASE \E u \in Users : CommitSubmit(u)
  <2>1. PICK e : revisions' = Append(revisions, e)
    BY <1>4 DEF CommitSubmit
  <2> QED
    BY <1>1, <2>1
<1>5. CASE \E u \in Users : CommitReopen(u)
  <2>1. PICK until : report' = Reopened(until)
    BY <1>5 DEF CommitReopen
  <2> QED
    BY <1>1, <2>1 DEF Reopened, Reports
<1>6. CASE ArchiveScope
  BY <1>1, <1>6 DEF ArchiveScope, Reports
<1>7. ASSUME NEW u \in Users, UserStep(u), ~ CommitSubmit(u), ~ CommitReopen(u)
      PROVE  UNCHANGED report
  BY <1>2, <1>7 DEF UserStep, LoadSave, CommitSave, LoadSubmit, LoadReview,
        LoadRevision, CommitReview, LoadReopen, Abort, Start
<1>8. ASSUME \/ \E settings \in ScopeSettings : UpdateScope(settings)
             \/ SweepFind \/ SweepMark \/ Tick \/ UNCHANGED vars
      PROVE  UNCHANGED report
  BY <1>2, <1>8 DEF UpdateScope, SweepFind, SweepMark, Tick, vars
<1> QED
  BY <1>3, <1>4, <1>5, <1>6, <1>7, <1>8 DEF Next

\* A verdict stands until a new submission, reopened or not.
THEOREM VerdictsStand == Spec => VerdictStands
<1>1. IInv /\ [Next]_vars =>
        [report.decision # None =>
            \/ /\ report'.decision = report.decision
               /\ report'.reviewedBy = report.reviewedBy
               /\ report'.reviewedRev = report.reviewedRev
            \/ Len(revisions') = Len(revisions) + 1]_vars
  BY VerdictStep
<1> QED
  BY <1>1, Safety, PTL DEF Spec, VerdictStands

\* Two states of one revision, of which the second is not earlier.
SameSubmission(old, new) ==
    /\ [new EXCEPT !.expired = FALSE] = [old EXCEPT !.expired = FALSE]
    /\ old.expired => new.expired

\* A revision that does not change, or whose round is closed.
LEMMA SameSubmissionHolds ==
    /\ \A r : SameSubmission(r, r)
    /\ \A r \in Revisions : SameSubmission(r, Closed(r))
<1>1. \A r : SameSubmission(r, r)
  BY Zenon DEF SameSubmission
<1>2. ASSUME NEW r \in Revisions PROVE SameSubmission(r, Closed(r))
  BY DEF SameSubmission, Revisions, Closed
<1> QED
  BY <1>1, <1>2

\* What a step leaves of the history.
LEMMA HistoryStep ==
    ASSUME IInv, [Next]_vars
    PROVE  /\ reviews \subseteq reviews'
           /\ Len(revisions') >= Len(revisions)
           /\ \A i \in 1 .. Len(revisions) :
                    SameSubmission(revisions[i], revisions'[i])
<1>1. TypeOK /\ revisions \in Seq(Revisions) /\ Len(revisions) \in Nat
  BY DEF IInv, TypeOK
<1>2. CASE Opens
  <2>1. PICK e \in Revisions : revisions' = Append(revisions, e)
    BY <1>2 DEF Opens
  <2>2. /\ Len(revisions') = Len(revisions) + 1
        /\ \A i \in 1 .. Len(revisions) : revisions'[i] = revisions[i]
    BY <1>1, <2>1, AppendProperties
  <2> QED
    BY <1>1, <1>2, <2>2, SameSubmissionHolds DEF Opens
<1>3. CASE Lapses
  <2>1. /\ Len(revisions') = Len(revisions)
        /\ \A i \in 1 .. Len(revisions) :
                revisions'[i] = IF i = Len(revisions) THEN Closed(revisions[i])
                                                      ELSE revisions[i]
    BY <1>1, <1>3, CloseLatest DEF Lapses
  <2>2. \A i \in 1 .. Len(revisions) : revisions[i] \in Revisions
    BY <1>1, ElementOfSeq
  <2> QED
    <3>1. \A i \in 1 .. Len(revisions) :
                SameSubmission(revisions[i], revisions'[i])
      BY <2>1, <2>2, SameSubmissionHolds
    <3>2. reviews' = reviews
      BY <1>3 DEF Lapses
    <3> QED
      BY <1>1, <2>1, <3>1, <3>2
<1>4. CASE Decides \/ Turns \/ Rests
  <2>1. revisions' = revisions /\ reviews \subseteq reviews'
    BY <1>4 DEF Decides, Turns, Rests
  <2> QED
    BY <1>1, <2>1, SameSubmissionHolds
<1> QED
  BY <1>2, <1>3, <1>4, StepKinds

\* History is only added to: no submission, no deadline that was given and no
\* review is taken back, and a closed round stays closed.
THEOREM HistoryIsKept == Spec => HistoryStands
<1>1. IInv /\ [Next]_vars =>
        [/\ reviews \subseteq reviews'
         /\ Len(revisions') >= Len(revisions)
         /\ \A i \in 1 .. Len(revisions) :
              /\ [revisions'[i] EXCEPT !.expired = FALSE]
                      = [revisions[i] EXCEPT !.expired = FALSE]
              /\ revisions[i].expired => revisions'[i].expired]_vars
  <2> SUFFICES ASSUME IInv, [Next]_vars
               PROVE  /\ reviews \subseteq reviews'
                      /\ Len(revisions') >= Len(revisions)
                      /\ \A i \in 1 .. Len(revisions) :
                            SameSubmission(revisions[i], revisions'[i])
    BY Zenon DEF SameSubmission
  <2> QED
    BY HistoryStep
<1> QED
  BY <1>1, Safety, PTL DEF Spec, HistoryStands

-----------------------------------------------------------------------------
(* The clock and the requests in flight.                                   *)

HardStop == MinuteOfDayInstant(ReportDay, Cutoff)

\* No request in flight at t is older than its timeout allows. A submission
\* that read no earlier one was let in before the hard stop, another one carries
\* a first submission that was in time. A reopening that extends an edit window
\* has seen it end, or there was none.
InTime(r, t) ==
    /\ r # Idle => r.since <= t /\ t <= r.since + RequestLife
    /\ r.op = "submit" =>
            IF r.firstSubmittedAt = None THEN r.since < HardStop
            ELSE r.firstSubmittedAt < HardStop + RequestLife
    /\ r.op = "reopen" =>
            (r.expiredEdit => \/ r.editableUntil = None
                              \/ r.editableUntil < r.since)

RequestsInTime == \A u \in Users : InTime(req[u], now)

\* A report that was sent has its first submission on record.
SentIsRecorded ==
    report.status \in {"SUBMITTED", "REOPENED"} => report.firstSubmittedAt # None

TimeInv == RequestsInTime /\ SentIsRecorded /\ FirstSubmissionInTime

\* The instants are numbers, the ends of edit windows too.
LEMMA TimesAreNumbers ==
    /\ Instants \subseteq Nat /\ HardStop \in Nat /\ RequestLife \in Nat
    /\ WindowEnds \subseteq Nat
<1>1. Instants \subseteq Nat /\ RequestLife \in Nat
  BY CycleAssumption DEF Instants
<1>2. HardStop \in Nat
  <2>1. ReportDay \in Nat /\ Cutoff \in 0 .. DayLen - 1
    BY CycleAssumption, CalendarAssumption
  <2> QED
    BY <2>1, DayOfInstant DEF HardStop
<1>3. WindowEnds \subseteq Nat
  <2> SUFFICES ASSUME NEW t \in Instants, NEW s \in ScopeSettings
               PROVE  EditWindowEnd(t, s) \in Nat
    BY DEF WindowEnds
  <2>1. t \in Nat /\ s.weekdays \in SUBSET (1 .. 7) /\ s.weekdays # {}
    BY <1>1, CycleAssumption
  <2> QED
    BY <2>1, EditWindowOpens
<1> QED
  BY <1>1, <1>2, <1>3

\* Nothing is expected of a user without a request.
LEMMA IdleInTime == \A t : InTime(Idle, t)
BY DEF InTime, Idle

\* A request that ends leaves the others as they were.
LEMMA FinishInTime ==
    ASSUME TypeOK, RequestsInTime, NEW u \in Users, Finish(u), now' = now
    PROVE  RequestsInTime'
BY IdleInTime DEF TypeOK, RequestsInTime, Finish

\* One that starts only adds its own part.
LEMMA StartInTime ==
    ASSUME TypeOK, TimeInv, NEW u \in Users, NEW r, Start(u, r), InTime(r, now)
    PROVE  TimeInv'
<1>1. UNCHANGED <<report, now>> /\ req' = [req EXCEPT ![u] = r]
  BY DEF Start
<1>2. RequestsInTime'
  BY <1>1 DEF TypeOK, TimeInv, RequestsInTime
<1> QED
  BY <1>1, <1>2 DEF TimeInv, SentIsRecorded, FirstSubmissionInTime

\* A step that does not touch the first submission and sends nothing.
LEMMA FirstKept ==
    ASSUME TimeInv, report'.firstSubmittedAt = report.firstSubmittedAt,
           report'.status \in {"SUBMITTED", "REOPENED"} =>
                report.status \in {"SUBMITTED", "REOPENED"}
    PROVE  SentIsRecorded' /\ FirstSubmissionInTime'
BY DEF TimeInv, SentIsRecorded, FirstSubmissionInTime

\* A request is let in.
LEMMA LoadTime ==
    ASSUME TypeOK, TimeInv, NEW u \in Users,
           \/ LoadSave(u) \/ LoadSubmit(u) \/ LoadReview(u) \/ LoadRevision(u)
           \/ \E asOwner \in BOOLEAN : LoadReopen(u, asOwner)
    PROVE  TimeInv'
<1>1. now \in Nat /\ HardStop \in Nat /\ RequestLife \in Nat
  BY TimesAreNumbers DEF TypeOK
<1>2. report \in Reports
  BY DEF TypeOK
<1>3. CASE LoadSave(u)
  <2> DEFINE r == [op |-> "save", since |-> now]
  <2>1. Start(u, r)
    BY <1>3 DEF LoadSave
  <2>2. InTime(r, now)
    BY <1>1 DEF InTime
  <2> HIDE DEF r
  <2> QED
    BY <2>1, <2>2, StartInTime
<1>4. CASE LoadSubmit(u)
  <2> DEFINE r == [op |-> "submit", since |-> now, scope |-> scope,
                   firstSubmittedAt |-> report.firstSubmittedAt]
  <2>1. Start(u, r) /\ ~ IsReportLocked(now)
    BY <1>4 DEF LoadSubmit
  <2>2. report.firstSubmittedAt = None => now < HardStop
    <3> SUFFICES ASSUME report.firstSubmittedAt = None PROVE now < HardStop
      OBVIOUS
    <3>1. report.status # "REOPENED"
      BY DEF TimeInv, SentIsRecorded
    <3>2. ~ IsReportLockedAt(ReportDay, now)
      BY <2>1, <3>1 DEF IsReportLocked
    <3> QED
      BY <1>1, <3>2, UnlockedBeforeCutoff, CycleAssumption DEF HardStop
  <2>3. report.firstSubmittedAt # None =>
            report.firstSubmittedAt < HardStop + RequestLife
    BY DEF TimeInv, FirstSubmissionInTime, HardStop
  <2>4. InTime(r, now)
    BY <1>1, <2>2, <2>3 DEF InTime
  <2> HIDE DEF r
  <2> QED
    BY <2>1, <2>4, StartInTime
<1>5. CASE LoadReview(u)
  <2> DEFINE r == [op |-> "review", since |-> now, scope |-> scope, rev |-> 0]
  <2>1. Start(u, r)
    BY <1>5 DEF LoadReview
  <2>2. InTime(r, now)
    BY <1>1 DEF InTime
  <2> HIDE DEF r
  <2> QED
    BY <2>1, <2>2, StartInTime
<1>6. CASE LoadRevision(u)
  <2> DEFINE r == [req[u] EXCEPT !.rev = Len(revisions)]
  <2>1. req' = [req EXCEPT ![u] = r] /\ req[u].op = "review" /\ UNCHANGED <<report, now>>
    BY <1>6 DEF LoadRevision
  <2>2. req[u] \in [op : {"review"}, since : Instants, scope : ScopeSettings,
                    rev : 0 .. MaxRevisions]
    BY <2>1 DEF TypeOK, Requests, Idle
  <2>3. r.op = "review" /\ r.since = req[u].since
    BY <2>2
  <2>4. InTime(req[u], now) /\ req[u] # Idle
    BY <2>1 DEF TimeInv, RequestsInTime, Idle
  <2>5. InTime(r, now)
    BY <2>3, <2>4 DEF InTime
  <2> HIDE DEF r
  <2>6. RequestsInTime'
    BY <2>1, <2>5 DEF TypeOK, TimeInv, RequestsInTime
  <2> QED
    BY <2>1, <2>6, FirstKept DEF TimeInv
<1>7. CASE \E asOwner \in BOOLEAN : LoadReopen(u, asOwner)
  <2> DEFINE expiredEdit == report.status = "REOPENED" /\ IsReportLocked(now)
  <2>1. PICK grants :
            Start(u, [op |-> "reopen", since |-> now, scope |-> scope,
                      expiredEdit |-> expiredEdit,
                      editableUntil |-> IF expiredEdit THEN report.editableUntil
                                                       ELSE None,
                      grants |-> grants])
    BY <1>7 DEF LoadReopen
  <2> DEFINE r == [op |-> "reopen", since |-> now, scope |-> scope,
                   expiredEdit |-> expiredEdit,
                   editableUntil |-> IF expiredEdit THEN report.editableUntil
                                                    ELSE None,
                   grants |-> grants]
  <2>2. expiredEdit => \/ report.editableUntil = None
                       \/ report.editableUntil < now
    <3> SUFFICES ASSUME report.status = "REOPENED", IsReportLocked(now),
                        report.editableUntil # None
                 PROVE  report.editableUntil < now
      OBVIOUS
    <3>1. report.editableUntil \in Nat
      BY <1>2, TimesAreNumbers DEF Reports
    <3> QED
      BY <1>1, <3>1 DEF IsReportLocked
  <2>3. Start(u, r)
    BY <2>1
  <2> HIDE DEF expiredEdit
  <2>4. InTime(r, now)
    BY <1>1, <2>2 DEF InTime
  <2> HIDE DEF r
  <2> QED
    BY <2>3, <2>4, StartInTime
<1> QED
  BY <1>3, <1>4, <1>5, <1>6, <1>7

\* A request is committed or lost.
LEMMA CommitTime ==
    ASSUME IInv, TimeInv, NEW u \in Users,
           \/ CommitSave(u) \/ CommitSubmit(u) \/ CommitReopen(u) \/ Abort(u)
           \/ \E decision \in Decisions : CommitReview(u, decision)
    PROVE  TimeInv'
<1>1. TypeOK /\ RequestsInTime /\ now \in Nat /\ HardStop \in Nat /\ RequestLife \in Nat
  BY TimesAreNumbers DEF IInv, TypeOK, TimeInv
<1>2. RequestsInTime'
  <2>1. Finish(u) /\ now' = now
    BY DEF CommitSave, CommitSubmit, CommitReopen, CommitReview, Abort
  <2> QED
    BY <1>1, <2>1, FinishInTime
<1>3. CASE CommitSave(u) \/ Abort(u)
  <2>1. report' = report
    BY <1>3 DEF CommitSave, Abort
  <2> QED
    BY <1>2, <2>1, FirstKept DEF TimeInv
<1>4. CASE CommitSubmit(u)
  <2> DEFINE first == req[u].firstSubmittedAt
  <2>1. PICK at \in req[u].since .. now :
            report'.firstSubmittedAt = IF first = None THEN at ELSE first
    BY <1>1, <1>4, SubmitMakes
  <2>2. req[u] \in Requests /\ req[u].op = "submit" /\ req[u] # Idle
    BY <1>1, <1>4 DEF CommitSubmit, TypeOK, Idle
  <2>3. req[u].since \in Nat /\ first \in Nat \cup {None}
    BY <2>2, RequestFields, TimesAreNumbers
  <2>4. /\ now <= req[u].since + RequestLife
        /\ IF first = None THEN req[u].since < HardStop
           ELSE first < HardStop + RequestLife
    BY <1>1, <2>2 DEF RequestsInTime, InTime
  <2>5. at \in Nat
    BY <1>1, <2>1, <2>3
  <2>6. /\ report'.firstSubmittedAt # None
        /\ report'.firstSubmittedAt < HardStop + RequestLife
    <3> HIDE DEF first
    <3> QED
      BY <1>1, <2>1, <2>3, <2>4, <2>5, CycleAssumption
  <2> QED
    BY <1>2, <2>6 DEF TimeInv, SentIsRecorded, FirstSubmissionInTime, HardStop
<1>5. CASE CommitReopen(u)
  <2>1. report'.firstSubmittedAt = report.firstSubmittedAt
    BY <1>1, <1>5, ReopenGrants, SameRound
  <2>2. report.status \in {"SUBMITTED", "REOPENED"}
    BY <1>5 DEF CommitReopen, ReopenClaim
  <2> QED
    BY <1>2, <2>1, <2>2, FirstKept DEF TimeInv
<1>6. ASSUME NEW decision \in Decisions, CommitReview(u, decision)
      PROVE  TimeInv'
  <2>1. report' = Decided(u, decision, EditWindowEnd(req[u].since, req[u].scope))
    BY <1>6 DEF CommitReview
  <2>2. report'.firstSubmittedAt = report.firstSubmittedAt
    BY <1>1, <1>6, <2>1, ReviewReads, DecidedFields
  <2>3. report.status = "SUBMITTED"
    BY <1>6 DEF CommitReview, AwaitsVerdict
  <2> QED
    BY <1>2, <2>2, <2>3, FirstKept DEF TimeInv
<1> QED
  BY <1>3, <1>4, <1>5, <1>6

\* The clock cuts off what got too old, and makes no request younger.
LEMMA TickTime ==
    ASSUME TypeOK, TimeInv, Tick
    PROVE  TimeInv'
<1>1. now \in Nat /\ now' = now + 1 /\ report' = report
  BY TimesAreNumbers DEF TypeOK, Tick
<1>2. ASSUME NEW u \in Users PROVE InTime(req[u], now)'
  <2>1. InTime(req[u], now)
    BY DEF TimeInv, RequestsInTime
  <2>2. CASE req'[u] = Idle
    BY <2>2, IdleInTime
  <2>3. CASE req'[u] = req[u] /\ req[u] # Idle /\ now' - req[u].since <= RequestLife
    <3>1. req[u].since \in Nat /\ RequestLife \in Nat
      BY <2>3, RequestFields, TimesAreNumbers DEF TypeOK
    <3>2. req[u].since <= now' /\ now' <= req[u].since + RequestLife
      BY <1>1, <2>1, <2>3, <3>1 DEF InTime
    <3> QED
      BY <2>1, <2>3, <3>2 DEF InTime
  <2>4. /\ req'[u] = IF req[u] # Idle /\ now' - req[u].since > RequestLife
                     THEN Idle ELSE req[u]
    BY DEF Tick
  <2>5. CASE req[u] # Idle /\ ~ (now' - req[u].since > RequestLife)
    <3>1. req[u].since \in Nat /\ RequestLife \in Nat
      BY <2>5, RequestFields, TimesAreNumbers DEF TypeOK
    <3> QED
      BY <1>1, <2>3, <2>4, <2>5, <3>1
  <2> QED
    BY <2>2, <2>4, <2>5
<1>3. RequestsInTime'
  BY <1>2 DEF RequestsInTime
<1> QED
  BY <1>1, <1>3, FirstKept DEF TimeInv

\* Every step keeps it.
LEMMA StepTime == IInv /\ TimeInv /\ [Next]_vars => TimeInv'
<1> SUFFICES ASSUME IInv, TimeInv, [Next]_vars PROVE TimeInv'
  OBVIOUS
<1>1. TypeOK /\ report \in Reports
  BY DEF IInv, TypeOK
<1>2. CASE \E u \in Users : UserStep(u)
  <2>1. PICK u \in Users : UserStep(u)
    BY <1>2
  <2> QED
    BY <1>1, <2>1, LoadTime, CommitTime DEF UserStep
<1>3. CASE Tick
  BY <1>1, <1>3, TickTime
<1>4. CASE \/ \E settings \in ScopeSettings : UpdateScope(settings)
           \/ ArchiveScope \/ SweepFind \/ SweepMark \/ UNCHANGED vars
  <2>1. UNCHANGED <<req, now>>
    BY <1>4 DEF UpdateScope, ArchiveScope, SweepFind, SweepMark, vars
  <2>2. /\ report'.firstSubmittedAt = report.firstSubmittedAt
        /\ report'.status \in {report.status, "ARCHIVED"}
    BY <1>1, <1>4 DEF UpdateScope, ArchiveScope, SweepFind, SweepMark, vars, Reports
  <2>3. RequestsInTime'
    BY <2>1 DEF TimeInv, RequestsInTime
  <2> QED
    BY <2>2, <2>3, FirstKept DEF TimeInv
<1> QED
  BY <1>2, <1>3, <1>4 DEF Next

\* What the clock and the requests in flight agree on in every state.
THEOREM TimeCorrect == Spec => []TimeInv
<1>1. Init => TimeInv
  BY IdleInTime DEF Init, TimeInv, RequestsInTime, SentIsRecorded, FirstSubmissionInTime
<1> QED
  BY <1>1, StepTime, Safety, PTL DEF Spec

\* The obligation is met before the hard stop, or by a request that was let in
\* before it: an edit window, of which the hard stop makes an exception, is
\* never one that the first submission used.
THEOREM FirstInTime == Spec => []FirstSubmissionInTime
<1>1. TimeInv => FirstSubmissionInTime
  BY DEF TimeInv
<1> QED
  BY <1>1, TimeCorrect, PTL

\* A report that stays reopened has its window moved only by a reopening that
\* names the window and has seen it end.
LEMMA WindowStep ==
    ASSUME IInv, TimeInv, [Next]_vars,
           report.status = "REOPENED", report'.status = "REOPENED",
           report.editableUntil # None, now <= report.editableUntil
    PROVE  report'.editableUntil = report.editableUntil
<1>1. TypeOK /\ report \in Reports
  BY DEF IInv, TypeOK
<1>2. ~ AwaitsVerdict
  BY DEF AwaitsVerdict
<1>3. ASSUME NEW u \in Users PROVE ~ CommitReopen(u)
  <2> SUFFICES ASSUME CommitReopen(u) PROVE FALSE
    OBVIOUS
  <2>1. /\ req[u].op = "reopen" /\ req[u].expiredEdit
        /\ report.editableUntil = req[u].editableUntil
    BY DEF CommitReopen, ReopenClaim
  <2>2. InTime(req[u], now) /\ req[u] # Idle
    BY <2>1 DEF TimeInv, RequestsInTime, Idle
  <2>3. req[u].editableUntil < req[u].since /\ req[u].since <= now
    BY <2>1, <2>2 DEF InTime
  <2>4. req[u].editableUntil \in Nat /\ req[u].since \in Nat /\ now \in Nat
    BY <1>1, <2>1, <2>2, RequestFields, TimesAreNumbers DEF TypeOK, Reports
  <2> QED
    BY <2>1, <2>3, <2>4
<1>4. ASSUME NEW u \in Users, UserStep(u)
      PROVE  report' = report
  <2>1. ~ CommitSubmit(u)
    BY <1>1, SubmitMakes
  <2> QED
    BY <1>2, <1>3, <1>4, <2>1 DEF UserStep, LoadSave, CommitSave, LoadSubmit,
        LoadReview, LoadRevision, CommitReview, LoadReopen, Abort, Start
<1>5. ~ ArchiveScope
  BY <1>1 DEF ArchiveScope, Reports
<1>6. ASSUME \/ \E settings \in ScopeSettings : UpdateScope(settings)
             \/ SweepFind \/ SweepMark \/ Tick \/ UNCHANGED vars
      PROVE  report' = report
  BY <1>2, <1>6 DEF UpdateScope, SweepFind, SweepMark, Tick, vars
<1> QED
  BY <1>4, <1>5, <1>6 DEF Next

\* An edit window that is still open is not moved while the report stays
\* reopened, however many managers extend it at a time.
THEOREM WindowsStand == Spec => OpenWindowStands
<1>1. IInv /\ TimeInv /\ [Next]_vars =>
        [/\ report.status = "REOPENED" /\ report'.status = "REOPENED"
         /\ report.editableUntil # None /\ now <= report.editableUntil
         => report'.editableUntil = report.editableUntil]_vars
  BY WindowStep
<1> QED
  BY <1>1, Safety, TimeCorrect, PTL DEF Spec, OpenWindowStands

-----------------------------------------------------------------------------
(* Writing after the hard stop.                                            *)

\* What a save or a submission that was let in at or after the hard stop finds:
\* if the report is reopened with an edit window, that window, or one that a
\* request as old as itself gave later; and once the requests of before the hard
\* stop are gone, a report that it may write has a window.
MayWrite(r, row) ==
    r.op \in {"save", "submit"} /\ r.since >= HardStop =>
        /\ row.status = "REOPENED" /\ row.editableUntil # None =>
                r.since <= row.editableUntil + RequestLife
        /\ r.since >= HardStop + RequestLife =>
                \/ row.status \in {"SUBMITTED", "ARCHIVED"}
                \/ row.status = "REOPENED" /\ row.editableUntil # None

\* Only the owner reopens a report without giving an edit window, in time.
GrantsLate(r) == r.op = "reopen" /\ ~ r.grants => r.since < HardStop

LateInv == \A u \in Users : MayWrite(req[u], report) /\ GrantsLate(req[u])

\* The numbers these speak of.
LEMMA ClockTypes ==
    ASSUME TypeOK
    PROVE  /\ now \in Nat /\ HardStop \in Nat /\ RequestLife \in Nat
           /\ report.editableUntil \in Nat \cup {None} /\ None \notin Nat
           /\ \A u \in Users : req[u].op # "idle" =>
                /\ req[u] # Idle /\ req[u].since \in Instants /\ req[u].since \in Nat
<1>1. now \in Nat /\ HardStop \in Nat /\ RequestLife \in Nat
  BY TimesAreNumbers DEF TypeOK
<1>2. None \notin Nat
  BY CycleAssumption
<1>3. report.editableUntil \in WindowEnds \cup {None}
  BY DEF TypeOK, Reports
<1>4. ASSUME NEW u \in Users, req[u].op # "idle"
      PROVE  req[u] # Idle /\ req[u].since \in Instants
  <2>1. req[u] \in Requests
    BY DEF TypeOK
  <2> QED
    BY <1>4, <2>1, RequestFields DEF Idle
<1> QED
  BY <1>1, <1>2, <1>3, <1>4, TimesAreNumbers

\* Nothing is expected of a user without a request.
LEMMA IdleMayWrite == \A row : MayWrite(Idle, row) /\ GrantsLate(Idle)
BY DEF MayWrite, GrantsLate, Idle

\* A request that starts only adds its own part.
LEMMA StartLate ==
    ASSUME TypeOK, LateInv, NEW u \in Users, NEW r, Start(u, r),
           MayWrite(r, report), GrantsLate(r)
    PROVE  LateInv'
<1>1. report' = report /\ req' = [req EXCEPT ![u] = r]
  BY DEF Start
<1> QED
  BY <1>1 DEF TypeOK, LateInv

\* Requests end, and the report is such that those that stay may still write.
LEMMA FinishLate ==
    ASSUME TypeOK, LateInv, \A v \in Users : req'[v] = req[v] \/ req'[v] = Idle,
           \A v \in Users : MayWrite(req[v], report')
    PROVE  LateInv'
BY IdleMayWrite DEF LateInv

\* A report that is submitted or archived takes no writes.
LEMMA ClosedMayWrite ==
    ASSUME NEW r, NEW row, row.status \in {"SUBMITTED", "ARCHIVED"}
    PROVE  MayWrite(r, row)
BY DEF MayWrite

\* A save or a submission that is let in comes before the hard stop or in an edit
\* window.
LEMMA LetInLate ==
    ASSUME TypeOK, LateInv, NEW u \in Users, NEW r, Start(u, r),
           r.op \in {"save", "submit"}, r.since = now,
           report.status # "SUBMITTED", ~ IsReportLocked(now)
    PROVE  LateInv'
<1>1. /\ now \in Nat /\ HardStop \in Nat /\ RequestLife \in Nat
      /\ report.editableUntil \in Nat \cup {None} /\ None \notin Nat
      /\ ReportDay \in Nat
  BY ClockTypes, CycleAssumption
<1>2. now >= HardStop => /\ report.status = "REOPENED" /\ report.editableUntil # None
                         /\ now <= report.editableUntil
  <2> SUFFICES ASSUME now >= HardStop
               PROVE  /\ report.status = "REOPENED" /\ report.editableUntil # None
                      /\ now <= report.editableUntil
    OBVIOUS
  <2>1. IsReportLockedAt(ReportDay, now)
    BY <1>1, UnlockedBeforeCutoff DEF HardStop
  <2> QED
    BY <2>1 DEF IsReportLocked
<1>3. MayWrite(r, report)
  BY <1>1, <1>2 DEF MayWrite
<1>4. GrantsLate(r)
  BY DEF GrantsLate
<1> QED
  BY <1>3, <1>4, StartLate

\* A reopening that gives no edit window is the owner's, before the hard stop.
LEMMA ReopenLate ==
    ASSUME TypeOK, LateInv, NEW u \in Users, NEW asOwner \in BOOLEAN,
           LoadReopen(u, asOwner)
    PROVE  LateInv'
<1> DEFINE expiredEdit == report.status = "REOPENED" /\ IsReportLocked(now)
           grants == report.reviewedBy = u \/ u \in Managers
           r == [op |-> "reopen", since |-> now, scope |-> scope,
                 expiredEdit |-> expiredEdit,
                 editableUntil |-> IF expiredEdit THEN report.editableUntil
                                                  ELSE None,
                 grants |-> grants]
<1>1. Start(u, r)
  BY DEF LoadReopen
<1>2. ~ grants => now < HardStop
  <2> SUFFICES ASSUME ~ grants PROVE now < HardStop
    OBVIOUS
  <2>1. report.status = "SUBMITTED" /\ ~ IsReportLocked(now)
    BY DEF LoadReopen
  <2>2. ~ IsReportLockedAt(ReportDay, now)
    BY <2>1 DEF IsReportLocked
  <2>3. now \in Nat /\ ReportDay \in Nat
    BY TimesAreNumbers, CycleAssumption DEF TypeOK
  <2> QED
    BY <2>2, <2>3, UnlockedBeforeCutoff DEF HardStop
<1>3. r.op = "reopen" /\ r.since = now /\ r.grants = grants
  OBVIOUS
<1> HIDE DEF r, grants
<1>4. MayWrite(r, report) /\ GrantsLate(r)
  BY <1>2, <1>3 DEF MayWrite, GrantsLate
<1> QED
  BY <1>1, <1>4, StartLate

\* An edit window that is given ends after the instant it counts from.
LEMMA WindowIsAhead ==
    ASSUME NEW at \in Instants, NEW s \in ScopeSettings
    PROVE  EditWindowEnd(at, s) \in Nat /\ at < EditWindowEnd(at, s)
<1>1. at \in Nat /\ s.weekdays \in SUBSET (1 .. 7) /\ s.weekdays # {}
  BY TimesAreNumbers, CycleAssumption
<1> QED
  BY <1>1, EditWindowOpens

\* A request that gives an edit window is not older than its life, and neither is
\* one that finds the window.
LEMMA GivenMayWrite ==
    ASSUME TypeOK, TimeInv, NEW u \in Users, req[u].op \in {"review", "reopen"},
           NEW at \in req[u].since .. now, NEW row, row.status = "REOPENED",
           row.editableUntil = EditWindowEnd(at, req[u].scope), NEW v \in Users
    PROVE  MayWrite(req[v], row)
<1>1. now \in Nat /\ HardStop \in Nat /\ RequestLife \in Nat /\ None \notin Nat
  BY ClockTypes
<1>2. /\ req[u] # Idle /\ req[u].since \in Instants /\ req[u].scope \in ScopeSettings
      /\ req[u].since \in Nat /\ now \in Instants
  <2>1. req[u] \in Requests /\ now \in Instants
    BY DEF TypeOK
  <2> QED
    BY <2>1, ClockTypes, RequestFields
<1>3. at \in Instants /\ at \in Nat
  BY <1>1, <1>2, CycleAssumption DEF Instants
<1>4. now <= req[u].since + RequestLife
  BY <1>2 DEF TimeInv, RequestsInTime, InTime
<1>5. row.editableUntil \in Nat /\ at < row.editableUntil
  BY <1>2, <1>3, WindowIsAhead
<1>6. ASSUME req[v].op \in {"save", "submit"}
      PROVE  /\ req[v].since \in Nat
             /\ req[v].since <= row.editableUntil + RequestLife
  <2>1. req[v] # Idle /\ req[v].since \in Nat
    BY <1>6, ClockTypes
  <2>2. req[v].since <= now
    BY <2>1 DEF TimeInv, RequestsInTime, InTime
  <2> QED
    BY <1>1, <1>2, <1>3, <1>4, <1>5, <2>1, <2>2
<1> QED
  BY <1>1, <1>5, <1>6 DEF MayWrite

\* A reopening that commits.
LEMMA ReopenedLate ==
    ASSUME TypeOK, TimeInv, LateInv, NEW u \in Users, CommitReopen(u)
    PROVE  LateInv'
<1>1. PICK at \in req[u].since .. now :
        report' = Reopened(IF req[u].grants
                           THEN EditWindowEnd(at, req[u].scope) ELSE None)
  BY DEF CommitReopen
<1>2. /\ req[u].op = "reopen" /\ req[u] # Idle /\ req[u].since \in Nat
      /\ now \in Nat /\ HardStop \in Nat /\ RequestLife \in Nat
  BY ClockTypes DEF CommitReopen
<1>3. PICK until \in WindowEnds \cup {None} : report' = Reopened(until)
  BY ReopenGrants
<1>4. /\ report'.status = "REOPENED"
      /\ report'.editableUntil = IF req[u].grants
                                 THEN EditWindowEnd(at, req[u].scope) ELSE None
  BY <1>1 DEF TypeOK, Reports, Reopened
<1>5. \A v \in Users : MayWrite(req[v], report')
  <2> SUFFICES ASSUME NEW v \in Users PROVE MayWrite(req[v], report')
    OBVIOUS
  <2>1. CASE req[u].grants
    BY <1>2, <1>4, <2>1, GivenMayWrite
  <2>2. CASE ~ req[u].grants
    <3>1. req[u].since < HardStop
      BY <1>2, <2>2 DEF LateInv, GrantsLate
    <3>2. now <= req[u].since + RequestLife
      BY <1>2 DEF TimeInv, RequestsInTime, InTime
    <3>3. ASSUME req[v].op \in {"save", "submit"}
          PROVE  req[v].since \in Nat /\ req[v].since <= now
      <4>1. req[v] # Idle /\ req[v].since \in Nat
        BY <3>3, ClockTypes
      <4> QED
        BY <4>1 DEF TimeInv, RequestsInTime, InTime
    <3> QED
      BY <1>2, <1>4, <2>2, <3>1, <3>2, <3>3 DEF MayWrite
  <2> QED
    BY <2>1, <2>2
<1>6. \A v \in Users : req'[v] = req[v] \/ req'[v] = Idle
  BY DEF CommitReopen, Finish, TypeOK
<1> QED
  BY <1>5, <1>6, FinishLate

\* A verdict that commits: a rejection gives an edit window.
LEMMA DecidedLate ==
    ASSUME TypeOK, TimeInv, LateInv, NEW u \in Users, NEW decision \in Decisions,
           CommitReview(u, decision)
    PROVE  LateInv'
<1> DEFINE end == EditWindowEnd(req[u].since, req[u].scope)
<1>1. /\ req[u].op = "review" /\ req[u] # Idle /\ req[u].since \in Nat
      /\ now \in Nat /\ report.status = "SUBMITTED" /\ report' = Decided(u, decision, end)
  BY ClockTypes DEF CommitReview, AwaitsVerdict
<1>2. req[u].since \in req[u].since .. now
  BY <1>1 DEF TimeInv, RequestsInTime, InTime
<1>3. IF decision = "REJECTED"
      THEN report'.status = "REOPENED" /\ report'.editableUntil = end
      ELSE report'.status = "SUBMITTED"
  BY <1>1 DEF Decided, TypeOK, Reports
<1>4. \A v \in Users : MayWrite(req[v], report')
  BY <1>1, <1>2, <1>3, GivenMayWrite, ClosedMayWrite
<1>5. \A v \in Users : req'[v] = req[v] \/ req'[v] = Idle
  BY DEF CommitReview, Finish, TypeOK
<1> QED
  BY <1>4, <1>5, FinishLate

\* A step that changes neither the status nor the edit window, and at most ends
\* requests.
LEMMA QuietLate ==
    ASSUME TypeOK, LateInv, report'.status = report.status,
           report'.editableUntil = report.editableUntil,
           \A v \in Users : req'[v] = req[v] \/ req'[v] = Idle
    PROVE  LateInv'
<1>1. \A v \in Users : MayWrite(req[v], report')
  BY DEF LateInv, MayWrite
<1> QED
  BY <1>1, FinishLate

\* Every step of a user keeps it.
LEMMA UserLate ==
    ASSUME TypeOK, TimeInv, LateInv, NEW u \in Users, UserStep(u)
    PROVE  LateInv'
<1>1. CASE LoadSave(u)
  <2> DEFINE r == [op |-> "save", since |-> now]
  <2>1. Start(u, r) /\ report.status # "SUBMITTED" /\ ~ IsReportLocked(now)
    BY <1>1 DEF LoadSave
  <2>2. r.op = "save" /\ r.since = now
    OBVIOUS
  <2> HIDE DEF r
  <2> QED
    BY <2>1, <2>2, LetInLate
<1>2. CASE LoadSubmit(u)
  <2> DEFINE r == [op |-> "submit", since |-> now, scope |-> scope,
                   firstSubmittedAt |-> report.firstSubmittedAt]
  <2>1. Start(u, r) /\ report.status # "SUBMITTED" /\ ~ IsReportLocked(now)
    BY <1>2 DEF LoadSubmit
  <2>2. r.op = "submit" /\ r.since = now
    OBVIOUS
  <2> HIDE DEF r
  <2> QED
    BY <2>1, <2>2, LetInLate
<1>3. CASE LoadReview(u)
  <2> DEFINE r == [op |-> "review", since |-> now, scope |-> scope, rev |-> 0]
  <2>1. Start(u, r)
    BY <1>3 DEF LoadReview
  <2>2. MayWrite(r, report) /\ GrantsLate(r)
    BY DEF MayWrite, GrantsLate
  <2> HIDE DEF r
  <2> QED
    BY <2>1, <2>2, StartLate
<1>4. CASE LoadRevision(u)
  <2> DEFINE r == [req[u] EXCEPT !.rev = Len(revisions)]
  <2>1. req' = [req EXCEPT ![u] = r] /\ req[u].op = "review" /\ report' = report
    BY <1>4 DEF LoadRevision
  <2>2. req[u] \in [op : {"review"}, since : Instants, scope : ScopeSettings,
                    rev : 0 .. MaxRevisions]
    BY <2>1 DEF TypeOK, Requests, Idle
  <2>3. r.op = "review"
    BY <2>1, <2>2
  <2> HIDE DEF r
  <2>4. MayWrite(r, report) /\ GrantsLate(r)
    BY <2>3 DEF MayWrite, GrantsLate
  <2> QED
    BY <2>1, <2>4 DEF LateInv, TypeOK
<1>5. CASE \E asOwner \in BOOLEAN : LoadReopen(u, asOwner)
  BY <1>5, ReopenLate
<1>6. CASE CommitSubmit(u)
  <2>1. report'.status = "SUBMITTED"
    BY <1>6, SubmitMakes
  <2>2. \A v \in Users : req'[v] = req[v] \/ req'[v] = Idle
    BY <1>6 DEF CommitSubmit, Finish, TypeOK
  <2> QED
    BY <2>1, <2>2, ClosedMayWrite, FinishLate
<1>7. CASE CommitSave(u) \/ Abort(u)
  <2>1. report' = report /\ \A v \in Users : req'[v] = req[v] \/ req'[v] = Idle
    BY <1>7 DEF CommitSave, Abort, Finish, TypeOK
  <2> QED
    BY <2>1, QuietLate
<1> QED
  BY <1>1, <1>2, <1>3, <1>4, <1>5, <1>6, <1>7, ReopenedLate, DecidedLate DEF UserStep

\* Every step keeps it.
LEMMA StepLate == TypeOK /\ TimeInv /\ LateInv /\ [Next]_vars => LateInv'
<1> SUFFICES ASSUME TypeOK, TimeInv, LateInv, [Next]_vars PROVE LateInv'
  OBVIOUS
<1>1. CASE \E u \in Users : UserStep(u)
  BY <1>1, UserLate
<1>2. CASE ArchiveScope
  <2>1. report'.status = "ARCHIVED" /\ req' = req
    BY <1>2 DEF ArchiveScope, TypeOK, Reports
  <2> QED
    BY <2>1, ClosedMayWrite, FinishLate
<1>3. CASE Tick
  <2>1. report' = report /\ \A v \in Users : req'[v] = req[v] \/ req'[v] = Idle
    BY <1>3 DEF Tick
  <2> QED
    BY <2>1, QuietLate
<1>4. CASE \/ \E settings \in ScopeSettings : UpdateScope(settings)
           \/ SweepFind \/ SweepMark \/ UNCHANGED vars
  <2>1. /\ req' = req /\ report'.status = report.status
        /\ report'.editableUntil = report.editableUntil
    BY <1>4 DEF UpdateScope, SweepFind, SweepMark, vars, TypeOK, Reports
  <2> QED
    BY <2>1, QuietLate
<1> QED
  BY <1>1, <1>2, <1>3, <1>4 DEF Next

\* What the requests of before and after the hard stop find in every state.
THEOREM LateCorrect == Spec => []LateInv
<1>1. Init => LateInv
  BY IdleMayWrite DEF Init, LateInv
<1> QED
  BY <1>1, StepLate, TypeCorrect, TimeCorrect, PTL DEF Spec

\* Once the requests of before the hard stop are gone, nobody changes what a
\* report says except in an edit window that was given, or as long after it as
\* two requests take.
LateWritesHaveWindow ==
    [][answers' # answers /\ now >= HardStop + 2 * RequestLife =>
        /\ report.status = "REOPENED"
        /\ report.editableUntil # None
        /\ now <= report.editableUntil + 2 * RequestLife]_vars

\* Whoever changes the answers was let in a request's life ago at most.
LEMMA WriteStep ==
    ASSUME TypeOK, TimeInv, LateInv, [Next]_vars,
           answers' # answers, now >= HardStop + 2 * RequestLife
    PROVE  /\ report.status = "REOPENED" /\ report.editableUntil # None
           /\ now <= report.editableUntil + 2 * RequestLife
<1>1. PICK u \in Users : CommitSave(u) \/ CommitSubmit(u)
  <2>1. ~ \/ \E settings \in ScopeSettings : UpdateScope(settings)
          \/ ArchiveScope \/ SweepFind \/ SweepMark \/ Tick \/ UNCHANGED vars
    BY DEF UpdateScope, ArchiveScope, SweepFind, SweepMark, Tick, vars
  <2>2. PICK u \in Users : UserStep(u)
    BY <2>1 DEF Next
  <2> QED
    BY <2>2 DEF UserStep, LoadSave, LoadSubmit, LoadReview, LoadRevision,
        CommitReview, LoadReopen, CommitReopen, Abort, Start
<1>2. req[u].op \in {"save", "submit"} /\ Writable
  BY <1>1 DEF CommitSave, CommitSubmit
<1>3. /\ now \in Nat /\ HardStop \in Nat /\ RequestLife \in Nat
      /\ report.editableUntil \in Nat \cup {None} /\ None \notin Nat
  BY ClockTypes
<1>4. req[u] # Idle /\ req[u].since \in Nat
  BY <1>2, ClockTypes
<1>5. now <= req[u].since + RequestLife
  BY <1>4 DEF TimeInv, RequestsInTime, InTime
<1>6. req[u].since >= HardStop + RequestLife /\ req[u].since >= HardStop
  BY <1>3, <1>4, <1>5
<1>7. report.status = "REOPENED" /\ report.editableUntil # None
  BY <1>2, <1>6 DEF LateInv, MayWrite, Writable
<1>8. req[u].since <= report.editableUntil + RequestLife
  BY <1>2, <1>6, <1>7 DEF LateInv, MayWrite
<1> QED
  BY <1>3, <1>4, <1>5, <1>7, <1>8

\* After the hard stop what a report says changes in edit windows only.
THEOREM LateWritesCorrect == Spec => LateWritesHaveWindow
<1>1. TypeOK /\ TimeInv /\ LateInv /\ [Next]_vars =>
        [answers' # answers /\ now >= HardStop + 2 * RequestLife =>
            /\ report.status = "REOPENED"
            /\ report.editableUntil # None
            /\ now <= report.editableUntil + 2 * RequestLife]_vars
  BY WriteStep
<1> QED
  BY <1>1, TypeCorrect, TimeCorrect, LateCorrect, PTL DEF Spec, LateWritesHaveWindow

-----------------------------------------------------------------------------
(* What the cron job closes.                                               *)

\* Up to the i-th submission, one has passed its deadline.
DueBefore(i) == \E k \in 1 .. i : revisions[k].deadline < now

\* A round is closed only if its deadline passed, or that of an earlier
\* submission, which the job had listed (markExpiredReviews, whose compare-and-set
\* does not repeat the deadline). The first round is never closed early.
ClosedForCause ==
    \A i \in 1 .. Len(revisions) : revisions[i].expired => DueBefore(i)

\* What the job has listed was due.
ListedForCause == sweep => DueBefore(Len(revisions))

\* Deadlines are numbers.
LEMMA DeadlinesAreNumbers == Deadlines \subseteq Nat
<1> SUFFICES ASSUME NEW t \in Instants, NEW s \in ScopeSettings
             PROVE  ReviewDeadlineAt(t, s) \in Nat
  BY DEF Deadlines
<1>1. /\ t \in Nat /\ s.weekdays \in SUBSET (1 .. 7) /\ s.weekdays # {}
      /\ s.reviewWindowDays \in Nat
  BY TimesAreNumbers, CycleAssumption
<1> QED
  BY <1>1, DeadlineIsRight

\* A deadline that passed stays passed, as long as the submissions stay.
LEMMA DueStands ==
    ASSUME NEW i \in Nat, DueBefore(i), now \in Nat, now' \in Nat, now <= now',
           \A k \in 1 .. i : /\ revisions[k].deadline \in Nat
                             /\ revisions'[k].deadline = revisions[k].deadline,
           NEW j \in Nat, i <= j
    PROVE  DueBefore(j)'
<1>1. PICK k \in 1 .. i : revisions[k].deadline < now
  BY DEF DueBefore
<1>2. k \in 1 .. j /\ revisions'[k].deadline < now'
  BY <1>1
<1> QED
  BY <1>2 DEF DueBefore

\* What a step makes of the revisions: those there were keep their deadline, and
\* one is closed by the cron job only, the latest.
LEMMA RevisionsStep ==
    ASSUME IInv, [Next]_vars
    PROVE  /\ Len(revisions) \in Nat /\ Len(revisions') \in Nat
           /\ Len(revisions) <= Len(revisions')
           /\ \A k \in 1 .. Len(revisions) :
                /\ revisions[k].deadline \in Nat
                /\ revisions'[k].deadline = revisions[k].deadline
           /\ \A k \in 1 .. Len(revisions') :
                revisions'[k].expired =>
                    \/ k \in 1 .. Len(revisions) /\ revisions[k].expired
                    \/ k = Len(revisions) /\ SweepMark
<1>1. TypeOK /\ revisions \in Seq(Revisions) /\ Len(revisions) \in Nat
  BY DEF IInv, TypeOK
<1>2. ASSUME NEW k \in 1 .. Len(revisions)
      PROVE  revisions[k] \in Revisions /\ revisions[k].deadline \in Nat
  <2>1. revisions[k] \in Revisions
    BY <1>1, <1>2
  <2>2. revisions[k].deadline \in Deadlines
    BY <2>1 DEF Revisions
  <2> QED
    BY <2>1, <2>2, DeadlinesAreNumbers
<1>3. CASE \E u \in Users : CommitSubmit(u)
  <2>1. PICK e \in Revisions : revisions' = Append(revisions, e) /\ e.expired = FALSE
    BY <1>1, <1>3, SubmitMakes
  <2>2. /\ Len(revisions') = Len(revisions) + 1
        /\ \A k \in 1 .. Len(revisions) : revisions'[k] = revisions[k]
        /\ revisions'[Len(revisions) + 1] = e
    BY <1>1, <2>1, AppendProperties
  <2> QED
    BY <1>1, <1>2, <2>1, <2>2
<1>4. CASE SweepMark
  <2>1. CASE AwaitsVerdict
    <3>1. revisions # <<>>
      BY <2>1 DEF IInv, FrozenWhileSubmitted, AwaitsVerdict
    <3>2. revisions' = [revisions EXCEPT ![Len(revisions)] = Closed(@)]
      BY <1>4, <2>1 DEF SweepMark
    <3>3. /\ Len(revisions') = Len(revisions)
          /\ \A k \in 1 .. Len(revisions) :
                revisions'[k] = IF k = Len(revisions) THEN Closed(revisions[k])
                                                      ELSE revisions[k]
      BY <1>1, <3>1, <3>2, CloseLatest
    <3>4. ASSUME NEW k \in 1 .. Len(revisions)
          PROVE  revisions'[k].deadline = revisions[k].deadline
      BY <1>2, <3>3, ClosedType
    <3> QED
      BY <1>1, <1>2, <1>4, <3>3, <3>4
  <2>2. CASE ~ AwaitsVerdict
    <3>1. revisions' = revisions
      BY <1>4, <2>2 DEF SweepMark
    <3> QED
      BY <1>1, <1>2, <3>1
  <2> QED
    BY <2>1, <2>2
<1>5. CASE UNCHANGED revisions
  BY <1>1, <1>2, <1>5
<1>6. (\E u \in Users : CommitSubmit(u)) \/ SweepMark \/ UNCHANGED revisions
  BY DEF Next, UserStep, LoadSave, CommitSave, LoadSubmit, LoadReview, LoadRevision,
      CommitReview, LoadReopen, CommitReopen, Abort, Start, UpdateScope,
      ArchiveScope, SweepFind, Tick, vars
<1> QED
  BY <1>3, <1>4, <1>5, <1>6

\* The cron job lists a report whose latest submission has passed its deadline.
LEMMA FindsDue ==
    ASSUME IInv, SweepFind
    PROVE  DueBefore(Len(revisions))
<1>1. revisions # <<>> /\ Len(revisions) \in Nat
  BY DEF IInv, FrozenWhileSubmitted, SweepFind, AwaitsVerdict, TypeOK
<1>2. report.deadline = revisions[Len(revisions)].deadline
  BY <1>1 DEF IInv, RoundOfLatest, Latest
<1>3. Len(revisions) \in 1 .. Len(revisions)
  BY <1>1, EmptySeq DEF IInv, TypeOK
<1> QED
  BY <1>2, <1>3 DEF SweepFind, IsDue, DueBefore

\* Every step keeps both.
LEMMA CauseStep ==
    IInv /\ ClosedForCause /\ ListedForCause /\ [Next]_vars
        => ClosedForCause' /\ ListedForCause'
<1> SUFFICES ASSUME IInv, ClosedForCause, ListedForCause, [Next]_vars
             PROVE  ClosedForCause' /\ ListedForCause'
  OBVIOUS
<1> DEFINE n == Len(revisions)
<1>1. now \in Nat /\ now' \in Nat /\ now <= now'
  <2>1. now \in Nat
    BY TimesAreNumbers DEF IInv, TypeOK
  <2>2. now' \in {now, now + 1}
    BY DEF Next, UserStep, LoadSave, CommitSave, LoadSubmit, CommitSubmit, LoadReview,
        LoadRevision, CommitReview, LoadReopen, CommitReopen, Abort, Start,
        UpdateScope, ArchiveScope, SweepFind, SweepMark, Tick, vars
  <2> QED
    BY <2>1, <2>2
<1>2. /\ n \in Nat /\ n' \in Nat /\ n <= n'
      /\ \A k \in 1 .. n : /\ revisions[k].deadline \in Nat
                           /\ revisions'[k].deadline = revisions[k].deadline
      /\ \A k \in 1 .. n' : revisions'[k].expired =>
                                \/ k \in 1 .. n /\ revisions[k].expired
                                \/ k = n /\ SweepMark
  BY RevisionsStep
<1> HIDE DEF n
<1>3. ASSUME NEW i \in 0 .. n, DueBefore(i), NEW j \in Nat, i <= j
      PROVE  DueBefore(j)'
  <2>1. i \in Nat /\ \A k \in 1 .. i : k \in 1 .. n
    BY <1>2
  <2> QED
    BY <1>1, <1>2, <1>3, <2>1, DueStands
<1>4. ASSUME NEW k \in 1 .. n', revisions'[k].expired
      PROVE  DueBefore(k)'
  <2>1. CASE k \in 1 .. n /\ revisions[k].expired
    <3>1. DueBefore(k) /\ k \in 0 .. n /\ k \in Nat
      BY <1>2, <2>1 DEF ClosedForCause, n
    <3> QED
      BY <1>3, <3>1
  <2>2. CASE k = n /\ SweepMark
    <3>1. DueBefore(n) /\ n \in 0 .. n
      BY <1>2, <2>2 DEF ListedForCause, SweepMark, n
    <3> QED
      BY <1>2, <1>3, <2>2, <3>1
  <2> QED
    BY <1>2, <1>4, <2>1, <2>2
<1>5. ASSUME sweep', NEW m \in Nat, m = n'
      PROVE  DueBefore(m)'
  <2>1. sweep \/ SweepFind
    BY <1>5 DEF Next, UserStep, LoadSave, CommitSave, LoadSubmit, CommitSubmit, LoadReview,
        LoadRevision, CommitReview, LoadReopen, CommitReopen, Abort, Start,
        UpdateScope, ArchiveScope, SweepMark, Tick, vars
  <2>2. DueBefore(n) /\ n \in 0 .. n
    BY <1>2, <2>1, FindsDue DEF ListedForCause, n
  <2> QED
    BY <1>2, <1>3, <1>5, <2>2
<1>6. ClosedForCause'
  BY <1>4 DEF ClosedForCause, n
<1>7. ListedForCause'
  BY <1>2, <1>5 DEF ListedForCause, DueBefore, n
<1> QED
  BY <1>6, <1>7

\* No round is closed before a deadline has passed, its own or, of a submission
\* that came while the job ran, that of the one it replaced.
THEOREM ClosedCorrect == Spec => []ClosedForCause
<1>1. Init => ClosedForCause /\ ListedForCause
  BY EmptySeq DEF Init, ClosedForCause, ListedForCause
<1> QED
  BY <1>1, CauseStep, Safety, PTL DEF Spec

-----------------------------------------------------------------------------
(* The ledger.                                                             *)

LedgerRounds == [verdict : Decisions \cup {None}, lapsed : BOOLEAN]

VerdictsRead ==
    /\ \A r \in reviews : VerdictOf(r.rev) = r.decision
    /\ \A i : (\A r \in reviews : r.rev # i) => VerdictOf(i) = None

\* The verdict of a round is that of its review, of which there is one at most.
LEMMA VerdictIs == VerdictHasItsReview => VerdictsRead
<1> SUFFICES ASSUME VerdictHasItsReview PROVE VerdictsRead
  OBVIOUS
<1>1. ASSUME NEW r \in reviews PROVE VerdictOf(r.rev) = r.decision
  <2> DEFINE chosen == CHOOSE q \in reviews : q.rev = r.rev
  <2>1. chosen \in reviews /\ chosen.rev = r.rev
    OBVIOUS
  <2>2. chosen = r
    BY <2>1 DEF VerdictHasItsReview
  <2>3. VerdictOf(r.rev) = chosen.decision
    BY DEF VerdictOf
  <2> QED
    BY <2>2, <2>3
<1>2. ASSUME NEW i, \A r \in reviews : r.rev # i PROVE VerdictOf(i) = None
  BY <1>2 DEF VerdictOf
<1> QED
  BY <1>1, <1>2 DEF VerdictsRead

RoundsRead ==
    /\ Rounds \in Seq(LedgerRounds) /\ Len(Rounds) = Len(revisions)
    /\ DOMAIN Rounds = 1 .. Len(revisions)
    /\ \A i \in 1 .. Len(revisions) :
        Rounds[i] = [verdict |-> VerdictOf(i), lapsed |-> revisions[i].expired]

\* The rounds are a sequence as long as the history.
LEMMA RoundsAre == IInv => RoundsRead
<1> SUFFICES ASSUME IInv PROVE RoundsRead
  OBVIOUS
<1>1. revisions \in Seq(Revisions) /\ Len(revisions) \in Nat
  BY DEF IInv, TypeOK
<1>2. ASSUME NEW i \in 1 .. Len(revisions)
      PROVE  [verdict |-> VerdictOf(i), lapsed |-> revisions[i].expired] \in LedgerRounds
  <2>1. revisions[i].expired \in BOOLEAN
    <3>1. revisions[i] \in Revisions
      BY <1>1, ElementOfSeq
    <3> QED
      BY <3>1 DEF Revisions
  <2>2. VerdictOf(i) \in Decisions \cup {None}
    <3>1. CASE \E r \in reviews : r.rev = i
      <4>1. PICK r \in reviews : r.rev = i
        BY <3>1
      <4>2. r.decision \in Decisions
        BY DEF IInv, TypeOK, Reviews
      <4> QED
        BY <4>1, <4>2, VerdictIs DEF IInv, VerdictsRead
    <3>2. CASE \A r \in reviews : r.rev # i
      BY <3>2, VerdictIs DEF IInv, VerdictsRead
    <3> QED
      BY <3>1, <3>2
  <2> QED
    BY <2>1, <2>2 DEF LedgerRounds
<1> QED
  BY <1>1, <1>2 DEF Rounds, RoundsRead

\* Both shapes hold in every state of the invariant, and so after a step too.
LEMMA BothRead == IInv => (VerdictsRead /\ RoundsRead)
BY VerdictIs, RoundsAre DEF IInv

\* The reading of verdicts and rounds, in the next state.
LEMMA BothReadNext == IInv' => (VerdictsRead /\ RoundsRead)'
BY BothRead, PTL

\* The reading of verdicts and rounds, before and after a step.
LEMMA ReadNext ==
    ASSUME IInv, IInv'
    PROVE  VerdictsRead /\ RoundsRead /\ VerdictsRead' /\ RoundsRead'
BY BothRead, BothReadNext

\* Giving a round its verdict, and ending it.
LEMMA RoundFields ==
    ASSUME NEW v, NEW w, NEW b
    PROVE  LET round == [verdict |-> v, lapsed |-> b]
           IN  /\ [round EXCEPT !.verdict = w] = [verdict |-> w, lapsed |-> b]
               /\ [round EXCEPT !.lapsed = TRUE] = [verdict |-> v, lapsed |-> TRUE]
<1> DEFINE round == [verdict |-> v, lapsed |-> b]
<1>1. [round EXCEPT !.verdict = w] = [verdict |-> w, lapsed |-> b]
  OBVIOUS
<1>2. [round EXCEPT !.lapsed = TRUE] = [verdict |-> v, lapsed |-> TRUE]
  <2>1. ASSUME NEW x PROVE [round EXCEPT !.lapsed = x] = [verdict |-> v, lapsed |-> x]
    OBVIOUS
  <2> QED
    BY <2>1
<1> QED
  BY <1>1, <1>2

\* The phase of each status.
LEMMA PhaseIs ==
    /\ report.status = "DRAFT" => Phase = "draft"
    /\ report.status = "SUBMITTED" => Phase = "waiting"
    /\ report.status = "REOPENED" => Phase = "open"
    /\ report.status = "ARCHIVED" => Phase = "archived"
BY DEF Phase

\* A report in its first state has no rounds.
LEMMA LedgerInit == Init => Ledger!Init
<1> SUFFICES ASSUME Init PROVE Ledger!Init
  OBVIOUS
<1>1. Phase = "draft"
  BY PhaseIs DEF Init
<1>2. Rounds = <<>>
  BY DEF Init, Rounds
<1>3. Outcome = None
  BY DEF Init, Outcome
<1> QED
  BY <1>1, <1>2, <1>3 DEF Ledger!Init

\* A submission opens a round.
LEMMA OpensRound ==
    ASSUME IInv, IInv', Opens
    PROVE  Ledger!Submit
<1> DEFINE n == Len(revisions)
           new == [verdict |-> None, lapsed |-> FALSE]
<1>1. revisions \in Seq(Revisions) /\ n \in Nat
  BY DEF IInv, TypeOK
<1>2. PICK e \in Revisions : e.expired = FALSE /\ revisions' = Append(revisions, e)
  BY DEF Opens
<1>3. /\ Len(revisions') = n + 1 /\ revisions'[n + 1] = e
      /\ \A i \in 1 .. n : revisions'[i] = revisions[i]
  BY <1>1, <1>2, AppendProperties
<1>4. \A i : VerdictOf(i)' = VerdictOf(i)
  BY DEF Opens, VerdictOf
<1>5. VerdictOf(n + 1) = None
  <2>1. \A r \in reviews : r.rev # n + 1
    BY <1>1 DEF IInv, VerdictHasItsReview
  <2> QED
    BY <2>1, ReadNext DEF VerdictsRead
<1>6. /\ Rounds \in Seq(LedgerRounds) /\ Len(Rounds) = n
      /\ \A i \in 1 .. n : Rounds[i] = [verdict |-> VerdictOf(i),
                                        lapsed |-> revisions[i].expired]
  BY ReadNext DEF RoundsRead
<1>7. /\ Rounds' \in Seq(LedgerRounds) /\ Len(Rounds') = n + 1
      /\ \A i \in 1 .. n + 1 : Rounds'[i] = [verdict |-> VerdictOf(i),
                                             lapsed |-> revisions'[i].expired]
  BY <1>3, <1>4, ReadNext DEF RoundsRead
<1>8. Rounds' = Append(Rounds, new)
  <2>1. new \in LedgerRounds
    BY DEF LedgerRounds
  <2> HIDE DEF new
  <2>2. /\ Append(Rounds, new) \in Seq(LedgerRounds)
        /\ Len(Append(Rounds, new)) = n + 1
        /\ Append(Rounds, new)[n + 1] = new
        /\ \A i \in 1 .. n : Append(Rounds, new)[i] = Rounds[i]
    BY <1>1, <1>6, <2>1, AppendProperties
  <2>3. Rounds'[n + 1] = new
    <3>1. n + 1 \in 1 .. n + 1
      BY <1>1
    <3>2. Rounds'[n + 1] = [verdict |-> VerdictOf(n + 1),
                            lapsed |-> revisions'[n + 1].expired]
      BY <3>1, <1>7
    <3>3. VerdictOf(n + 1) = None /\ revisions'[n + 1].expired = FALSE
      BY <1>2, <1>3, <1>5
    <3> QED
      BY <3>2, <3>3 DEF new
  <2>4. \A i \in 1 .. n : Rounds'[i] = Rounds[i]
    BY <1>1, <1>3, <1>6, <1>7
  <2>5. \A i \in 1 .. n + 1 : Rounds'[i] = Append(Rounds, new)[i]
    BY <1>1, <2>2, <2>3, <2>4
  <2> HIDE DEF n
  <2> QED
    BY <1>7, <2>2, <2>5, SeqEqual
<1>9. Phase \in {"draft", "open"} /\ Phase' = "waiting"
  BY PhaseIs DEF Opens, Phase
<1>10. Outcome' = None
  BY DEF Opens, Outcome
<1> QED
  BY <1>8, <1>9, <1>10 DEF Ledger!Submit

\* Whoever decides or closes a round finds the report waiting.
LEMMA AwaitsIsWaiting ==
    ASSUME AwaitsVerdict
    PROVE  Ledger!Waiting /\ Phase = "waiting"
BY PhaseIs DEF AwaitsVerdict, Outcome, Ledger!Waiting

\* A review decides the round of the revision it is of.
LEMMA DecidesRound ==
    ASSUME IInv, IInv', Decides
    PROVE  \E k \in 1 .. Len(Rounds), d \in Decisions : Ledger!Decide(k, d)
<1>1. PICK u \in Users, d \in Decisions, k \in 1 .. Len(revisions) :
        /\ AwaitsVerdict
        /\ \A r \in reviews : r.rev # k
        /\ reviews' = reviews \cup {[rev |-> k, by |-> u, decision |-> d]}
        /\ revisions' = revisions
        /\ report'.status = IF d = "REJECTED" THEN "REOPENED" ELSE "SUBMITTED"
        /\ report'.decision = d /\ report'.expired = FALSE
  BY DEF Decides
<1> DEFINE n == Len(revisions)
           round(i) == [verdict |-> VerdictOf(i), lapsed |-> revisions[i].expired]
<1>2. VerdictOf(k) = None
  BY <1>1, ReadNext DEF VerdictsRead
<1>3. VerdictOf(k)' = d
  <2> DEFINE r == [rev |-> k, by |-> u, decision |-> d]
  <2>1. r \in reviews' /\ r.rev = k /\ r.decision = d
    BY <1>1
  <2>2. \A q \in reviews' : VerdictOf(q.rev)' = q.decision
    BY ReadNext DEF VerdictsRead
  <2> QED
    BY <2>1, <2>2
<1>4. ASSUME NEW i \in 1 .. n, i # k PROVE VerdictOf(i)' = VerdictOf(i)
  <2>1. CASE \E r \in reviews : r.rev = i
    <3>1. PICK r \in reviews : r.rev = i
      BY <2>1
    <3>2. r \in reviews' /\ VerdictOf(r.rev)' = r.decision
      BY <1>1, ReadNext DEF VerdictsRead
    <3>3. VerdictOf(r.rev) = r.decision
      BY ReadNext DEF VerdictsRead
    <3> QED
      BY <3>1, <3>2, <3>3
  <2>2. CASE \A r \in reviews : r.rev # i
    <3>1. \A r \in reviews' : r.rev # i
      BY <1>1, <1>4, <2>2
    <3>2. VerdictOf(i)' = None
      BY <3>1, ReadNext DEF VerdictsRead
    <3>3. VerdictOf(i) = None
      BY <2>2, ReadNext DEF VerdictsRead
    <3> QED
      BY <3>2, <3>3
  <2> QED
    BY <2>1, <2>2
<1>5. /\ Rounds \in Seq(LedgerRounds) /\ Len(Rounds) = n
      /\ DOMAIN Rounds = 1 .. n
      /\ \A i \in 1 .. n : Rounds[i] = round(i)
  BY ReadNext DEF RoundsRead
<1>6. /\ DOMAIN Rounds' = 1 .. n
      /\ Rounds' \in Seq(LedgerRounds) /\ Len(Rounds') = n
      /\ \A i \in 1 .. n :
            Rounds'[i] = [verdict |-> VerdictOf(i)', lapsed |-> revisions[i].expired]
  BY <1>1, ReadNext DEF RoundsRead
<1>7. Rounds' = [Rounds EXCEPT ![k].verdict = d]
  <2> DEFINE new == [verdict |-> d, lapsed |-> revisions[k].expired]
  <2>1. [Rounds EXCEPT ![k].verdict = d] = [Rounds EXCEPT ![k] = new]
    <3>1. Rounds[k] = [verdict |-> VerdictOf(k), lapsed |-> revisions[k].expired]
      BY <1>5
    <3>2. [Rounds[k] EXCEPT !.verdict = d] = new
      BY <3>1, RoundFields
    <3> QED
      BY <3>2
  <2>2. ASSUME NEW i \in 1 .. n PROVE Rounds'[i] = [Rounds EXCEPT ![k] = new][i]
    <3>1. CASE i = k
      BY <1>3, <1>5, <1>6, <3>1
    <3>2. CASE i # k
      BY <1>4, <1>5, <1>6, <3>2
    <3> QED
      BY <3>1, <3>2
  <2>3. new \in LedgerRounds
    BY <1>3, <1>6, ElementOfSeq
  <2> HIDE DEF new
  <2>4. /\ [Rounds EXCEPT ![k] = new] \in Seq(LedgerRounds)
        /\ Len([Rounds EXCEPT ![k] = new]) = n
    BY <1>1, <1>5, <2>3, ExceptSeq
  <2>5. Rounds' = [Rounds EXCEPT ![k] = new]
    BY <1>6, <2>2, <2>4, SeqEqual
  <2> QED
    BY <2>1, <2>5
<1>8. Rounds[k].verdict = None
  BY <1>2, <1>5
<1>9. Outcome' = d
  BY <1>1 DEF Outcome
<1>10. Phase' = IF d = "REJECTED" THEN "open" ELSE "waiting"
  BY <1>1 DEF Phase
<1>11. Ledger!Waiting
  BY <1>1, AwaitsIsWaiting
<1>12. Ledger!Decide(k, d)
  BY <1>7, <1>8, <1>9, <1>10, <1>11 DEF Ledger!Decide
<1> QED
  BY <1>5, <1>12

\* The cron job ends the latest round.
LEMMA LapsesRound ==
    ASSUME IInv, IInv', Lapses
    PROVE  Ledger!Lapse
<1> DEFINE n == Len(revisions)
<1>1. revisions \in Seq(Revisions) /\ n \in 1 .. n /\ TypeOK
  <2>1. n \in Nat \ {0}
    BY EmptySeq DEF IInv, TypeOK, Lapses
  <2> QED
    BY <2>1 DEF IInv, TypeOK
<1>2. /\ Len(revisions') = n
      /\ \A i \in 1 .. n : revisions'[i] = IF i = n THEN Closed(revisions[i])
                                                    ELSE revisions[i]
  BY <1>1, CloseLatest DEF Lapses
<1>3. revisions'[n].expired = TRUE
  <2>1. revisions[n] \in Revisions /\ revisions'[n] = Closed(revisions[n])
    BY <1>1, <1>2, ElementOfSeq
  <2> QED
    BY <2>1 DEF Closed, Revisions
<1>4. \A i : VerdictOf(i)' = VerdictOf(i)
  BY DEF Lapses, VerdictOf
<1>5. /\ Rounds \in Seq(LedgerRounds) /\ Len(Rounds) = n
      /\ DOMAIN Rounds = 1 .. n
      /\ \A i \in 1 .. n : Rounds[i] = [verdict |-> VerdictOf(i),
                                        lapsed |-> revisions[i].expired]
  BY ReadNext DEF RoundsRead
<1>6. /\ Rounds' \in Seq(LedgerRounds) /\ Len(Rounds') = n
      /\ DOMAIN Rounds' = 1 .. n
      /\ \A i \in 1 .. n : Rounds'[i] = [verdict |-> VerdictOf(i),
                                         lapsed |-> revisions'[i].expired]
  BY <1>2, <1>4, ReadNext DEF RoundsRead
<1>7. Rounds' = [Rounds EXCEPT ![Len(Rounds)].lapsed = TRUE]
  <2> DEFINE new == [verdict |-> VerdictOf(n), lapsed |-> TRUE]
  <2>1. [Rounds EXCEPT ![n].lapsed = TRUE] = [Rounds EXCEPT ![n] = new]
    <3>1. Rounds[n] = [verdict |-> VerdictOf(n), lapsed |-> revisions[n].expired]
      BY <1>1, <1>5
    <3>2. [Rounds[n] EXCEPT !.lapsed = TRUE] = new
      BY <3>1, RoundFields
    <3> QED
      BY <3>2
  <2>2. Rounds'[n] = new
    BY <1>1, <1>3, <1>6
  <2>3. new \in LedgerRounds
    BY <1>1, <1>6, <2>2, ElementOfSeq
  <2>4. ASSUME NEW i \in 1 .. n PROVE Rounds'[i] = [Rounds EXCEPT ![n] = new][i]
    <3>1. CASE i = n
      BY <1>5, <2>2, <3>1
    <3>2. CASE i # n
      BY <1>2, <1>5, <1>6, <3>2
    <3> QED
      BY <3>1, <3>2
  <2> HIDE DEF new, n
  <2>5. /\ [Rounds EXCEPT ![n] = new] \in Seq(LedgerRounds)
        /\ Len([Rounds EXCEPT ![n] = new]) = n
    BY <1>1, <1>5, <2>3, ExceptSeq
  <2>6. Rounds' = [Rounds EXCEPT ![n] = new]
    BY <1>6, <2>4, <2>5, SeqEqual
  <2> QED
    BY <1>5, <2>1, <2>6
<1>8. Outcome' = "OVERDUE" /\ Phase' = "waiting"
  BY DEF Lapses, Outcome, Phase
<1>9. Ledger!Waiting /\ Phase = "waiting"
  BY AwaitsIsWaiting DEF Lapses
<1> QED
  BY <1>7, <1>8, <1>9 DEF Ledger!Lapse

\* Reopening and archiving keep the rounds and what the report shows.
LEMMA TurnsPhase ==
    ASSUME Turns
    PROVE  Ledger!Reopen \/ Ledger!Archive \/ UNCHANGED Ledger!vars
<1>1. Rounds' = Rounds /\ Outcome' = Outcome
  BY DEF Turns, Rounds, VerdictOf, Outcome
<1>2. CASE report.status = "SUBMITTED" /\ report'.status = "REOPENED"
  BY <1>1, <1>2 DEF Phase, Ledger!Reopen
<1>3. CASE report.status = "REOPENED" /\ report'.status = "REOPENED"
  BY <1>1, <1>3 DEF Phase, Ledger!vars
<1>4. CASE report.status # "ARCHIVED" /\ report'.status = "ARCHIVED"
  <2>1. Phase' = "archived"
    BY <1>4 DEF Phase
  <2>2. CASE Phase = "archived"
    BY <1>1, <2>1, <2>2 DEF Ledger!vars
  <2>3. CASE Phase # "archived"
    BY <1>1, <2>1, <2>3 DEF Ledger!Archive
  <2> QED
    BY <2>2, <2>3
<1> QED
  BY <1>2, <1>3, <1>4 DEF Turns

\* Every step is a step of the ledger or leaves it alone.
LEMMA LedgerStep == IInv /\ IInv' /\ [Next]_vars => [Ledger!Next]_Ledger!vars
<1> SUFFICES ASSUME IInv, IInv', [Next]_vars PROVE [Ledger!Next]_Ledger!vars
  OBVIOUS
<1>1. CASE Opens
  BY <1>1, OpensRound DEF Ledger!Next
<1>2. CASE Decides
  BY <1>2, DecidesRound DEF Ledger!Next
<1>3. CASE Lapses
  BY <1>3, LapsesRound DEF Ledger!Next
<1>4. CASE Turns
  BY <1>4, TurnsPhase DEF Ledger!Next
<1>5. CASE Rests
  BY <1>5 DEF Rests, Ledger!vars, Phase, Rounds, VerdictOf, Outcome
<1> QED
  BY <1>1, <1>2, <1>3, <1>4, <1>5, StepKinds

\* The requests, the cron job and the scope's changes, in whatever order they
\* interleave, make of the report the ledger of rounds that ReviewLedger
\* describes: a round closed once at most, by a verdict or by the end of its
\* window, and an outcome that stays until the next submission.
THEOREM LedgerImplemented == Spec => ImplementsLedger
BY LedgerInit, LedgerStep, Safety, PTL DEF Spec, ImplementsLedger, Ledger!Spec

=============================================================================
