----------------------- MODULE DiscordNotifier_proofs -----------------------
(***************************************************************************)
(* Proofs about DiscordNotifier for every interval, set of events and      *)
(* number of timers.  TypeOK, TimerClosesWindow and EventsKept are         *)
(* inductive together.                                                     *)
(***************************************************************************)
EXTENDS DiscordNotifier, TLAPS

Inv == TypeOK /\ TimerClosesWindow /\ EventsKept

LEMMA FreeType == Free \in Timer /\ <<>> \in Seq(Events)
<1>1. Free \in Timer
  BY MinIntervalAssumption DEF Free, Timer
<1>2. <<>> \in Seq(Events)
  OBVIOUS
<1> QED
  BY <1>1, <1>2

LEMMA StepType == TypeOK /\ [Next]_vars => TypeOK'
<1> SUFFICES ASSUME TypeOK, [Next]_vars PROVE TypeOK'
  OBVIOUS
<1> USE MinIntervalAssumption DEF TypeOK
<1>1. ASSUME NEW e \in Events, NotifyNow(e) PROVE TypeOK'
  BY <1>1, FreeType DEF NotifyNow, TakeBatch, Stopped
<1>2. ASSUME NEW e \in Events, NotifyLater(e) PROVE TypeOK'
  BY <1>2 DEF NotifyLater, Arm, Timer
<1>3. ASSUME NEW t \in TimerIds, Fire(t) PROVE TypeOK'
  BY <1>3 DEF Fire, Timer
<1>4. ASSUME NEW t \in TimerIds, Flush(t) PROVE TypeOK'
  <2>1. timers' \in [TimerIds -> Timer]
    BY <1>4, FreeType DEF Flush
  <2>2. CASE pending = <<>>
    BY <1>4, <2>1, <2>2 DEF Flush
  <2>3. CASE pending # <<>>
    BY <1>4, <2>1, <2>3, FreeType DEF Flush, TakeBatch
  <2> QED
    BY <2>2, <2>3
<1>5. ASSUME NEW batch \in posting, Post(batch) PROVE TypeOK'
  BY <1>5 DEF Post, ToSet
<1>6. CASE Tick
  BY <1>6 DEF Tick, Timer
<1>7. CASE Exit
  BY <1>7 DEF Exit
<1>8. CASE UNCHANGED vars
  BY <1>8 DEF vars
<1> QED
  BY <1>1, <1>2, <1>3, <1>4, <1>5, <1>6, <1>7, <1>8 DEF Next

LEMMA StepWindow ==
    ASSUME TypeOK, TimerClosesWindow, [Next]_vars PROVE TimerClosesWindow'
<1> USE MinIntervalAssumption, NoTimerAssumption DEF TypeOK, TimerClosesWindow
<1>1. ASSUME NEW e \in Events, NotifyNow(e) PROVE TimerClosesWindow'
  BY <1>1 DEF NotifyNow, TakeBatch
<1>2. ASSUME NEW e \in Events, NotifyLater(e) PROVE TimerClosesWindow'
  <2>1. CASE timer = NoTimer
    <3> PICK t \in TimerIds : Arm(t)
      BY <1>2, <2>1 DEF NotifyLater
    <3> QED
      BY <1>2 DEF NotifyLater, Arm
  <2>2. CASE timer # NoTimer
    BY <1>2, <2>2 DEF NotifyLater
  <2> QED
    BY <2>1, <2>2
<1>3. ASSUME NEW t \in TimerIds, Fire(t) PROVE TimerClosesWindow'
  BY <1>3 DEF Fire, Timer
<1>4. ASSUME NEW t \in TimerIds, Flush(t) PROVE TimerClosesWindow'
  BY <1>4 DEF Flush, TakeBatch
<1>5. ASSUME NEW batch \in posting, Post(batch) PROVE TimerClosesWindow'
  BY <1>5 DEF Post
<1>6. CASE Tick
  BY <1>6 DEF Tick, Timer
<1>7. CASE Exit
  BY <1>7 DEF Exit
<1>8. CASE UNCHANGED vars
  BY <1>8 DEF vars
<1> QED
  BY <1>1, <1>2, <1>3, <1>4, <1>5, <1>6, <1>7, <1>8 DEF Next

-----------------------------------------------------------------------------
(* Appending a new event to a batch. *)
LEMMA AppendBatch ==
    ASSUME NEW s \in Seq(Events), NEW e \in Events
    PROVE  /\ ToSet(Append(s, e)) = ToSet(s) \cup {e}
           /\ IsInjective(s) /\ e \notin ToSet(s) => IsInjective(Append(s, e))
           /\ Append(s, e) # <<>>
<1>1. /\ Len(Append(s, e)) = Len(s) + 1
      /\ \A i \in 1 .. Len(s) : Append(s, e)[i] = s[i]
      /\ Append(s, e)[Len(s) + 1] = e
      /\ DOMAIN Append(s, e) = 1 .. Len(s) + 1
      /\ DOMAIN s = 1 .. Len(s)
      /\ Len(s) \in Nat
  OBVIOUS
<1>2. ToSet(Append(s, e)) = ToSet(s) \cup {e}
  BY <1>1 DEF ToSet
<1>3. ASSUME IsInjective(s), e \notin ToSet(s) PROVE IsInjective(Append(s, e))
  BY <1>1, <1>3 DEF ToSet, IsInjective
<1> QED
  BY <1>1, <1>2, <1>3

LEMMA EmptyBatch == ToSet(<<>>) = {} /\ IsInjective(<<>>)
BY DEF ToSet, IsInjective

(* How the set of events being posted changes. *)
LEMMA PostSame == posting' = posting => InPost' = InPost
BY DEF InPost

LEMMA PostMore ==
    ASSUME NEW b \in Seq(Events), posting' = posting \cup {b}
    PROVE  ToSet(b) \subseteq Events /\ InPost' = InPost \cup ToSet(b)
<1>1. ToSet(b) \subseteq Events
  BY DEF ToSet
<1> QED
  BY <1>1 DEF InPost

LEMMA StepKept ==
    ASSUME TypeOK, EventsKept, [Next]_vars PROVE EventsKept'
<1>1. ASSUME NEW e \in Events, NotifyNow(e) PROVE EventsKept'
  <2> DEFINE b == Append(pending, e)
  <2>1. /\ ToSet(b) = ToSet(pending) \cup {e}
        /\ IsInjective(b) /\ b # <<>> /\ b \in Seq(Events)
    BY <1>1, AppendBatch DEF NotifyNow, EventsKept, TypeOK
  <2>2. /\ posting' = posting \cup {b} /\ pending' = <<>>
        /\ logged' = logged \cup {e} /\ posted' = posted
        /\ e \notin logged
    BY <1>1 DEF NotifyNow, TakeBatch
  <2> HIDE DEF b
  <2>3. /\ ToSet(b) \cap posted = {}
        /\ \A c \in posting : ToSet(b) \cap ToSet(c) = {}
    <3>1. e \notin posted /\ \A c \in posting : e \notin ToSet(c)
      BY <2>2 DEF EventsKept, InPost
    <3>2. ToSet(pending) \cap posted = {}
      BY DEF EventsKept
    <3>3. \A c \in posting : ToSet(c) \cap ToSet(pending) = {}
      BY DEF EventsKept
    <3> QED
      BY <2>1, <3>1, <3>2, <3>3
  <2>4. logged' = ToSet(pending') \cup InPost' \cup posted'
    BY <2>1, <2>2, EmptyBatch, PostMore DEF EventsKept
  <2>5. /\ \A c \in posting' \cup {pending'} : IsInjective(c) /\ ToSet(c) \cap posted' = {}
        /\ \A c \in posting' : c # <<>> /\ ToSet(c) \cap ToSet(pending') = {}
    BY <2>1, <2>2, <2>3, EmptyBatch DEF EventsKept
  <2>6. \A c, d \in posting' : c # d => ToSet(c) \cap ToSet(d) = {}
    BY <2>2, <2>3 DEF EventsKept
  <2> QED
    BY <2>4, <2>5, <2>6 DEF EventsKept
<1>2. ASSUME NEW e \in Events, NotifyLater(e) PROVE EventsKept'
  <2> DEFINE b == Append(pending, e)
  <2>1. /\ ToSet(b) = ToSet(pending) \cup {e}
        /\ IsInjective(b)
    BY <1>2, AppendBatch DEF NotifyLater, EventsKept, TypeOK
  <2>2. /\ posting' = posting /\ pending' = b
        /\ logged' = logged \cup {e} /\ posted' = posted
        /\ e \notin logged
    BY <1>2 DEF NotifyLater
  <2> HIDE DEF b
  <2>3. logged' = ToSet(pending') \cup InPost' \cup posted'
    BY <2>1, <2>2, PostSame DEF EventsKept
  <2>4. \A c \in posting : e \notin ToSet(c)
    BY <2>2 DEF EventsKept, InPost
  <2>5. /\ \A c \in posting' \cup {pending'} : IsInjective(c) /\ ToSet(c) \cap posted' = {}
        /\ \A c \in posting' : c # <<>> /\ ToSet(c) \cap ToSet(pending') = {}
    BY <2>1, <2>2, <2>4 DEF EventsKept
  <2> QED
    BY <2>2, <2>3, <2>5 DEF EventsKept
<1>3. ASSUME NEW t \in TimerIds, Fire(t) PROVE EventsKept'
  BY <1>3, PostSame DEF Fire, EventsKept
<1>4. ASSUME NEW t \in TimerIds, Flush(t) PROVE EventsKept'
  <2>1. CASE pending = <<>>
    BY <1>4, <2>1, PostSame DEF Flush, EventsKept
  <2>2. CASE pending # <<>>
    <3>1. /\ posting' = posting \cup {pending} /\ pending' = <<>>
          /\ logged' = logged /\ posted' = posted
      BY <1>4, <2>2 DEF Flush, TakeBatch
    <3>2. logged' = ToSet(pending') \cup InPost' \cup posted'
      BY <3>1, EmptyBatch, PostMore DEF EventsKept, TypeOK
    <3>a. \A c \in posting' : IsInjective(c) /\ ToSet(c) \cap posted' = {} /\ c # <<>>
      BY <2>2, <3>1 DEF EventsKept
    <3>3. /\ \A c \in posting' \cup {pending'} : IsInjective(c) /\ ToSet(c) \cap posted' = {}
          /\ \A c \in posting' : c # <<>> /\ ToSet(c) \cap ToSet(pending') = {}
      BY <3>a, <3>1, EmptyBatch
    <3>4. \A c, d \in posting' : c # d => ToSet(c) \cap ToSet(d) = {}
      BY <3>1 DEF EventsKept
    <3> QED
      BY <3>2, <3>3, <3>4 DEF EventsKept
  <2> QED
    BY <2>1, <2>2
<1>5. ASSUME NEW batch \in posting, Post(batch) PROVE EventsKept'
  <2>1. /\ posting' = posting \ {batch} /\ posted' = posted \cup ToSet(batch)
        /\ logged' = logged /\ pending' = pending
    BY <1>5 DEF Post
  <2>2. logged' = ToSet(pending') \cup InPost' \cup posted'
    <3>1. ToSet(batch) \subseteq Events
      BY <1>5 DEF TypeOK, ToSet
    <3>2. InPost = InPost' \cup ToSet(batch)
      BY <1>5, <2>1, <3>1 DEF InPost
    <3> QED
      BY <2>1, <3>2 DEF EventsKept
  <2>3. \A b \in posting' \cup {pending'} : IsInjective(b) /\ ToSet(b) \cap posted' = {}
    BY <2>1 DEF EventsKept
  <2> QED
    BY <2>1, <2>2, <2>3 DEF EventsKept
<1>6. CASE Tick
  BY <1>6, PostSame DEF Tick, EventsKept
<1>7. CASE Exit
  BY <1>7, PostSame DEF Exit, EventsKept
<1>8. CASE UNCHANGED vars
  BY <1>8, PostSame DEF vars, EventsKept
<1> QED
  BY <1>1, <1>2, <1>3, <1>4, <1>5, <1>6, <1>7, <1>8 DEF Next

-----------------------------------------------------------------------------
LEMMA InitInv == Init => Inv
<1> SUFFICES ASSUME Init PROVE Inv
  OBVIOUS
<1>1. TypeOK
  <2>1. elapsed \in 0 .. MinInterval
    BY MinIntervalAssumption DEF Init
  <2>2. timers \in [TimerIds -> Timer] /\ pending \in Seq(Events)
    BY FreeType DEF Init
  <2> QED
    BY <2>1, <2>2 DEF Init, TypeOK
<1>2. TimerClosesWindow
  BY DEF Init, TimerClosesWindow
<1>3. EventsKept
  BY EmptyBatch DEF Init, EventsKept, InPost
<1> QED
  BY <1>1, <1>2, <1>3 DEF Inv

(***************************************************************************)
(* The three invariants hold in every reachable state.                     *)
(***************************************************************************)
THEOREM NotifierInvariant == Spec => []Inv
<1>1. Inv /\ [Next]_vars => Inv'
  BY StepType, StepWindow, StepKept DEF Inv
<1> QED
  BY <1>1, InitInv, PTL DEF Spec

(* The types of the notifier's state. *)
THEOREM NotifierTypeOK == Spec => []TypeOK
BY NotifierInvariant, PTL DEF Inv

(* Every event is in exactly one batch until its post has ended. *)
THEOREM NotifierKeepsEvents == Spec => []EventsKept
BY NotifierInvariant, PTL DEF Inv

(* A pending batch always has a timer due when the window closes. *)
THEOREM NotifierTimer == Spec => []TimerClosesWindow
BY NotifierInvariant, PTL DEF Inv

(* Only the goroutine of a forgotten timer posts within the window. *)
THEOREM NotifierGap == Spec => EarlyOnlyByOrphan
<1> DEFINE Late == posting \subseteq posting' /\ posting' # posting =>
              \/ elapsed = MinInterval
              \/ \E t \in TimerIds \ {timer} : timers[t].state = "fired"
<1>1. ASSUME Inv, [Next]_vars PROVE [Late]_vars
  <2>1. ASSUME NEW e \in Events, NotifyNow(e) PROVE Late
    BY <1>1, <2>1, MinIntervalAssumption DEF Inv, TypeOK, NotifyNow
  <2>2. ASSUME NEW e \in Events, NotifyLater(e) PROVE Late
    BY <2>2 DEF NotifyLater
  <2>3. ASSUME NEW t \in TimerIds, Fire(t) PROVE Late
    BY <2>3 DEF Fire
  <2>4. ASSUME NEW t \in TimerIds, Flush(t) PROVE Late
    <3>1. timers[t].state = "fired"
      BY <2>4 DEF Flush
    <3>2. CASE t = timer
      BY <1>1, <3>1, <3>2, NoTimerAssumption DEF Inv, TimerClosesWindow
    <3>3. CASE t # timer
      BY <3>1, <3>3
    <3> QED
      BY <3>2, <3>3
  <2>5. ASSUME NEW batch \in posting, Post(batch) PROVE Late
    BY <2>5 DEF Post
  <2>6. CASE Tick
    BY <2>6 DEF Tick
  <2>7. CASE Exit
    BY <2>7 DEF Exit
  <2>8. CASE UNCHANGED vars
    BY <2>8
  <2> QED
    BY <1>1, <2>1, <2>2, <2>3, <2>4, <2>5, <2>6, <2>7, <2>8 DEF Next
<1> QED
  BY <1>1, NotifierInvariant, PTL DEF Spec, EarlyOnlyByOrphan
=============================================================================
