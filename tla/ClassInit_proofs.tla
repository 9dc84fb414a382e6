--------------------------- MODULE ClassInit_proofs ---------------------------
(***************************************************************************)
(* For any classes, superclasses and uses, and any number of threads: a    *)
(* class is initialised once, after its superclass, the threads that wait  *)
(* for it are notified, and its state changes only inside its monitor.     *)
(***************************************************************************)
EXTENDS ClassInit, Monitors_proofs

Statuses == {"UNINITIALIZED", "INITIALIZED", "ERRONEOUS"}
Throwables == {NULL, "Throwable", "ExceptionInInitializerError"}
\* The stages of the thread that pInitializingThread names, and those inside the monitor.
InCharge == {"MARKED", "COMPLETED_SUPER_CLINIT", "RUNNING", "COMPLETED_CLINIT", "FAILED",
             "ENTERED_MONITOR_UPON_COMPLETION", "ENTERED_MONITOR_UPON_FAILURE"}
Holding == {"ENTERED_MONITOR", "ENTERED_MONITOR_UPON_COMPLETION", "ENTERED_MONITOR_UPON_FAILURE",
            "NOTIFY", "EXIT"}
Stages == {"INITIAL_STAGE"} \cup InCharge \cup Holding
Frame == [class : Class, stage : Stages, thrownThrowable : Throwables]

ClassTypeOK ==
    /\ initializationStatus \in [Class -> Statuses]
    /\ pInitializingThread \in [Class -> Thread \cup {NULL}]
    /\ stack \in [Thread -> Seq(Frame)]
    /\ thrown \in [Thread -> Throwables]
    /\ runs \in [Class -> Nat]

\* The superclass of the class of frame k is there: initialised, or being
\* initialised by the same thread, further down its stack.
SuperReady(s, k, S) ==
    LET above == pSuperClass[s[k].class]
    IN  \/ above = NULL
        \/ S[above] = "INITIALIZED"
        \/ \E j \in 1 .. k : s[j].class = above /\ s[j].stage \in InCharge

\* Frame k of the stack s of thread t, when P, S and R are the initialising
\* threads, the statuses and the runs of the classes.
FrameOK(t, s, k, P, S, R) ==
    LET f == s[k]
    IN  /\ k < Len(s) => f.stage \in {"RUNNING", "COMPLETED_SUPER_CLINIT"}
        /\ k < Len(s) /\ f.stage = "COMPLETED_SUPER_CLINIT" =>
              f.thrownThrowable = NULL /\ s[k + 1].class = pSuperClass[f.class]
        /\ f.stage \in InCharge => P[f.class] = t /\ S[f.class] = "UNINITIALIZED"
        /\ f.stage \in {"MARKED", "COMPLETED_SUPER_CLINIT"} => R[f.class] = 0
        /\ f.stage = "RUNNING" => SuperReady(s, k, S)
        /\ f.stage \in {"INITIAL_STAGE", "ENTERED_MONITOR", "MARKED"} => f.thrownThrowable = NULL
        /\ f.stage \in {"FAILED", "ENTERED_MONITOR_UPON_FAILURE"} => f.thrownThrowable # NULL
        /\ f.stage \in {"NOTIFY", "EXIT"} /\ f.thrownThrowable = NULL => S[f.class] = "INITIALIZED"
        /\ \A j \in 1 .. Len(s) :
              s[j].stage \in InCharge /\ f.stage \in InCharge /\ s[j].class = f.class => j = k

\* A frame whose superclass has returned to it goes on only if that succeeded.
TopOK(s, S) ==
    s # <<>> /\ s[Len(s)].stage = "COMPLETED_SUPER_CLINIT" /\ s[Len(s)].thrownThrowable = NULL
        => SuperReady(s, Len(s), S)

FramesOK(t, s, P, S, R) == \A k \in 1 .. Len(s) : FrameOK(t, s, k, P, S, R)
StackOK(t, s, P, S, R) == FramesOK(t, s, P, S, R) /\ TopOK(s, S)

\* The initialising thread of a class has a frame that is in charge of it.
ChargeOK(c, t, s) == \E k \in 1 .. Len(s) : s[k].class = c /\ s[k].stage \in InCharge

RunsOK(c, P, S, R) == R[c] <= 1 /\ (P[c] = NULL /\ S[c] = "UNINITIALIZED" => R[c] = 0)

StacksInv ==
    /\ \A t \in Thread : StackOK(t, stack[t], pInitializingThread, initializationStatus, runs)
    /\ \A t \in Thread : thrown[t] # NULL => Stage(t) \in {"NONE", "RUNNING"}
    /\ \A c \in Class : pInitializingThread[c] # NULL =>
                            ChargeOK(c, pInitializingThread[c], stack[pInitializingThread[c]])
    /\ \A c \in Class : RunsOK(c, pInitializingThread, initializationStatus, runs)

\* A thread whose frame is inside the monitor of its class entered it.
HoldingInv == \A t \in Thread : Stage(t) \in Holding => inside[t][ClassOf(t)] > 0

OwnInv == ClassTypeOK /\ StacksInv /\ HoldingInv /\ WaitersWillBeNotified
ClassInv == IInv /\ OwnInv

\* Only the thread that owns the monitor of a class changes its state, while it
\* executes its program; the status changes once, by the thread that marked it.
StateIsGuarded ==
    [][\A c \in Class :
          /\ <<initializationStatus[c], pInitializingThread[c]>>'
                # <<initializationStatus[c], pInitializingThread[c]>>
                => owner[c] # NULL /\ Ready(owner[c])
          /\ initializationStatus'[c] # initializationStatus[c] =>
                initializationStatus[c] = "UNINITIALIZED" /\ pInitializingThread[c] = owner[c]
          /\ pInitializingThread'[c] # pInitializingThread[c] =>
                (pInitializingThread[c] = NULL /\ pInitializingThread'[c] = owner[c])
                  \/ (pInitializingThread[c] = owner[c] /\ pInitializingThread'[c] = NULL)]_allVars

-----------------------------------------------------------------------------
(* The internal frames of a thread, as sequences. *)

\* An assignment to a field of the newest frame.
LEMMA NewestReplaced ==
    ASSUME NEW s \in Seq(Frame), s # <<>>, NEW f \in Frame
    PROVE  LET s2 == [s EXCEPT ![Len(s)] = f]
           IN  /\ s2 \in Seq(Frame) /\ s2 # <<>> /\ Len(s2) = Len(s)
               /\ \A k \in 1 .. Len(s) : s2[k] = IF k = Len(s) THEN f ELSE s[k]
<1> DEFINE s2 == [s EXCEPT ![Len(s)] = f]
<1>1. Len(s) \in Nat \ {0} /\ Len(s) \in 1 .. Len(s)
  BY EmptySeq, SMT
<1>2. /\ s2 \in Seq(Frame) /\ Len(s2) = Len(s)
      /\ \A k \in 1 .. Len(s) : s2[k] = IF k = Len(s) THEN f ELSE s[k]
  BY <1>1, ExceptSeq
<1>3. s2 # <<>>
  BY <1>1, <1>2, EmptySeq, SMT
<1> QED BY <1>2, <1>3

\* The newest frame is there, and the frames below it.
LEMMA NewestFrame ==
    ASSUME NEW s \in Seq(Frame), s # <<>>
    PROVE  /\ Len(s) \in Nat \ {0} /\ Last(s) = s[Len(s)] /\ Last(s) \in Frame
           /\ Front(s) \in Seq(Frame) /\ Len(Front(s)) = Len(s) - 1
           /\ \A k \in 1 .. Len(s) - 1 : Front(s)[k] = s[k]
<1>1. Len(s) \in Nat \ {0}
  BY EmptySeq, SMT
<1>2. s[Len(s)] \in Frame
  BY <1>1, SMT
<1>3. Front(s) = SubSeq(s, 1, Len(s) - 1)
  BY DEF Front
<1>4. /\ SubSeq(s, 1, Len(s) - 1) \in Seq(Frame) /\ Len(SubSeq(s, 1, Len(s) - 1)) = Len(s) - 1
      /\ \A k \in 1 .. Len(s) - 1 : SubSeq(s, 1, Len(s) - 1)[k] = s[k]
  <2> DEFINE n == Len(s) - 1
             q == SubSeq(s, 1, n)
  <2>1. 1 \in Int /\ n \in Nat /\ n \in Int /\ \A k \in 1 .. n : s[k] \in Frame
    BY <1>1, SMT
  <2> HIDE DEF n
  <2>2. /\ q \in Seq(Frame)
        /\ Len(q) = IF 1 <= n THEN n - 1 + 1 ELSE 0
        /\ \A k \in 1 .. n - 1 + 1 : q[k] = s[1 + k - 1]
    BY <2>1, SubSeqProperties
  <2> HIDE DEF q
  <2>3. Len(q) = n
    BY <2>1, <2>2, SMT
  <2>4. \A k \in 1 .. n : q[k] = s[k]
    BY <2>1, <2>2, SMT
  <2> QED BY <2>2, <2>3, <2>4 DEF q, n
<1> QED BY <1>1, <1>2, <1>3, <1>4 DEF Last

\* An internal frame is pushed.
LEMMA FrameAdded ==
    ASSUME NEW s \in Seq(Frame), NEW f \in Frame
    PROVE  LET s2 == Append(s, f)
           IN  /\ s2 \in Seq(Frame) /\ s2 # <<>> /\ Len(s2) = Len(s) + 1 /\ Len(s) \in Nat
               /\ s2[Len(s) + 1] = f
               /\ \A k \in 1 .. Len(s) : s2[k] = s[k]
<1>1. /\ Append(s, f) \in Seq(Frame) /\ Len(Append(s, f)) = Len(s) + 1 /\ Len(s) \in Nat
      /\ Append(s, f)[Len(s) + 1] = f
      /\ \A k \in 1 .. Len(s) : Append(s, f)[k] = s[k]
  BY SMT
<1>2. Append(s, f) # <<>>
  BY <1>1, EmptySeq, SMT
<1> QED BY <1>1, <1>2

\* What InitializeSuper writes: its own frame, and one for the superclass.
LEMMA FrontAndFrames ==
    ASSUME NEW s \in Seq(Frame), s # <<>>, NEW f \in Frame, NEW g \in Frame
    PROVE  /\ Front(s) \o <<f>> = [s EXCEPT ![Len(s)] = f]
           /\ Front(s) \o <<f, g>> = Append([s EXCEPT ![Len(s)] = f], g)
<1> DEFINE b == Front(s)
           n == Len(s)
           r == [s EXCEPT ![Len(s)] = f]
<1>1. /\ n \in Nat \ {0} /\ b \in Seq(Frame) /\ Len(b) = n - 1
      /\ \A k \in 1 .. n - 1 : b[k] = s[k]
  BY NewestFrame
<1>2. r \in Seq(Frame) /\ Len(r) = n /\ \A k \in 1 .. n : r[k] = IF k = n THEN f ELSE s[k]
  BY NewestReplaced
<1> HIDE DEF b, n, r
<1>3. b \o <<f>> = r
  <2>1. b \o <<f>> \in Seq(Frame) /\ Len(b \o <<f>>) = n
    BY <1>1, SMT
  <2>2. \A k \in 1 .. n : (b \o <<f>>)[k] = r[k]
    BY <1>1, <1>2, SMT
  <2> QED BY <1>2, <2>1, <2>2, SeqEqual
<1>4. b \o <<f, g>> = Append(r, g)
  <2>1. /\ b \o <<f, g>> \in Seq(Frame) /\ Len(b \o <<f, g>>) = n + 1
        /\ Append(r, g) \in Seq(Frame) /\ Len(Append(r, g)) = n + 1
    BY <1>1, <1>2, SMT
  <2>2. \A k \in 1 .. n + 1 : (b \o <<f, g>>)[k] = Append(r, g)[k]
    BY <1>1, <1>2, SMT
  <2> QED BY <2>1, <2>2, SeqEqual
<1> QED BY <1>3, <1>4 DEF b, r

-----------------------------------------------------------------------------
(* The stack of the thread that takes a step, and those of the others. *)

\* What one step leaves to the frames of a thread that is in charge of none of the
\* classes whose state changed: the initialised classes stay so.
KeptFor(t, P, S, R, P2, S2, R2) ==
    \A c \in Class : P[c] = t \/ S[c] = "INITIALIZED" => P2[c] = P[c] /\ S2[c] = S[c] /\ R2[c] = R[c]

\* A stack stays right while what it relies on stays so.
LEMMA StackKept ==
    ASSUME NEW t \in Thread, NEW s \in Seq(Frame),
           NEW P, NEW S, NEW R, NEW P2, NEW S2, NEW R2,
           StackOK(t, s, P, S, R), KeptFor(t, P, S, R, P2, S2, R2)
    PROVE  StackOK(t, s, P2, S2, R2)
<1>1. /\ Len(s) \in Nat
      /\ \A k \in 1 .. Len(s) : s[k].class \in Class /\ pSuperClass[s[k].class] \in Class \cup {NULL}
  <2>1. Len(s) \in Nat /\ \A k \in 1 .. Len(s) : s[k] \in Frame
    BY SMT
  <2>2. \A f \in Frame : f.class \in Class /\ pSuperClass[f.class] \in Class \cup {NULL}
    BY ClassInitAssumption DEF Frame
  <2> QED BY <2>1, <2>2
<1>2. ASSUME NEW k \in 1 .. Len(s), SuperReady(s, k, S) PROVE SuperReady(s, k, S2)
  BY <1>1, <1>2 DEF SuperReady, KeptFor
<1>3. ASSUME NEW k \in 1 .. Len(s) PROVE FrameOK(t, s, k, P2, S2, R2)
  <2> DEFINE c == s[k].class
  <2>1. FrameOK(t, s, k, P, S, R) /\ c \in Class
    BY <1>1 DEF StackOK, FramesOK
  <2>2. s[k].stage \in InCharge => P2[c] = P[c] /\ S2[c] = S[c] /\ R2[c] = R[c]
    BY <2>1 DEF FrameOK, KeptFor
  <2>3. S[c] = "INITIALIZED" => S2[c] = "INITIALIZED"
    BY <2>1 DEF KeptFor
  <2>4. {"MARKED", "COMPLETED_SUPER_CLINIT"} \subseteq InCharge
    BY DEF InCharge
  <2> QED BY <1>2, <2>1, <2>2, <2>3, <2>4 DEF FrameOK
<1>4. TopOK(s, S2)
  <2>1. s # <<>> => Len(s) \in 1 .. Len(s)
    BY <1>1, EmptySeq, SMT
  <2> QED BY <1>2, <2>1 DEF StackOK, TopOK
<1> QED BY <1>3, <1>4 DEF StackOK, FramesOK

\* The conditions on the newest frame of a stack.
NewestOK(t, s, P, S, R) ==
    LET k == Len(s)
        f == s[k]
    IN  /\ f.stage \in InCharge => P[f.class] = t /\ S[f.class] = "UNINITIALIZED"
        /\ f.stage \in {"MARKED", "COMPLETED_SUPER_CLINIT"} => R[f.class] = 0
        /\ f.stage = "RUNNING" => SuperReady(s, k, S)
        /\ f.stage \in {"INITIAL_STAGE", "ENTERED_MONITOR", "MARKED"} => f.thrownThrowable = NULL
        /\ f.stage \in {"FAILED", "ENTERED_MONITOR_UPON_FAILURE"} => f.thrownThrowable # NULL
        /\ f.stage \in {"NOTIFY", "EXIT"} /\ f.thrownThrowable = NULL => S[f.class] = "INITIALIZED"

\* A stage changes, and with it the state of the class: the frames below keep what
\* they have, for none of them is in charge of that class.
LEMMA StageChanged ==
    ASSUME NEW t \in Thread, NEW s \in Seq(Frame), s # <<>>, NEW f \in Frame,
           NEW P, NEW S, NEW R, NEW P2, NEW S2, NEW R2,
           FramesOK(t, s, P, S, R), f.class = s[Len(s)].class,
           \A d \in Class \ {f.class} : P2[d] = P[d] /\ S2[d] = S[d] /\ R2[d] = R[d],
           S[f.class] = "INITIALIZED" => S2[f.class] = "INITIALIZED",
           \/ s[Len(s)].stage \in InCharge
           \/ P[f.class] # t
           \/ /\ P2[f.class] = P[f.class] /\ S2[f.class] = S[f.class]
              /\ R2[f.class] = R[f.class] /\ f.stage \notin InCharge,
           NewestOK(t, [s EXCEPT ![Len(s)] = f], P2, S2, R2)
    PROVE  FramesOK(t, [s EXCEPT ![Len(s)] = f], P2, S2, R2)
<1> DEFINE n == Len(s)
           q == [s EXCEPT ![Len(s)] = f]
           c == f.class
<1>1. /\ q \in Seq(Frame) /\ Len(q) = n
      /\ \A k \in 1 .. n : q[k] = IF k = n THEN f ELSE s[k]
  BY NewestReplaced
<1>2. /\ n \in Nat \ {0} /\ \A k \in 1 .. n : s[k] \in Frame
      /\ \A g \in Frame : g.class \in Class /\ pSuperClass[g.class] \in Class \cup {NULL}
  <2>1. \A g \in Frame : g.class \in Class /\ pSuperClass[g.class] \in Class \cup {NULL}
    BY ClassInitAssumption DEF Frame
  <2> QED BY <2>1, EmptySeq, SMT
<1>3. NewestOK(t, q, P2, S2, R2) /\ f.class = s[n].class
  OBVIOUS
<1> HIDE DEF n, q
<1>4. n \in 1 .. n /\ q[n] = f
  BY <1>1, <1>2, SMT
<1>5. \A k \in 1 .. n : FrameOK(t, s, k, P, S, R)
  BY DEF FramesOK, n
<1>6. ASSUME NEW k \in 1 .. n, k # n, s[k].stage \in InCharge
      PROVE  s[k].class # c \/ (P2[c] = P[c] /\ S2[c] = S[c] /\ R2[c] = R[c] /\ f.stage \notin InCharge)
  <2>1. FrameOK(t, s, k, P, S, R) /\ FrameOK(t, s, n, P, S, R)
    BY <1>4, <1>5
  <2>2. P[s[k].class] = t
    BY <1>6, <2>1 DEF FrameOK
  <2>3. s[n].stage \in InCharge => s[k].class # c
    BY <1>3, <1>4, <1>6, <2>1 DEF FrameOK, n
  <2> QED BY <2>2, <2>3 DEF n
<1>7. ASSUME NEW k \in 1 .. n, k # n PROVE FrameOK(t, q, k, P2, S2, R2)
  <2> DEFINE e == s[k].class
  <2>1. FrameOK(t, s, k, P, S, R) /\ q[k] = s[k] /\ e \in Class /\ k < n /\ k + 1 \in 1 .. n /\ k \in Nat
    BY <1>1, <1>2, <1>5, <1>7, SMT
  <2>2. s[k].stage \in InCharge => P2[e] = P[e] /\ S2[e] = S[e] /\ R2[e] = R[e]
    BY <1>6, <1>7, <2>1
  <2>3. \A d \in Class : S[d] = "INITIALIZED" => S2[d] = "INITIALIZED"
    OBVIOUS
  <2>4. q[k + 1].class = s[k + 1].class
    BY <1>1, <1>3, <2>1, SMT
  <2>5. {"MARKED", "COMPLETED_SUPER_CLINIT", "RUNNING"} \subseteq InCharge
    BY DEF InCharge
  <2>6. \A j \in 1 .. k : j \in 1 .. n /\ j # n
    BY <1>2, <2>1, SMT
  <2>7. s[k].stage = "RUNNING" => SuperReady(q, k, S2)
    <3> SUFFICES ASSUME s[k].stage = "RUNNING" PROVE SuperReady(q, k, S2)
      OBVIOUS
    <3>1. SuperReady(s, k, S)
      BY <2>1 DEF FrameOK
    <3>2. pSuperClass[s[k].class] # NULL => pSuperClass[s[k].class] \in Class
      BY <1>2
    <3> QED BY <1>1, <2>1, <2>3, <2>6, <3>1, <3>2 DEF SuperReady
  <2>8. ASSUME NEW j \in 1 .. n, q[j].stage \in InCharge, s[k].stage \in InCharge, q[j].class = e
        PROVE  j = k
    <3>1. CASE j = n
      <4>1. q[j] = f
        BY <1>4, <3>1
      <4> QED BY <1>6, <1>7, <2>8, <4>1
    <3>2. CASE j # n
      <4>1. q[j] = s[j]
        BY <1>1, <3>2
      <4> QED BY <2>1, <2>8, <4>1 DEF FrameOK, n
    <3> QED BY <3>1, <3>2
  <2>9. Len(s) = n /\ Len(q) = n
    BY <1>1 DEF n
  <2> QED BY <2>1, <2>2, <2>3, <2>4, <2>5, <2>7, <2>8, <2>9 DEF FrameOK
<1>8. FrameOK(t, q, n, P2, S2, R2)
  <2>1. ASSUME NEW j \in 1 .. n, q[j].stage \in InCharge, f.stage \in InCharge, q[j].class = c
        PROVE  j = n
    <3> SUFFICES ASSUME j # n PROVE FALSE
      OBVIOUS
    <3>1. q[j] = s[j]
      BY <1>1
    <3> QED BY <1>6, <2>1, <3>1
  <2>2. Len(q) = n /\ ~(n < n)
    BY <1>1, <1>2, SMT
  <2> QED BY <1>3, <1>4, <2>1, <2>2 DEF FrameOK, NewestOK
<1> QED BY <1>1, <1>7, <1>8 DEF FramesOK, q

\* A frame for another class is pushed on that of a program or on one that waits for
\* its superclass.
LEMMA StackPushed ==
    ASSUME NEW t \in Thread, NEW s \in Seq(Frame), NEW c \in Class, NEW P, NEW S, NEW R,
           FramesOK(t, s, P, S, R),
           s # <<>> => \/ s[Len(s)].stage = "RUNNING"
                       \/ /\ s[Len(s)].stage = "COMPLETED_SUPER_CLINIT"
                          /\ s[Len(s)].thrownThrowable = NULL
                          /\ c = pSuperClass[s[Len(s)].class]
    PROVE  /\ Append(s, initialFrame(c)) \in Seq(Frame)
           /\ StackOK(t, Append(s, initialFrame(c)), P, S, R)
           /\ \A d \in Class : ChargeOK(d, t, s) => ChargeOK(d, t, Append(s, initialFrame(c)))
<1> DEFINE n == Len(s)
           f == initialFrame(c)
           q == Append(s, f)
<1>1. f \in Frame /\ f.class = c /\ f.stage = "INITIAL_STAGE" /\ f.thrownThrowable = NULL
  BY DEF initialFrame, Frame, Stages, Throwables
<1> HIDE DEF f
<1>2. /\ q \in Seq(Frame) /\ q # <<>> /\ Len(q) = n + 1 /\ n \in Nat
      /\ q[n + 1] = f
      /\ \A k \in 1 .. n : q[k] = s[k]
  BY <1>1, FrameAdded
<1> HIDE DEF q
<1>3. "INITIAL_STAGE" \notin InCharge
  BY DEF InCharge
<1>4. s # <<>> => n \in 1 .. n
  BY <1>2, EmptySeq, SMT
<1>5. n # 0 => s # <<>>
  BY EmptySeq
<1> HIDE DEF n
<1>6. ASSUME NEW k \in 1 .. n PROVE FrameOK(t, q, k, P, S, R)
  <2>1. FrameOK(t, s, k, P, S, R)
    BY DEF FramesOK, n
  <2>2. /\ k \in Nat /\ q[k] = s[k] /\ k < n + 1 /\ (k < n <=> k # n) /\ Len(q) = n + 1 /\ Len(s) = n
        /\ (k < n => k + 1 \in 1 .. n) /\ n # 0
        /\ \A j \in 1 .. k : j \in 1 .. n
    BY <1>2, SMT DEF n
  <2>3. s[k].stage = "RUNNING" => SuperReady(q, k, S)
    BY <1>2, <2>1, <2>2 DEF FrameOK, SuperReady
  <2>4. ASSUME NEW j \in 1 .. Len(q), q[j].stage \in InCharge, q[k].stage \in InCharge, q[j].class = q[k].class
        PROVE  j = k
    <3>1. j \in 1 .. n
      <4>1. j # n + 1
        BY <1>1, <1>2, <1>3, <2>4
      <4> QED BY <1>2, <2>2, <4>1, SMT
    <3> QED BY <1>2, <2>1, <2>2, <2>4, <3>1 DEF FrameOK
  <2>5. /\ q[k].stage \in {"RUNNING", "COMPLETED_SUPER_CLINIT"}
        /\ q[k].stage = "COMPLETED_SUPER_CLINIT" =>
              q[k].thrownThrowable = NULL /\ q[k + 1].class = pSuperClass[q[k].class]
    <3>1. CASE k = n
      <4>1. q[k + 1].class = c
        BY <1>1, <1>2, <3>1
      <4> QED BY <1>5, <2>2, <3>1, <4>1 DEF n
    <3>2. CASE k # n
      <4>1. q[k + 1] = s[k + 1]
        BY <1>2, <2>2, <3>2
      <4> QED BY <2>1, <2>2, <3>2, <4>1 DEF FrameOK
    <3> QED BY <3>1, <3>2
  <2> QED BY <2>1, <2>2, <2>3, <2>4, <2>5 DEF FrameOK
<1>7. FrameOK(t, q, n + 1, P, S, R)
  <2>1. Len(q) = n + 1 /\ ~(n + 1 < n + 1) /\ q[n + 1].stage = "INITIAL_STAGE"
        /\ q[n + 1].thrownThrowable = NULL
    BY <1>1, <1>2, SMT
  <2> QED BY <1>3, <2>1 DEF FrameOK
<1>8. \A k \in 1 .. n + 1 : k \in 1 .. n \/ k = n + 1
  BY <1>2, SMT
<1>9. TopOK(q, S)
  BY <1>1, <1>2 DEF TopOK
<1>10. \A d \in Class : ChargeOK(d, t, s) => ChargeOK(d, t, q)
  <2>1. \A k \in 1 .. n : k \in 1 .. n + 1 /\ q[k] = s[k]
    BY <1>2, SMT
  <2> QED BY <1>2, <2>1 DEF ChargeOK, n
<1> QED BY <1>2, <1>6, <1>7, <1>8, <1>9, <1>10 DEF StackOK, FramesOK, q, f

\* A frame that is in charge of no class returns or is unwound.
LEMMA StackPopped ==
    ASSUME NEW t \in Thread, NEW s \in Seq(Frame), s # <<>>, NEW P, NEW S, NEW R,
           FramesOK(t, s, P, S, R), s[Len(s)].stage \notin InCharge
    PROVE  LET b == Front(s)
           IN  /\ b \in Seq(Frame)
               /\ FramesOK(t, b, P, S, R)
               /\ b # <<>> => \/ b[Len(b)].stage = "RUNNING"
                              \/ /\ b[Len(b)].stage = "COMPLETED_SUPER_CLINIT"
                                 /\ b[Len(b)].thrownThrowable = NULL
                                 /\ s[Len(s)].class = pSuperClass[b[Len(b)].class]
               /\ \A d \in Class : ChargeOK(d, t, s) => ChargeOK(d, t, b)
<1> DEFINE n == Len(s) - 1
           b == Front(s)
<1>1. /\ n \in Nat /\ Len(s) = n + 1 /\ b \in Seq(Frame) /\ Len(b) = n
      /\ \A k \in 1 .. n : b[k] = s[k]
  BY NewestFrame, SMT
<1> HIDE DEF b, n
<1>2. \A k \in 1 .. n : FrameOK(t, s, k, P, S, R) /\ k \in 1 .. Len(s) /\ k < Len(s) /\ k \in Nat
  BY <1>1, SMT DEF FramesOK
<1>3. ASSUME NEW k \in 1 .. n PROVE FrameOK(t, b, k, P, S, R)
  <2>1. FrameOK(t, s, k, P, S, R) /\ k < Len(s)
    BY <1>2
  <2>2. /\ k \in Nat /\ b[k] = s[k] /\ (k < n => k + 1 \in 1 .. n)
        /\ \A j \in 1 .. k : j \in 1 .. n
        /\ \A j \in 1 .. n : j \in 1 .. Len(s)
    BY <1>1, SMT
  <2>3. s[k].stage = "RUNNING" => SuperReady(b, k, S)
    BY <1>1, <2>1, <2>2 DEF FrameOK, SuperReady
  <2> QED BY <1>1, <2>1, <2>2, <2>3 DEF FrameOK
<1>4. b # <<>> => \/ b[n].stage = "RUNNING"
                  \/ /\ b[n].stage = "COMPLETED_SUPER_CLINIT"
                     /\ b[n].thrownThrowable = NULL
                     /\ s[n + 1].class = pSuperClass[b[n].class]
  <2> SUFFICES ASSUME b # <<>> PROVE \/ b[n].stage = "RUNNING"
                  \/ /\ b[n].stage = "COMPLETED_SUPER_CLINIT"
                     /\ b[n].thrownThrowable = NULL
                     /\ s[n + 1].class = pSuperClass[b[n].class]
    OBVIOUS
  <2>1. n \in 1 .. n
    BY <1>1, EmptySeq, SMT
  <2> QED BY <1>1, <1>2, <2>1 DEF FrameOK
<1>5. ASSUME NEW d \in Class, ChargeOK(d, t, s) PROVE ChargeOK(d, t, b)
  <2>1. PICK k \in 1 .. Len(s) : s[k].class = d /\ s[k].stage \in InCharge
    BY <1>5 DEF ChargeOK
  <2>2. k \in 1 .. n
    BY <1>1, <2>1, SMT
  <2> QED BY <1>1, <2>1, <2>2 DEF ChargeOK
<1> QED BY <1>1, <1>3, <1>4, <1>5 DEF FramesOK, b

-----------------------------------------------------------------------------
(* What a step of one thread does to all. *)

P == pInitializingThread
S == initializationStatus

\* Thread t leaves the stack q and changes the state of classes nobody else is in
\* charge of.
LEMMA ThreadStep ==
    ASSUME ClassTypeOK, StacksInv, NEW t \in Thread, NEW q \in Seq(Frame),
           stack' = [stack EXCEPT ![t] = q],
           P' \in [Class -> Thread \cup {NULL}], S' \in [Class -> Statuses],
           runs' \in [Class -> Nat],
           thrown' \in [Thread -> Throwables], \A u \in Thread \ {t} : thrown'[u] = thrown[u],
           StackOK(t, q, P', S', runs'),
           thrown'[t] # NULL => q = <<>> \/ q[Len(q)].stage = "RUNNING",
           \A u \in Thread \ {t} : KeptFor(u, P, S, runs, P', S', runs'),
           \A c \in Class : P'[c] # NULL => \/ P'[c] = t /\ ChargeOK(c, t, q)
                                            \/ P'[c] = P[c] /\ P[c] # t,
           \A c \in Class : RunsOK(c, P', S', runs')
    PROVE  ClassTypeOK' /\ StacksInv'
<1>1. stack' \in [Thread -> Seq(Frame)] /\ stack'[t] = q
      /\ \A u \in Thread \ {t} : stack'[u] = stack[u]
  BY DEF ClassTypeOK
<1>2. ClassTypeOK'
  BY <1>1 DEF ClassTypeOK, P, S
<1>3. ASSUME NEW u \in Thread PROVE StackOK(u, stack'[u], P', S', runs')
  <2>1. CASE u = t
    BY <1>1, <2>1
  <2>2. CASE u # t
    <3>1. StackOK(u, stack[u], P, S, runs) /\ stack[u] \in Seq(Frame) /\ stack'[u] = stack[u]
      BY <1>1, <2>2 DEF StacksInv, ClassTypeOK, P, S
    <3>2. KeptFor(u, P, S, runs, P', S', runs')
      BY <2>2
    <3>3. StackOK(u, stack[u], P', S', runs')
      BY <3>1, <3>2, StackKept
    <3> QED BY <3>1, <3>3
  <2> QED BY <2>1, <2>2
<1>4. ASSUME NEW u \in Thread, thrown'[u] # NULL PROVE Stage(u)' \in {"NONE", "RUNNING"}
  <2>1. CASE u = t
    BY <1>1, <1>4, <2>1 DEF Stage, Last
  <2>2. CASE u # t
    BY <1>1, <1>4, <2>2 DEF StacksInv, Stage
  <2> QED BY <2>1, <2>2
<1>5. ASSUME NEW c \in Class, P'[c] # NULL PROVE ChargeOK(c, P'[c], stack'[P'[c]])
  <2>1. CASE P'[c] = t /\ ChargeOK(c, t, q)
    BY <1>1, <2>1
  <2>2. CASE P'[c] = P[c] /\ P[c] # t
    <3>1. P[c] \in Thread \ {t}
      BY <1>5, <2>2 DEF ClassTypeOK, P
    <3>2. ChargeOK(c, P[c], stack[P[c]])
      BY <1>5, <2>2 DEF StacksInv, P
    <3> QED BY <1>1, <2>2, <3>1, <3>2
  <2> QED BY <1>5, <2>1, <2>2
<1> QED BY <1>2, <1>3, <1>4, <1>5 DEF StacksInv, P, S

\* The newest frame of thread t becomes f.
SetNewest(t, f) == stack' = [stack EXCEPT ![t] = [stack[t] EXCEPT ![Len(stack[t])] = f]]

\* Thread t takes the class of its newest frame to another stage.
LEMMA StageStep ==
    ASSUME ClassTypeOK, StacksInv, NEW t \in Thread, stack[t] # <<>>, NEW f \in Frame, SetNewest(t, f),
           f.class = ClassOf(t),
           P' \in [Class -> Thread \cup {NULL}], S' \in [Class -> Statuses],
           runs' \in [Class -> Nat],
           \A d \in Class \ {f.class} : P'[d] = P[d] /\ S'[d] = S[d] /\ runs'[d] = runs[d],
           \/ Stage(t) \in InCharge
           \/ P[f.class] = NULL /\ S[f.class] # "INITIALIZED" /\ f.stage \in InCharge
           \/ /\ P'[f.class] = P[f.class] /\ S'[f.class] = S[f.class]
              /\ runs'[f.class] = runs[f.class] /\ f.stage \notin InCharge,
           P'[f.class] = NULL \/ P'[f.class] = P[f.class] \/ P'[f.class] = t,
           Stage(t) \in InCharge => f.stage \in InCharge \/ P'[f.class] = NULL,
           NewestOK(t, [stack[t] EXCEPT ![Len(stack[t])] = f], P', S', runs'),
           TopOK([stack[t] EXCEPT ![Len(stack[t])] = f], S'),
           RunsOK(f.class, P', S', runs'),
           \A u \in Thread \ {t} : thrown'[u] = thrown[u],
           thrown' \in [Thread -> Throwables], thrown'[t] = NULL
    PROVE  ClassTypeOK' /\ StacksInv'
<1> DEFINE s == stack[t]
           n == Len(stack[t])
           c == f.class
           q == [stack[t] EXCEPT ![Len(stack[t])] = f]
<1>1. s \in Seq(Frame) /\ StackOK(t, s, P, S, runs) /\ t # NULL
  BY MonitorsAssumption DEF ClassTypeOK, StacksInv, P, S
<1>2. /\ q \in Seq(Frame) /\ q # <<>> /\ Len(q) = n /\ n \in 1 .. n
      /\ \A k \in 1 .. n : q[k] = IF k = n THEN f ELSE s[k]
      /\ n \in Nat \ {0} /\ c = s[n].class /\ Stage(t) = s[n].stage /\ c \in Class
  <2>1. n \in Nat \ {0} /\ Last(s) = s[n] /\ Last(s) \in Frame
    BY <1>1, NewestFrame
  <2>2. /\ q \in Seq(Frame) /\ q # <<>> /\ Len(q) = n
        /\ \A k \in 1 .. n : q[k] = IF k = n THEN f ELSE s[k]
    BY <1>1, NewestReplaced
  <2>3. c \in Class
    BY DEF Frame
  <2>4. n \in 1 .. n
    BY <2>1, SMT
  <2> QED BY <2>1, <2>2, <2>3, <2>4 DEF Stage, ClassOf
<1>3. Stage(t) \in InCharge => P[c] = t /\ S[c] = "UNINITIALIZED"
  BY <1>1, <1>2, ZenonT(60) DEF StackOK, FramesOK, FrameOK
<1>4. FramesOK(t, q, P', S', runs')
  <2>1. S[c] = "INITIALIZED" => S'[c] = "INITIALIZED"
    BY <1>3
  <2>2. \/ s[Len(s)].stage \in InCharge
        \/ P[c] # t
        \/ P'[c] = P[c] /\ S'[c] = S[c] /\ runs'[c] = runs[c] /\ f.stage \notin InCharge
    BY <1>1, <1>2
  <2>3. FramesOK(t, s, P, S, runs) /\ c = s[Len(s)].class
    BY <1>1, <1>2 DEF StackOK
  <2> QED BY <1>1, <2>1, <2>2, <2>3, StageChanged
<1>5. \A u \in Thread \ {t} : KeptFor(u, P, S, runs, P', S', runs')
  BY <1>3, MonitorsAssumption DEF KeptFor
<1>6. \A d \in Class : P'[d] # NULL => \/ P'[d] = t /\ ChargeOK(d, t, q)
                                       \/ P'[d] = P[d] /\ P[d] # t
  <2> SUFFICES ASSUME NEW d \in Class, P'[d] # NULL
               PROVE  (P'[d] = t /\ ChargeOK(d, t, q)) \/ (P'[d] = P[d] /\ P[d] # t)
    OBVIOUS
  <2>1. CASE d = c /\ f.stage \in InCharge
    <3>1. P'[d] = t
      BY <1>2, <2>1 DEF NewestOK
    <3>2. q[n].class = d /\ q[n].stage \in InCharge /\ n \in 1 .. Len(q)
      BY <1>2, <2>1
    <3> QED BY <3>1, <3>2 DEF ChargeOK
  <2>2. CASE ~(d = c /\ f.stage \in InCharge)
    <3>1. P'[d] = P[d] /\ (Stage(t) \in InCharge => d # c)
      BY <1>2, <2>2
    <3>2. SUFFICES ASSUME P[d] = t PROVE ChargeOK(d, t, q)
      BY <3>1
    <3>3. ChargeOK(d, t, s)
      BY <1>1, <3>2 DEF StacksInv, P
    <3>4. PICK k \in 1 .. n : s[k].class = d /\ s[k].stage \in InCharge
      BY <3>3 DEF ChargeOK
    <3>5. k # n
      BY <1>2, <3>1, <3>4
    <3> QED BY <1>2, <3>4, <3>5 DEF ChargeOK
  <2> QED BY <2>1, <2>2
<1>7. ASSUME NEW d \in Class PROVE RunsOK(d, P', S', runs')
  <2>1. RunsOK(d, P, S, runs)
    BY DEF StacksInv, P, S
  <2> QED BY <2>1 DEF RunsOK
<1>8. StackOK(t, q, P', S', runs') /\ stack' = [stack EXCEPT ![t] = q]
  BY <1>4 DEF StackOK, SetNewest
<1> HIDE DEF q
<1>9. \A d \in Class : RunsOK(d, P', S', runs')
  BY <1>7
<1>10. thrown'[t] # NULL => q = <<>> \/ q[Len(q)].stage = "RUNNING"
  OBVIOUS
<1>11. q \in Seq(Frame)
  BY <1>2
<1> QED BY <1>5, <1>6, <1>8, <1>9, <1>10, <1>11, ThreadStep, Zenon

\* The newest frame of thread t at another stage, with what was thrown to it.
FrameAt(t, stage, e) == [class |-> ClassOf(t), stage |-> stage, thrownThrowable |-> e]

\* The assignments of the actions to the newest frame.
LEMMA FrameAssigned ==
    ASSUME ClassTypeOK, NEW t \in Thread, stack[t] # <<>>, NEW stage, NEW e
    PROVE  /\ Goto(t, stage) => SetNewest(t, FrameAt(t, stage, Last(stack[t]).thrownThrowable))
           /\ stack' = [stack EXCEPT ![t][Len(stack[t])] =
                            [@ EXCEPT !.stage = stage, !.thrownThrowable = e]]
                 => SetNewest(t, FrameAt(t, stage, e))
           /\ stack' = [stack EXCEPT ![t][Len(stack[t])] =
                            [Last(stack[t]) EXCEPT !.stage = stage, !.thrownThrowable = e]]
                 => SetNewest(t, FrameAt(t, stage, e))
<1> DEFINE f == stack[t][Len(stack[t])]
<1>1. f = Last(stack[t]) /\ f \in Frame /\ f.class = ClassOf(t)
  BY NewestFrame DEF ClassTypeOK, ClassOf
<1>2. /\ [f EXCEPT !.stage = stage] = FrameAt(t, stage, f.thrownThrowable)
      /\ [f EXCEPT !.stage = stage, !.thrownThrowable = e] = FrameAt(t, stage, e)
  <2>1. f = [class |-> ClassOf(t), stage |-> f.stage, thrownThrowable |-> f.thrownThrowable]
    BY <1>1 DEF Frame
  <2> DEFINE c == ClassOf(t)
             g == f.stage
             x == f.thrownThrowable
             at(y) == [class |-> c, stage |-> stage, thrownThrowable |-> y]
  <2> HIDE DEF f, c, g, x
  <2>2. f = [class |-> c, stage |-> g, thrownThrowable |-> x]
    BY <2>1 DEF c, g, x
  <2>3. [f EXCEPT !.stage = stage] = at(x)
    BY <2>2, SMT
  <2>4. [f EXCEPT !.stage = stage, !.thrownThrowable = e]
          = [[f EXCEPT !.stage = stage] EXCEPT !.thrownThrowable = e]
    BY Zenon
  <2>5. [at(x) EXCEPT !.thrownThrowable = e] = at(e)
    BY SMT
  <2> QED BY <2>3, <2>4, <2>5, Zenon DEF FrameAt, c, x
<1>3. Goto(t, stage) => SetNewest(t, [f EXCEPT !.stage = stage])
  BY DEF Goto, SetNewest
<1>4. stack' = [stack EXCEPT ![t][Len(stack[t])] =
                    [@ EXCEPT !.stage = stage, !.thrownThrowable = e]]
        => SetNewest(t, [f EXCEPT !.stage = stage, !.thrownThrowable = e])
  BY DEF SetNewest
<1>5. stack' = [stack EXCEPT ![t][Len(stack[t])] =
                    [Last(stack[t]) EXCEPT !.stage = stage, !.thrownThrowable = e]]
        => SetNewest(t, [f EXCEPT !.stage = stage, !.thrownThrowable = e])
  BY <1>1 DEF SetNewest
<1> QED BY <1>1, <1>2, <1>3, <1>4, <1>5

\* StageStep, with the conditions on the new frame alone.
LEMMA StageTaken ==
    ASSUME ClassTypeOK, StacksInv, NEW t \in Thread, stack[t] # <<>>,
           NEW stage \in Stages, NEW e \in Throwables, SetNewest(t, FrameAt(t, stage, e)),
           P' \in [Class -> Thread \cup {NULL}], S' \in [Class -> Statuses],
           runs' \in [Class -> Nat],
           \A d \in Class \ {ClassOf(t)} : P'[d] = P[d] /\ S'[d] = S[d] /\ runs'[d] = runs[d],
           \/ Stage(t) \in InCharge
           \/ P[ClassOf(t)] = NULL /\ S[ClassOf(t)] # "INITIALIZED" /\ stage \in InCharge
           \/ /\ P'[ClassOf(t)] = P[ClassOf(t)] /\ S'[ClassOf(t)] = S[ClassOf(t)]
              /\ runs'[ClassOf(t)] = runs[ClassOf(t)] /\ stage \notin InCharge,
           P'[ClassOf(t)] = NULL \/ P'[ClassOf(t)] = P[ClassOf(t)] \/ P'[ClassOf(t)] = t,
           Stage(t) \in InCharge => stage \in InCharge \/ P'[ClassOf(t)] = NULL,
           stage \in InCharge => P'[ClassOf(t)] = t /\ S'[ClassOf(t)] = "UNINITIALIZED",
           stage \in {"MARKED", "COMPLETED_SUPER_CLINIT"} => runs'[ClassOf(t)] = 0,
           stage \in {"INITIAL_STAGE", "ENTERED_MONITOR", "MARKED"} => e = NULL,
           stage \in {"FAILED", "ENTERED_MONITOR_UPON_FAILURE"} => e # NULL,
           stage \in {"NOTIFY", "EXIT"} /\ e = NULL => S'[ClassOf(t)] = "INITIALIZED",
           stage = "RUNNING" \/ (stage = "COMPLETED_SUPER_CLINIT" /\ e = NULL)
              => SuperReady([stack[t] EXCEPT ![Len(stack[t])] = FrameAt(t, stage, e)],
                            Len(stack[t]), S'),
           RunsOK(ClassOf(t), P', S', runs'),
           \A u \in Thread \ {t} : thrown'[u] = thrown[u],
           thrown' \in [Thread -> Throwables], thrown'[t] = NULL
    PROVE  /\ ClassTypeOK' /\ StacksInv'
           /\ Stage(t)' = stage /\ ClassOf(t)' = ClassOf(t)
           /\ \A u \in Thread \ {t} : stack'[u] = stack[u]
<1> DEFINE f == FrameAt(t, stage, e)
           n == Len(stack[t])
           q == [stack[t] EXCEPT ![n] = f]
<1>1. stack[t] \in Seq(Frame)
  BY DEF ClassTypeOK
<1>2. ClassOf(t) \in Class
  BY <1>1, NewestFrame DEF ClassOf, Frame
<1>3. f \in Frame /\ f.class = ClassOf(t) /\ f.stage = stage /\ f.thrownThrowable = e
  BY <1>2 DEF Frame, FrameAt
<1> HIDE DEF f
<1>4. /\ q \in Seq(Frame) /\ q # <<>> /\ Len(q) = n /\ q[n] = f
      /\ n \in Nat
  <2>1. n \in 1 .. n
    BY <1>1, NewestFrame, SMT
  <2> QED BY <1>1, <1>3, <2>1, NewestReplaced
<1>5. stack' = [stack EXCEPT ![t] = q] /\ SetNewest(t, f)
  BY DEF SetNewest, f
<1>6. stage = "RUNNING" \/ (stage = "COMPLETED_SUPER_CLINIT" /\ e = NULL) => SuperReady(q, n, S')
  BY DEF f
<1> HIDE DEF q
<1>7. NewestOK(t, q, P', S', runs')
  BY <1>3, <1>4, <1>6 DEF NewestOK
<1>8. TopOK(q, S')
  BY <1>3, <1>4, <1>6 DEF TopOK
<1>9. ClassTypeOK' /\ StacksInv'
  BY <1>3, <1>5, <1>7, <1>8, StageStep DEF q
<1>10. stack'[t] = q /\ \A u \in Thread \ {t} : stack'[u] = stack[u]
  BY <1>5 DEF ClassTypeOK
<1>11. Stage(t)' = stage /\ ClassOf(t)' = ClassOf(t)
  BY <1>3, <1>4, <1>10 DEF Stage, ClassOf, Last
<1> QED BY <1>9, <1>10, <1>11

-----------------------------------------------------------------------------
(* What the operations on monitors do to the other threads. *)

LEMMA Entered ==
    ASSUME IInv, NEW t \in Thread, NEW m \in Class, Enter(t, m)
    PROVE  /\ Ready(t) /\ UNCHANGED waiting /\ inside'[t][m] > 0
           /\ \A u \in Thread \ {t} : inside'[u] = inside[u] /\ (Ready(u) => Ready(u)')
<1>1. inside[t][m] \in Nat /\ inside' = [inside EXCEPT ![t][m] = @ + 1]
      /\ UNCHANGED waiting /\ Ready(t)
  BY DEF Enter, IInv, TypeOK, Class
<1>2. inside'[t][m] = inside[t][m] + 1 /\ \A u \in Thread \ {t} : inside'[u] = inside[u]
  BY <1>1 DEF IInv, TypeOK, Class
<1>3. ASSUME NEW u \in Thread \ {t}, NEW n \in Monitor, u \in On(entry'[n]) PROVE u \in On(entry[n])
  <2>1. entry[n] \in Seq(Thread)
    BY DEF IInv, TypeOK
  <2>2. entry'[n] = entry[n] \/ entry'[n] = Append(entry[n], t)
    BY DEF Enter, EnterFree, EnterAgain, Block, IInv, TypeOK
  <2> QED BY <1>3, <2>1, <2>2, AppendOne
<1> QED BY <1>1, <1>2, <1>3, SMT DEF Ready, Queued

LEMMA Exited ==
    ASSUME IInv, NEW t \in Thread, NEW m \in Class, Exit(t, m)
    PROVE  /\ Ready(t) /\ UNCHANGED waiting /\ owner[m] = t
           /\ \A u \in Thread \ {t} : inside'[u] = inside[u] /\ (Ready(u) => Ready(u)')
<1>1. inside' = [inside EXCEPT ![t][m] = @ - 1] /\ UNCHANGED waiting /\ Ready(t) /\ inside[t][m] > 0
  BY DEF Exit
<1>2. \A u \in Thread \ {t} : inside'[u] = inside[u]
  BY <1>1 DEF IInv, TypeOK, Class
<1>3. ASSUME NEW u \in Thread, NEW n \in Monitor, u \in On(entry'[n]) PROVE u \in On(entry[n])
  <2>1. entry[n] \in Seq(Thread) /\ Distinct(entry[n])
    BY DEF IInv, TypeOK, QueuedOnce
  <2>2. entry'[n] = entry[n] \/ (entry[n] # <<>> /\ entry'[n] = Tail(entry[n]))
    BY DEF Exit, ExitInner, HandOver, IInv, TypeOK
  <2> QED BY <1>3, <2>1, <2>2, RemoveFront
<1>4. owner[m] = t
  BY <1>1, ReadyThread DEF Class
<1> QED BY <1>1, <1>2, <1>3, <1>4 DEF Ready, Queued

LEMMA WaitBegun ==
    ASSUME IInv, NEW t \in Thread, NEW m \in Class, Wait(t, m)
    PROVE  /\ UNCHANGED inside
           /\ \A n \in Class \ {m} : waiting'[n] = waiting[n]
           /\ \A u \in Thread \ {t} : Ready(u) => Ready(u)'
<1>1. /\ UNCHANGED inside /\ waiting' = [waiting EXCEPT ![m] = Append(@, t)]
      /\ HandOver(m, [saved EXCEPT ![t] = depth[m]])
  BY DEF Wait
<1>2. /\ \A n \in Class \ {m} : waiting'[n] = waiting[n]
      /\ waiting'[m] = Append(waiting[m], t)
  BY <1>1 DEF IInv, TypeOK, Class
<1>3. ASSUME NEW u \in Thread, NEW n \in Monitor, u \in On(entry'[n]) PROVE u \in On(entry[n])
  <2>1. entry[n] \in Seq(Thread) /\ Distinct(entry[n])
    BY DEF IInv, TypeOK, QueuedOnce
  <2>2. entry'[n] = entry[n] \/ (entry[n] # <<>> /\ entry'[n] = Tail(entry[n]))
    BY <1>1 DEF HandOver, IInv, TypeOK
  <2> QED BY <1>3, <2>1, <2>2, RemoveFront
<1>4. ASSUME NEW u \in Thread \ {t}, NEW n \in Monitor, u \in On(waiting'[n])
      PROVE  u \in On(waiting[n])
  <2>1. waiting[n] \in Seq(Thread)
    BY DEF IInv, TypeOK
  <2>2. waiting'[n] = waiting[n] \/ waiting'[n] = Append(waiting[n], t)
    BY <1>2 DEF Class
  <2> QED BY <1>4, <2>1, <2>2, AppendOne
<1> QED BY <1>1, <1>2, <1>3, <1>4 DEF Ready, Queued

LEMMA AllNotified ==
    ASSUME IInv, NEW t \in Thread, NEW m \in Class, NotifyAll(t, m)
    PROVE  /\ UNCHANGED inside /\ waiting'[m] = <<>>
           /\ \A n \in Class \ {m} : waiting'[n] = waiting[n]
           /\ \A u \in Thread : Ready(u) => Ready(u)'
<1>1. /\ UNCHANGED inside /\ waiting' = [waiting EXCEPT ![m] = <<>>]
      /\ entry' = [entry EXCEPT ![m] = @ \o waiting[m]]
  BY DEF NotifyAll
<1>2. /\ \A n \in Class \ {m} : waiting'[n] = waiting[n] /\ entry'[n] = entry[n]
      /\ waiting'[m] = <<>> /\ entry'[m] = entry[m] \o waiting[m]
      /\ entry[m] \in Seq(Thread) /\ waiting[m] \in Seq(Thread)
  BY <1>1 DEF IInv, TypeOK, Class
<1>3. On(entry[m] \o waiting[m]) = On(entry[m]) \cup On(waiting[m]) /\ On(<<>>) = {}
  BY <1>2, Concatenate, EmptyQueue DEF IInv, QueuedOnce, Class
<1>4. ASSUME NEW u \in Thread, NEW n \in Monitor, Queued(u, n)' PROVE Queued(u, n)
  BY <1>2, <1>3, <1>4 DEF Queued, Class
<1> QED BY <1>1, <1>2, <1>4 DEF Ready

LEMMA Awakened ==
    ASSUME IInv, NEW m \in Class, NEW k \in 1 .. Len(waiting[m]), Awaken(m, k)
    PROVE  /\ UNCHANGED inside
           /\ \A n \in Class : waiting'[n] # <<>> => waiting[n] # <<>>
           /\ \A u \in Thread : Ready(u) => Ready(u)'
<1> DEFINE t == waiting[m][k]
<1>1. /\ waiting[m] \in Seq(Thread) /\ Distinct(waiting[m]) /\ entry[m] \in Seq(Thread)
      /\ t \in Thread /\ t \in On(waiting[m])
      /\ On(RemoveAt(waiting[m], k)) = On(waiting[m]) \ {t}
  BY RemoveAny DEF IInv, TypeOK, QueuedOnce, Class
<1> HIDE DEF t
<1>2. /\ waiting' = [waiting EXCEPT ![m] = RemoveAt(@, k)] /\ UNCHANGED inside
      /\ UNCHANGED entry \/ entry' = [entry EXCEPT ![m] = Append(@, t)]
  BY DEF Awaken, t
<1>3. /\ \A n \in Class \ {m} : waiting'[n] = waiting[n] /\ entry'[n] = entry[n]
      /\ waiting'[m] = RemoveAt(waiting[m], k)
      /\ entry'[m] = entry[m] \/ entry'[m] = Append(entry[m], t)
  BY <1>2 DEF IInv, TypeOK, Class
<1>4. On(Append(entry[m], t)) = On(entry[m]) \cup {t}
  BY <1>1, AppendOne
<1>5. waiting[m] # <<>>
  BY <1>1, EmptyQueue
<1>6. ASSUME NEW u \in Thread, NEW n \in Monitor, Queued(u, n)' PROVE Queued(u, n)
  BY <1>1, <1>3, <1>4, <1>6 DEF Queued, Class
<1> QED BY <1>2, <1>3, <1>5, <1>6 DEF Ready

-----------------------------------------------------------------------------
(* The steps. *)

\* What the invariant says of the newest frame of a thread.
LEMMA NewestFacts ==
    ASSUME ClassTypeOK, StacksInv, NEW t \in Thread, stack[t] # <<>>
    PROVE  LET f == Last(stack[t])
           IN  /\ stack[t] \in Seq(Frame) /\ Len(stack[t]) \in Nat \ {0}
               /\ f = stack[t][Len(stack[t])] /\ f \in Frame
               /\ f.stage = Stage(t) /\ f.class = ClassOf(t)
               /\ Stage(t) \in Stages /\ ClassOf(t) \in Class /\ f.thrownThrowable \in Throwables
               /\ FramesOK(t, stack[t], P, S, runs) /\ TopOK(stack[t], S)
               /\ NewestOK(t, stack[t], P, S, runs)
               /\ Stage(t) # "RUNNING" => thrown[t] = NULL
<1>1. stack[t] \in Seq(Frame) /\ StackOK(t, stack[t], P, S, runs)
  BY DEF ClassTypeOK, StacksInv, P, S
<1>2. /\ Len(stack[t]) \in Nat \ {0} /\ Last(stack[t]) = stack[t][Len(stack[t])]
      /\ Last(stack[t]) \in Frame /\ Len(stack[t]) \in 1 .. Len(stack[t])
  BY <1>1, NewestFrame, SMT
<1>3. Last(stack[t]).stage = Stage(t) /\ Last(stack[t]).class = ClassOf(t)
  BY DEF Stage, ClassOf
<1>4. Stage(t) \in Stages /\ ClassOf(t) \in Class /\ Last(stack[t]).thrownThrowable \in Throwables
  BY <1>2, <1>3 DEF Frame
<1>5. FrameOK(t, stack[t], Len(stack[t]), P, S, runs)
  BY <1>1, <1>2 DEF StackOK, FramesOK
<1>6. NewestOK(t, stack[t], P, S, runs)
  BY <1>5 DEF FrameOK, NewestOK
<1>7. Stage(t) # "RUNNING" => thrown[t] = NULL
  BY <1>4 DEF StacksInv, Stages, InCharge, Holding
<1> QED BY <1>1, <1>2, <1>3, <1>4, <1>6, <1>7 DEF StackOK

\* A thread that is in charge of a class has a frame that is.
LEMMA InChargeBelow ==
    ASSUME ClassTypeOK, StacksInv, NEW t \in Thread, NEW c \in Class, P[c] = t
    PROVE  \E k \in 1 .. Len(stack[t]) : stack[t][k].class = c /\ stack[t][k].stage \in InCharge
BY MonitorsAssumption DEF StacksInv, ChargeOK, P

\* The newest frame returns to the frame of a class whose superclass is ready, or to a
\* program; or it is unwound, and that frame or that program is told.
LEMMA FramePopped ==
    ASSUME ClassTypeOK, StacksInv, NEW t \in Thread, stack[t] # <<>>, Stage(t) \notin InCharge,
           UNCHANGED <<initializationStatus, pInitializingThread, runs>>,
           \/ popCurrentFrame(t) /\ (S[ClassOf(t)] = "INITIALIZED" \/ P[ClassOf(t)] = t)
           \/ \E e \in Throwables \ {NULL} : popAndThrow(t, e)
    PROVE  /\ ClassTypeOK' /\ StacksInv'
           /\ Stage(t)' \in {"NONE", "RUNNING", "COMPLETED_SUPER_CLINIT"}
           /\ \A u \in Thread \ {t} : stack'[u] = stack[u]
<1> DEFINE s == stack[t]
           b == Front(stack[t])
           n == Len(b)
<1>1. /\ s \in Seq(Frame) /\ FramesOK(t, s, P, S, runs) /\ Len(s) \in Nat \ {0}
      /\ s[Len(s)].class = ClassOf(t) /\ ClassOf(t) \in Class /\ s[Len(s)].stage = Stage(t)
  BY NewestFacts
<1>2. /\ b \in Seq(Frame)
      /\ FramesOK(t, b, P, S, runs)
      /\ b # <<>> => \/ b[n].stage = "RUNNING"
                     \/ /\ b[n].stage = "COMPLETED_SUPER_CLINIT"
                        /\ b[n].thrownThrowable = NULL
                        /\ ClassOf(t) = pSuperClass[b[n].class]
      /\ \A d \in Class : ChargeOK(d, t, s) => ChargeOK(d, t, b)
  BY <1>1, StackPopped
<1>3. thrown[t] = NULL
  BY NewestFacts DEF InCharge
<1>4. b # <<>> => n \in Nat \ {0} /\ n \in 1 .. n /\ Last(b) = b[n] /\ b[n] \in Frame
  BY <1>2, NewestFrame, SMT
<1>5. \A u \in Thread \ {t} : KeptFor(u, P, S, runs, P', S', runs')
  BY DEF KeptFor, P, S
<1>6. \A c \in Class : RunsOK(c, P', S', runs')
  BY DEF StacksInv, RunsOK, P, S
<1>7. /\ P' \in [Class -> Thread \cup {NULL}] /\ S' \in [Class -> Statuses]
      /\ runs' \in [Class -> Nat] /\ P' = P /\ S' = S /\ runs' = runs
  BY DEF ClassTypeOK, P, S
<1> HIDE DEF b, n
<1>8. ASSUME NEW q \in Seq(Frame), stack' = [stack EXCEPT ![t] = q], StackOK(t, q, P, S, runs),
             thrown' \in [Thread -> Throwables],
             \A u \in Thread \ {t} : thrown'[u] = thrown[u],
             thrown'[t] # NULL => q = <<>> \/ q[Len(q)].stage = "RUNNING",
             q # <<>> => q[Len(q)].stage \in {"RUNNING", "COMPLETED_SUPER_CLINIT"},
             \A d \in Class : ChargeOK(d, t, b) => ChargeOK(d, t, q)
      PROVE  /\ ClassTypeOK' /\ StacksInv'
             /\ Stage(t)' \in {"NONE", "RUNNING", "COMPLETED_SUPER_CLINIT"}
             /\ \A u \in Thread \ {t} : stack'[u] = stack[u]
  <2>1. \A c \in Class : P'[c] # NULL => \/ P'[c] = t /\ ChargeOK(c, t, q)
                                         \/ P'[c] = P[c] /\ P[c] # t
    <3> SUFFICES ASSUME NEW c \in Class, P'[c] = t PROVE ChargeOK(c, t, q)
      BY <1>7
    <3>1. ChargeOK(c, t, s)
      BY <1>7, InChargeBelow DEF ChargeOK
    <3> QED BY <1>2, <1>8, <3>1
  <2>2. StackOK(t, q, P', S', runs')
    BY <1>7, <1>8
  <2>3. ClassTypeOK' /\ StacksInv'
    BY <1>5, <1>6, <1>7, <1>8, <2>1, <2>2, ThreadStep
  <2>4. stack'[t] = q /\ \A u \in Thread \ {t} : stack'[u] = stack[u]
    BY <1>8 DEF ClassTypeOK
  <2>5. Stage(t)' \in {"NONE", "RUNNING", "COMPLETED_SUPER_CLINIT"}
    BY <1>8, <2>4 DEF Stage, Last
  <2> QED BY <2>3, <2>4, <2>5
<1>9. CASE popCurrentFrame(t) /\ (S[ClassOf(t)] = "INITIALIZED" \/ P[ClassOf(t)] = t)
  <2>1. stack' = [stack EXCEPT ![t] = b] /\ thrown' = thrown
    BY <1>9 DEF popCurrentFrame, b
  <2>2. ASSUME b # <<>>, b[n].stage = "COMPLETED_SUPER_CLINIT" PROVE SuperReady(b, n, S)
    <3>1. ClassOf(t) = pSuperClass[b[n].class]
      BY <1>2, <2>2
    <3>2. CASE S[ClassOf(t)] = "INITIALIZED"
      BY <3>1, <3>2 DEF SuperReady
    <3>3. CASE P[ClassOf(t)] = t
      <4>1. ChargeOK(ClassOf(t), t, b)
        BY <1>1, <1>2, <3>3, InChargeBelow DEF ChargeOK
      <4> QED BY <3>1, <4>1 DEF ChargeOK, SuperReady, n
    <3> QED BY <1>9, <3>2, <3>3
  <2>3. StackOK(t, b, P, S, runs)
    BY <1>2, <2>2 DEF StackOK, TopOK, n
  <2>4. b # <<>> => b[Len(b)].stage \in {"RUNNING", "COMPLETED_SUPER_CLINIT"}
    BY <1>2 DEF n
  <2>5. thrown' \in [Thread -> Throwables] /\ thrown'[t] = NULL
    BY <1>3, <2>1 DEF ClassTypeOK
  <2> QED BY <1>2, <1>8, <2>1, <2>3, <2>4, <2>5
<1>10. ASSUME NEW e \in Throwables \ {NULL}, popAndThrow(t, e)
       PROVE  /\ ClassTypeOK' /\ StacksInv'
              /\ Stage(t)' \in {"NONE", "RUNNING", "COMPLETED_SUPER_CLINIT"}
              /\ \A u \in Thread \ {t} : stack'[u] = stack[u]
  <2>1. CASE b = <<>> \/ b[n].stage = "RUNNING"
    <3>1. stack' = [stack EXCEPT ![t] = b] /\ thrown' = [thrown EXCEPT ![t] = e]
      BY <1>4, <1>10, <2>1 DEF popAndThrow, b
    <3>2. StackOK(t, b, P, S, runs)
      BY <1>2, <2>1 DEF StackOK, TopOK, n
    <3>3. thrown' \in [Thread -> Throwables] /\ \A u \in Thread \ {t} : thrown'[u] = thrown[u]
      BY <3>1 DEF ClassTypeOK
    <3> QED BY <1>2, <1>8, <2>1, <3>1, <3>2, <3>3 DEF n
  <2>2. CASE b # <<>> /\ b[n].stage = "COMPLETED_SUPER_CLINIT"
    <3> DEFINE h == b[n]
               g == [h EXCEPT !.thrownThrowable = e]
               q == [b EXCEPT ![n] = g]
    <3>1. stack' = [stack EXCEPT ![t] = [b EXCEPT ![n].thrownThrowable = e]] /\ UNCHANGED thrown
      BY <1>4, <1>10, <2>2 DEF popAndThrow, b, n
    <3>2. stack' = [stack EXCEPT ![t] = q]
      BY <3>1
    <3>3. h \in Frame /\ h.stage = "COMPLETED_SUPER_CLINIT"
      BY <1>4, <2>2
    <3> HIDE DEF h
    <3>4. g \in Frame /\ g.class = h.class /\ g.stage = h.stage /\ g.thrownThrowable = e
      BY <3>3 DEF Frame
    <3> HIDE DEF g
    <3>5. /\ q \in Seq(Frame) /\ q # <<>> /\ Len(q) = n
          /\ \A k \in 1 .. n : q[k] = IF k = n THEN g ELSE b[k]
      BY <1>2, <2>2, <3>4, NewestReplaced DEF n
    <3> HIDE DEF q
    <3>6. "COMPLETED_SUPER_CLINIT" \in InCharge
      BY DEF InCharge
    <3>7. FrameOK(t, b, n, P, S, runs)
      BY <1>2, <1>4, <2>2 DEF FramesOK, n
    <3>8. NewestOK(t, q, P, S, runs)
      BY <1>4, <2>2, <3>3, <3>4, <3>5, <3>7 DEF NewestOK, FrameOK, h
    <3>9. FramesOK(t, q, P, S, runs)
      BY <1>2, <2>2, <3>3, <3>4, <3>6, <3>8, StageChanged DEF q, h, n
    <3>10. q[n] = g /\ n \in 1 .. n
      BY <1>4, <2>2, <3>5
    <3>11. StackOK(t, q, P, S, runs)
      BY <3>4, <3>5, <3>9, <3>10 DEF StackOK, TopOK
    <3>12. ASSUME NEW d \in Class, ChargeOK(d, t, b) PROVE ChargeOK(d, t, q)
      <4>1. PICK k \in 1 .. n : b[k].class = d /\ b[k].stage \in InCharge
        BY <3>12 DEF ChargeOK, n
      <4>2. q[k].class = d /\ q[k].stage \in InCharge
        BY <3>4, <3>5, <4>1 DEF h
      <4> QED BY <3>5, <4>2 DEF ChargeOK
    <3>13. thrown' \in [Thread -> Throwables] /\ thrown'[t] = NULL
      BY <1>3, <3>1 DEF ClassTypeOK
    <3>14. q[Len(q)].stage = "COMPLETED_SUPER_CLINIT"
      BY <3>3, <3>4, <3>5, <3>10
    <3> QED BY <1>8, <3>1, <3>2, <3>5, <3>11, <3>12, <3>13, <3>14
  <2> QED BY <1>2, <2>1, <2>2
<1> QED BY <1>9, <1>10

\* What else is to be shown of a step of thread t: that it holds the monitor its stage
\* says, and that it neither leaves a thread waiting nor makes it forgotten.
LEMMA TheRest ==
    ASSUME ClassInv, NEW t \in Thread, ClassTypeOK', StacksInv',
           \A u \in Thread \ {t} : /\ stack'[u] = stack[u] /\ inside'[u] = inside[u]
                                   /\ Ready(u) => Ready(u)',
           Stage(t)' \in Holding => inside'[t][ClassOf(t)'] > 0,
           \A c \in Class : waiting'[c] # <<>> => waiting[c] # <<>> \/ P'[c] # NULL,
           \A c \in Class : P[c] # NULL => P'[c] # NULL \/ (At(t, "NOTIFY")' /\ ClassOf(t)' = c),
           Stage(t) = "NOTIFY" => waiting'[ClassOf(t)] = <<>>
    PROVE  OwnInv'
<1>1. ASSUME NEW u \in Thread, Stage(u)' \in Holding PROVE inside'[u][ClassOf(u)'] > 0
  <2>1. CASE u = t
    BY <1>1, <2>1
  <2>2. CASE u # t
    BY <1>1, <2>2 DEF ClassInv, OwnInv, HoldingInv, Stage, ClassOf
  <2> QED BY <2>1, <2>2
<1>2. ASSUME NEW c \in Class, waiting'[c] # <<>>
      PROVE  P'[c] # NULL \/ \E u \in Thread : At(u, "NOTIFY")' /\ ClassOf(u)' = c
  <2> SUFFICES ASSUME P'[c] = NULL, ~(At(t, "NOTIFY")' /\ ClassOf(t)' = c)
               PROVE  \E u \in Thread : At(u, "NOTIFY")' /\ ClassOf(u)' = c
    OBVIOUS
  <2>1. waiting[c] # <<>> /\ P[c] = NULL
    BY <1>2
  <2>2. PICK u \in Thread : At(u, "NOTIFY") /\ ClassOf(u) = c
    BY <2>1 DEF ClassInv, OwnInv, WaitersWillBeNotified, P
  <2>3. u # t
    BY <1>2, <2>2 DEF At
  <2>4. At(u, "NOTIFY")' /\ ClassOf(u)' = c
    BY <2>2, <2>3 DEF At, Stage, ClassOf
  <2> QED BY <2>4
<1> QED BY <1>1, <1>2 DEF OwnInv, HoldingInv, WaitersWillBeNotified, P

LEMMA NothingOfClasses ==
    ASSUME ClassTypeOK, StacksInv, UNCHANGED classVars
    PROVE  ClassTypeOK' /\ StacksInv'
BY DEF ClassTypeOK, StacksInv, classVars, Stage

LEMMA Unequal == NULL # "Throwable" /\ NULL # "ExceptionInInitializerError"
BY ClassInitAssumption

LEMMA UseClassStep ==
    ASSUME ClassInv, NEW t \in Thread, NEW c \in Class, UseClass(t, c)
    PROVE  OwnInv'
<1> USE DEF ClassInv, OwnInv
<1>1. /\ Ready(t) /\ thrown[t] = NULL /\ Stage(t) \in {"NONE", "RUNNING"}
      /\ UNCHANGED <<vars, initializationStatus, pInitializingThread, runs>>
  BY DEF UseClass, ProgramRuns
<1>2. \A u \in Thread : inside'[u] = inside[u] /\ (Ready(u) => Ready(u)')
  BY <1>1 DEF vars, Ready, Queued
<1>3. CASE stack' = [stack EXCEPT ![t] = Append(@, initialFrame(c))] /\ UNCHANGED thrown
  <2> DEFINE q == Append(stack[t], initialFrame(c))
  <2>1. stack[t] \in Seq(Frame) /\ StackOK(t, stack[t], P, S, runs)
    BY DEF ClassTypeOK, StacksInv, P, S
  <2>2. stack[t] # <<>> => stack[t][Len(stack[t])].stage = "RUNNING"
    BY <1>1, <2>1, NewestFacts DEF Stages, InCharge, Holding
  <2>3. /\ q \in Seq(Frame) /\ StackOK(t, q, P, S, runs)
        /\ \A d \in Class : ChargeOK(d, t, stack[t]) => ChargeOK(d, t, q)
    BY <2>1, <2>2, StackPushed DEF StackOK
  <2>4. q[Len(q)] = initialFrame(c) /\ Len(q) = Len(stack[t]) + 1 /\ q # <<>>
    <3>1. initialFrame(c) \in Frame
      BY DEF initialFrame, Frame, Stages, Throwables
    <3> QED BY <2>1, <3>1, FrameAdded
  <2>5. stack' = [stack EXCEPT ![t] = q]
    BY <1>3
  <2> HIDE DEF q
  <2>6. /\ P' \in [Class -> Thread \cup {NULL}] /\ S' \in [Class -> Statuses]
        /\ runs' \in [Class -> Nat] /\ P' = P /\ S' = S /\ runs' = runs
        /\ thrown' \in [Thread -> Throwables] /\ thrown' = thrown
    BY <1>1, <1>3 DEF ClassTypeOK, P, S
  <2>7. \A u \in Thread \ {t} : KeptFor(u, P, S, runs, P', S', runs')
    BY <2>6 DEF KeptFor
  <2>8. \A d \in Class : RunsOK(d, P', S', runs')
    BY <2>6 DEF StacksInv, RunsOK, P, S
  <2>9. \A d \in Class : P'[d] # NULL => (P'[d] = t /\ ChargeOK(d, t, q)) \/ (P'[d] = P[d] /\ P[d] # t)
    <3> SUFFICES ASSUME NEW d \in Class, P[d] = t PROVE ChargeOK(d, t, q)
      BY <2>6
    <3> QED BY <2>3, InChargeBelow DEF ChargeOK
  <2>10. ClassTypeOK' /\ StacksInv'
    BY <1>1, <2>3, <2>5, <2>6, <2>7, <2>8, <2>9, ThreadStep
  <2>11. stack'[t] = q /\ \A u \in Thread \ {t} : stack'[u] = stack[u]
    BY <2>5 DEF ClassTypeOK
  <2>12. Stage(t)' = "INITIAL_STAGE"
    BY <2>4, <2>11 DEF Stage, Last, initialFrame
  <2> QED BY <1>1, <1>2, <2>6, <2>10, <2>11, <2>12, TheRest DEF vars, Holding
<1>4. CASE thrown' = [thrown EXCEPT ![t] = "Throwable"] /\ UNCHANGED stack
  <2>1. ClassTypeOK'
    BY <1>1, <1>4 DEF ClassTypeOK, Throwables
  <2>2. \A u \in Thread : thrown'[u] # NULL => Stage(u)' \in {"NONE", "RUNNING"}
    BY <1>1, <1>4 DEF ClassTypeOK, StacksInv, Stage
  <2>3. StacksInv'
    BY <1>1, <1>4, <2>2 DEF StacksInv
  <2>4. P' = P /\ waiting' = waiting /\ Stage(t)' \notin Holding /\ Stage(t) # "NOTIFY"
    BY <1>1, <1>4 DEF P, vars, Stage, Holding
  <2> QED BY <1>2, <1>4, <2>1, <2>3, <2>4, TheRest
<1> QED BY <1>3, <1>4 DEF UseClass

LEMMA ClinitReturnsStep ==
    ASSUME ClassInv, NEW t \in Thread, NEW e \in Throwables, stack[t] # <<>>,
           Ready(t), Stage(t) = "RUNNING",
           SetNewest(t, FrameAt(t, "COMPLETED_CLINIT", e)),
           UNCHANGED <<vars, initializationStatus, pInitializingThread, runs>>,
           thrown' \in [Thread -> Throwables], thrown'[t] = NULL,
           \A u \in Thread \ {t} : thrown'[u] = thrown[u]
    PROVE  OwnInv'
<1> USE DEF ClassInv, OwnInv
<1>1. \A u \in Thread : inside'[u] = inside[u] /\ (Ready(u) => Ready(u)')
  BY DEF vars, Ready, Queued
<1>2. /\ P' \in [Class -> Thread \cup {NULL}] /\ S' \in [Class -> Statuses]
      /\ runs' \in [Class -> Nat] /\ P' = P /\ S' = S /\ runs' = runs /\ waiting' = waiting
  BY DEF ClassTypeOK, P, S, vars
<1>3. NewestOK(t, stack[t], P, S, runs) /\ ClassOf(t) \in Class /\ stack[t][Len(stack[t])].stage = "RUNNING"
      /\ stack[t][Len(stack[t])].class = ClassOf(t)
  BY NewestFacts
<1>4. P[ClassOf(t)] = t /\ S[ClassOf(t)] = "UNINITIALIZED"
  BY <1>3 DEF NewestOK, InCharge
<1>5. RunsOK(ClassOf(t), P', S', runs')
  BY <1>2, <1>3 DEF StacksInv, RunsOK, P, S
<1>6. "COMPLETED_CLINIT" \in Stages /\ "COMPLETED_CLINIT" \in InCharge /\ "RUNNING" \in InCharge
      /\ "COMPLETED_CLINIT" \notin Holding
  BY DEF Stages, InCharge, Holding
<1>7. /\ ClassTypeOK' /\ StacksInv'
      /\ Stage(t)' = "COMPLETED_CLINIT" /\ ClassOf(t)' = ClassOf(t)
      /\ \A u \in Thread \ {t} : stack'[u] = stack[u]
  BY <1>2, <1>4, <1>5, <1>6, StageTaken
<1> QED BY <1>1, <1>2, <1>6, <1>7, TheRest

LEMMA ProgramsSteps ==
    ASSUME ClassInv, NEW t \in Thread,
           \/ \E e \in {NULL, "Throwable"} : ClinitReturns(t, e)
           \/ Catch(t)
           \/ \E c \in Class : MonitorEnterClass(t, c) \/ MonitorExitClass(t, c)
    PROVE  OwnInv'
<1> USE DEF ClassInv, OwnInv
<1>1. ASSUME NEW e \in {NULL, "Throwable"}, ClinitReturns(t, e) PROVE OwnInv'
  <2>1. /\ Ready(t) /\ thrown[t] = NULL /\ stack[t] # <<>> /\ Stage(t) \in {"NONE", "RUNNING"}
        /\ UNCHANGED <<vars, initializationStatus, pInitializingThread, runs, thrown>>
        /\ stack' = [stack EXCEPT ![t][Len(stack[t])] =
                        [@ EXCEPT !.stage = "COMPLETED_CLINIT", !.thrownThrowable = e]]
    BY <1>1 DEF ClinitReturns, ProgramRuns
  <2>2. Stage(t) = "RUNNING" /\ e \in Throwables /\ thrown' \in [Thread -> Throwables]
    BY <2>1, NewestFacts DEF Stages, InCharge, Holding, Throwables, ClassTypeOK
  <2>3. SetNewest(t, FrameAt(t, "COMPLETED_CLINIT", e))
    BY <2>1, FrameAssigned
  <2> QED BY <2>1, <2>2, <2>3, ClinitReturnsStep
<1>2. CASE Catch(t)
  <2>1. /\ Ready(t) /\ thrown[t] # NULL /\ thrown' = [thrown EXCEPT ![t] = NULL]
        /\ UNCHANGED <<vars, initializationStatus, pInitializingThread, runs>>
        /\ Stage(t) \in {"NONE", "RUNNING"}
    BY <1>2 DEF Catch, StacksInv
  <2>2. thrown' \in [Thread -> Throwables] /\ thrown'[t] = NULL
        /\ \A u \in Thread \ {t} : thrown'[u] = thrown[u]
    BY <2>1 DEF ClassTypeOK, Throwables
  <2>3. CASE UNCHANGED stack
    <3>1. ClassTypeOK'
      BY <2>1, <2>2, <2>3 DEF ClassTypeOK
    <3>2. \A u \in Thread : thrown'[u] # NULL => Stage(u)' \in {"NONE", "RUNNING"}
      BY <2>2, <2>3 DEF StacksInv, Stage
    <3>3. StacksInv'
      BY <2>1, <2>3, <3>2 DEF StacksInv
    <3>4. P' = P /\ waiting' = waiting /\ Stage(t)' \notin Holding /\ Stage(t) # "NOTIFY"
      BY <2>1, <2>3 DEF P, vars, Stage, Holding
    <3>5. \A u \in Thread : inside'[u] = inside[u] /\ (Ready(u) => Ready(u)')
      BY <2>1 DEF vars, Ready, Queued
    <3> QED BY <2>3, <3>1, <3>3, <3>4, <3>5, TheRest
  <2>4. CASE /\ stack[t] # <<>>
             /\ stack' = [stack EXCEPT ![t][Len(stack[t])] =
                    [@ EXCEPT !.stage = "COMPLETED_CLINIT", !.thrownThrowable = thrown[t]]]
    <3>1. Stage(t) = "RUNNING" /\ thrown[t] \in Throwables
      BY <2>1, <2>4, NewestFacts DEF Stages, InCharge, Holding, ClassTypeOK
    <3> DEFINE e == thrown[t]
    <3>2. SetNewest(t, FrameAt(t, "COMPLETED_CLINIT", e))
      BY <2>4, FrameAssigned
    <3>3. e \in Throwables
      BY <3>1
    <3> HIDE DEF e
    <3> QED BY <2>1, <2>2, <2>4, <3>1, <3>2, <3>3, ClinitReturnsStep
  <2> QED BY <1>2, <2>3, <2>4 DEF Catch
<1>3. ASSUME NEW c \in Class, MonitorEnterClass(t, c) \/ MonitorExitClass(t, c) PROVE OwnInv'
  <2>1. /\ stack[t] = <<>> /\ (Enter(t, c) \/ Exit(t, c))
        /\ UNCHANGED classVars
    BY <1>3 DEF MonitorEnterClass, MonitorExitClass
  <2>2. /\ UNCHANGED waiting
        /\ \A u \in Thread \ {t} : inside'[u] = inside[u] /\ (Ready(u) => Ready(u)')
    BY <2>1, Entered, Exited
  <2>3. ClassTypeOK' /\ StacksInv'
    BY <2>1, NothingOfClasses
  <2>4. stack' = stack /\ P' = P /\ Stage(t)' = "NONE" /\ Stage(t) = "NONE"
    BY <2>1 DEF classVars, P, Stage
  <2> QED BY <2>2, <2>3, <2>4, TheRest DEF Holding
<1> QED BY <1>1, <1>2, <1>3

LEMMA InitialStageStep ==
    ASSUME ClassInv, NEW t \in Thread, InitialStage(t)
    PROVE  OwnInv'
<1> USE DEF ClassInv, OwnInv
<1>1. /\ Ready(t) /\ stack[t] # <<>> /\ Stage(t) = "INITIAL_STAGE"
      /\ UNCHANGED <<initializationStatus, pInitializingThread, runs>>
  BY DEF InitialStage, At, Stage
<1>2. /\ NewestOK(t, stack[t], P, S, runs) /\ ClassOf(t) \in Class /\ thrown[t] = NULL
      /\ stack[t][Len(stack[t])] = Last(stack[t]) /\ Last(stack[t]).stage = "INITIAL_STAGE"
  BY <1>1, NewestFacts
<1>3. Last(stack[t]).thrownThrowable = NULL
  BY <1>2 DEF NewestOK
<1>4. /\ P' \in [Class -> Thread \cup {NULL}] /\ S' \in [Class -> Statuses]
      /\ runs' \in [Class -> Nat] /\ P' = P /\ S' = S /\ runs' = runs
  BY <1>1 DEF ClassTypeOK, P, S
<1>5. CASE Enter(t, ClassOf(t)) /\ Goto(t, "ENTERED_MONITOR") /\ UNCHANGED thrown
  <2>1. /\ UNCHANGED waiting /\ inside'[t][ClassOf(t)] > 0
        /\ \A u \in Thread \ {t} : inside'[u] = inside[u] /\ (Ready(u) => Ready(u)')
    BY <1>2, <1>5, Entered
  <2>2. SetNewest(t, FrameAt(t, "ENTERED_MONITOR", NULL))
    BY <1>1, <1>3, <1>5, FrameAssigned
  <2>3. "ENTERED_MONITOR" \in Stages /\ "ENTERED_MONITOR" \notin InCharge /\ Stage(t) \notin InCharge
        /\ NULL \in Throwables /\ thrown' \in [Thread -> Throwables] /\ thrown' = thrown
    BY <1>1, <1>5 DEF Stages, InCharge, Holding, Throwables, ClassTypeOK
  <2>4. RunsOK(ClassOf(t), P', S', runs')
    BY <1>2, <1>4 DEF StacksInv, RunsOK, P, S
  <2>5. /\ ClassTypeOK' /\ StacksInv'
        /\ Stage(t)' = "ENTERED_MONITOR" /\ ClassOf(t)' = ClassOf(t)
        /\ \A u \in Thread \ {t} : stack'[u] = stack[u]
    BY <1>1, <1>2, <1>4, <2>2, <2>3, <2>4, StageTaken
  <2> QED BY <1>1, <1>4, <2>1, <2>5, TheRest
<1>6. CASE popAndThrow(t, "Throwable") /\ UNCHANGED vars
  <2>1. "Throwable" \in Throwables \ {NULL} /\ Stage(t) \notin InCharge
    BY <1>1, Unequal DEF Throwables, InCharge
  <2>2. \E e \in Throwables \ {NULL} : popAndThrow(t, e)
    BY <1>6, <2>1
  <2>3. /\ ClassTypeOK' /\ StacksInv'
        /\ Stage(t)' \in {"NONE", "RUNNING", "COMPLETED_SUPER_CLINIT"}
        /\ \A u \in Thread \ {t} : stack'[u] = stack[u]
    BY <1>1, <2>1, <2>2, FramePopped
  <2>4. /\ \A u \in Thread : inside'[u] = inside[u] /\ (Ready(u) => Ready(u)')
        /\ waiting' = waiting
    BY <1>6 DEF vars, Ready, Queued
  <2> QED BY <1>1, <1>4, <2>3, <2>4, TheRest DEF Holding
<1> QED BY <1>5, <1>6 DEF InitialStage

LEMMA FindInitializedStep ==
    ASSUME ClassInv, NEW t \in Thread, FindInitialized(t) \/ FindErroneous(t) \/ WaitForOther(t)
    PROVE  OwnInv'
<1> USE DEF ClassInv, OwnInv
<1>1. /\ Ready(t) /\ stack[t] # <<>> /\ Stage(t) = "ENTERED_MONITOR"
      /\ UNCHANGED <<initializationStatus, pInitializingThread, runs>>
  BY DEF FindInitialized, FindErroneous, WaitForOther, At, Stage, classVars
<1>2. ClassOf(t) \in Class /\ Stage(t) \notin InCharge /\ P' = P
  BY <1>1, NewestFacts DEF InCharge, P
<1>3. CASE FindInitialized(t) \/ FindErroneous(t)
  <2>1. Exit(t, ClassOf(t))
    BY <1>3 DEF FindInitialized, FindErroneous
  <2>2. /\ UNCHANGED waiting
        /\ \A u \in Thread \ {t} : inside'[u] = inside[u] /\ (Ready(u) => Ready(u)')
    BY <1>2, <2>1, Exited
  <2>3. "Throwable" \in Throwables \ {NULL}
    BY Unequal DEF Throwables
  <2>4. \/ popCurrentFrame(t) /\ (S[ClassOf(t)] = "INITIALIZED" \/ P[ClassOf(t)] = t)
        \/ \E e \in Throwables \ {NULL} : popAndThrow(t, e)
    BY <1>3, <2>3 DEF FindInitialized, FindErroneous, classIsInitialized, P, S
  <2>5. /\ ClassTypeOK' /\ StacksInv'
        /\ Stage(t)' \in {"NONE", "RUNNING", "COMPLETED_SUPER_CLINIT"}
        /\ \A u \in Thread \ {t} : stack'[u] = stack[u]
    BY <1>1, <1>2, <2>4, FramePopped
  <2> QED BY <1>1, <1>2, <2>2, <2>5, TheRest DEF Holding
<1>4. CASE WaitForOther(t)
  <2>1. Wait(t, ClassOf(t)) /\ UNCHANGED classVars /\ P[ClassOf(t)] # NULL
    BY <1>4 DEF WaitForOther, classInitializationHasStarted, P
  <2>2. /\ UNCHANGED inside
        /\ \A n \in Class \ {ClassOf(t)} : waiting'[n] = waiting[n]
        /\ \A u \in Thread \ {t} : Ready(u) => Ready(u)'
    BY <1>2, <2>1, WaitBegun
  <2>3. ClassTypeOK' /\ StacksInv'
    BY <2>1, NothingOfClasses
  <2>4. stack' = stack /\ Stage(t)' = "ENTERED_MONITOR" /\ ClassOf(t)' = ClassOf(t)
    BY <1>1, <2>1 DEF classVars, Stage, ClassOf
  <2>5. inside[t][ClassOf(t)] > 0
    BY <1>1 DEF HoldingInv, Holding
  <2> QED BY <1>1, <1>2, <2>1, <2>2, <2>3, <2>4, <2>5, TheRest
<1> QED BY <1>3, <1>4

LEMMA SetInitializingThreadStep ==
    ASSUME ClassInv, NEW t \in Thread, SetInitializingThread(t)
    PROVE  OwnInv'
<1> USE DEF ClassInv, OwnInv
<1> DEFINE c == ClassOf(t)
<1>1. /\ Ready(t) /\ stack[t] # <<>> /\ Stage(t) = "ENTERED_MONITOR"
      /\ UNCHANGED <<initializationStatus, runs, thrown>>
      /\ P[c] = NULL /\ S[c] = "UNINITIALIZED" /\ Exit(t, c) /\ Goto(t, "MARKED")
      /\ P' = [P EXCEPT ![c] = t]
  BY DEF SetInitializingThread, At, Stage, P, S, classInitializationHasStarted
<1>2. /\ NewestOK(t, stack[t], P, S, runs) /\ c \in Class /\ thrown[t] = NULL
      /\ stack[t][Len(stack[t])] = Last(stack[t]) /\ Last(stack[t]).stage = "ENTERED_MONITOR"
  BY <1>1, NewestFacts
<1>3. Last(stack[t]).thrownThrowable = NULL /\ runs[c] = 0
  BY <1>1, <1>2 DEF NewestOK, StacksInv, RunsOK, P, S
<1>4. /\ P' \in [Class -> Thread \cup {NULL}] /\ S' \in [Class -> Statuses]
      /\ runs' \in [Class -> Nat] /\ S' = S /\ runs' = runs
      /\ P'[c] = t /\ \A d \in Class \ {c} : P'[d] = P[d]
  BY <1>1, <1>2 DEF ClassTypeOK, P, S
<1>5. /\ UNCHANGED waiting
      /\ \A u \in Thread \ {t} : inside'[u] = inside[u] /\ (Ready(u) => Ready(u)')
  BY <1>1, <1>2, Exited
<1>6. SetNewest(t, FrameAt(t, "MARKED", NULL))
  BY <1>1, <1>3, FrameAssigned
<1>7. "MARKED" \in Stages /\ "MARKED" \in InCharge /\ Stage(t) \notin InCharge /\ "MARKED" \notin Holding
      /\ NULL \in Throwables /\ thrown' \in [Thread -> Throwables] /\ thrown' = thrown
  BY <1>1 DEF Stages, InCharge, Holding, Throwables, ClassTypeOK
<1>8. RunsOK(c, P', S', runs')
  BY <1>3, <1>4 DEF RunsOK
<1>9. /\ ClassTypeOK' /\ StacksInv'
      /\ Stage(t)' = "MARKED" /\ ClassOf(t)' = ClassOf(t)
      /\ \A u \in Thread \ {t} : stack'[u] = stack[u]
  BY <1>1, <1>2, <1>3, <1>4, <1>6, <1>7, <1>8, StageTaken
<1>10. t # NULL
  BY MonitorsAssumption
<1> HIDE DEF c
<1>11. \A d \in Class : P[d] # NULL => P'[d] # NULL
  BY <1>4, <1>10
<1> QED BY <1>1, <1>5, <1>7, <1>9, <1>11, TheRest

\* A superclass that a thread finds initialised, or marked with itself, is ready.
LEMMA SuperFound ==
    ASSUME ClassTypeOK, StacksInv, NEW t \in Thread, stack[t] # <<>>, NEW f \in Frame,
           f.class = ClassOf(t), Stage(t) \in InCharge => f.stage \in InCharge,
           \/ pSuperClass[ClassOf(t)] = NULL
           \/ classIsInitialized(pSuperClass[ClassOf(t)], t)
    PROVE  SuperReady([stack[t] EXCEPT ![Len(stack[t])] = f], Len(stack[t]), S)
<1> DEFINE s == stack[t]
           n == Len(stack[t])
           q == [stack[t] EXCEPT ![n] = f]
           above == pSuperClass[ClassOf(t)]
<1>1. /\ s \in Seq(Frame) /\ n \in Nat \ {0} /\ n \in 1 .. n /\ s[n].stage = Stage(t)
      /\ s[n].class = ClassOf(t) /\ ClassOf(t) \in Class
  BY NewestFacts, SMT
<1>2. Len(q) = n /\ \A k \in 1 .. n : q[k] = IF k = n THEN f ELSE s[k]
  BY <1>1, NewestReplaced
<1>3. above \in Class \cup {NULL}
  BY <1>1, ClassInitAssumption
<1> SUFFICES SuperReady(q, n, S)
  OBVIOUS
<1> HIDE DEF q, n
<1>4. q[n].class = ClassOf(t)
  BY <1>1, <1>2
<1>5. CASE above # NULL /\ P[above] = t
  <2>1. PICK k \in 1 .. Len(stack[t]) : s[k].class = above /\ s[k].stage \in InCharge
    BY <1>3, <1>5, InChargeBelow
  <2>2. k \in 1 .. n /\ q[k].class = above /\ q[k].stage \in InCharge
    BY <1>1, <1>2, <2>1 DEF n
  <2> QED BY <1>4, <2>2 DEF SuperReady
<1>6. CASE above = NULL \/ S[above] = "INITIALIZED"
  BY <1>4, <1>6 DEF SuperReady
<1> QED BY <1>5, <1>6 DEF classIsInitialized, P, S

LEMMA InitializeSuperStep ==
    ASSUME ClassInv, NEW t \in Thread, InitializeSuper(t)
    PROVE  OwnInv'
<1> USE DEF ClassInv, OwnInv
<1> DEFINE s == stack[t]
           c == ClassOf(t)
           above == pSuperClass[ClassOf(t)]
           done(e) == FrameAt(t, "COMPLETED_SUPER_CLINIT", e)
<1>1. /\ Ready(t) /\ stack[t] # <<>> /\ Stage(t) = "MARKED"
      /\ UNCHANGED <<vars, initializationStatus, pInitializingThread, thrown, runs>>
  BY DEF InitializeSuper, At, Stage
<1>2. /\ NewestOK(t, s, P, S, runs) /\ c \in Class /\ thrown[t] = NULL /\ s \in Seq(Frame)
      /\ s[Len(s)] = Last(s) /\ Last(s).stage = "MARKED" /\ Last(s) \in Frame /\ Last(s).class = c
      /\ FramesOK(t, s, P, S, runs)
  BY <1>1, NewestFacts
<1>3. /\ Last(s).thrownThrowable = NULL /\ runs[c] = 0
      /\ P[c] = t /\ S[c] = "UNINITIALIZED"
  BY <1>2 DEF NewestOK, InCharge
<1>4. /\ P' \in [Class -> Thread \cup {NULL}] /\ S' \in [Class -> Statuses]
      /\ runs' \in [Class -> Nat] /\ P' = P /\ S' = S /\ runs' = runs
      /\ thrown' \in [Thread -> Throwables] /\ thrown' = thrown
  BY <1>1 DEF ClassTypeOK, P, S
<1>5. /\ \A u \in Thread : inside'[u] = inside[u] /\ (Ready(u) => Ready(u)')
      /\ waiting' = waiting
  BY <1>1 DEF vars, Ready, Queued
<1>6. /\ "COMPLETED_SUPER_CLINIT" \in Stages /\ "COMPLETED_SUPER_CLINIT" \in InCharge
      /\ Stage(t) \in InCharge /\ "COMPLETED_SUPER_CLINIT" \notin Holding /\ "INITIAL_STAGE" \notin Holding
      /\ NULL \in Throwables /\ "Throwable" \in Throwables
  BY <1>1 DEF Stages, InCharge, Holding, Throwables
<1>7. \A d \in Class : RunsOK(d, P', S', runs')
  BY <1>4 DEF StacksInv, RunsOK, P, S
<1>8. /\ [Last(s) EXCEPT !.stage = "COMPLETED_SUPER_CLINIT"] = done(NULL)
      /\ [done(NULL) EXCEPT !.thrownThrowable = "Throwable"] = done("Throwable")
  <2>1. Last(s) = [class |-> c, stage |-> "MARKED", thrownThrowable |-> NULL]
    BY <1>2, <1>3 DEF Frame
  <2>2. [Last(s) EXCEPT !.stage = "COMPLETED_SUPER_CLINIT"] = done(NULL)
    BY <2>1, SMT DEF FrameAt
  <2>3. [done(NULL) EXCEPT !.thrownThrowable = "Throwable"] = done("Throwable")
    BY SMT DEF FrameAt
  <2> QED BY <2>2, <2>3
<1>9. \A e \in Throwables : /\ done(e) \in Frame /\ done(e).class = c /\ done(e).thrownThrowable = e
                            /\ done(e).stage = "COMPLETED_SUPER_CLINIT"
  BY <1>2, <1>6 DEF Frame, FrameAt
<1>10. ASSUME NEW e \in Throwables, stack' = [stack EXCEPT ![t] = Front(@) \o <<done(e)>>],
              e = NULL => above = NULL \/ classIsInitialized(above, t)
       PROVE  OwnInv'
  <2>1. Front(s) \o <<done(e)>> = [s EXCEPT ![Len(s)] = done(e)]
    BY <1>1, <1>2, <1>9, FrontAndFrames
  <2>2. SetNewest(t, FrameAt(t, "COMPLETED_SUPER_CLINIT", e))
    BY <1>10, <2>1 DEF SetNewest
  <2>3. e = NULL => SuperReady([stack[t] EXCEPT ![Len(stack[t])] = done(e)], Len(stack[t]), S')
    BY <1>1, <1>4, <1>6, <1>9, <1>10, SuperFound
  <2>4. /\ ClassTypeOK' /\ StacksInv'
        /\ Stage(t)' = "COMPLETED_SUPER_CLINIT" /\ ClassOf(t)' = ClassOf(t)
        /\ \A u \in Thread \ {t} : stack'[u] = stack[u]
    BY <1>1, <1>2, <1>3, <1>4, <1>6, <1>7, <2>2, <2>3, StageTaken
  <2> QED BY <1>1, <1>4, <1>5, <1>6, <2>4, TheRest
<1>11. ASSUME above # NULL,
              stack' = [stack EXCEPT ![t] = Front(@) \o <<done(NULL), initialFrame(above)>>]
       PROVE  OwnInv'
  <2> DEFINE f == done(NULL)
             r == [s EXCEPT ![Len(s)] = f]
             q == Append(r, initialFrame(above))
  <2>1. above \in Class /\ initialFrame(above) \in Frame /\ f \in Frame
    BY <1>2, <1>6, <1>9, <1>11, ClassInitAssumption DEF initialFrame, Frame, Stages
  <2>2. Front(s) \o <<f, initialFrame(above)>> = q
    BY <1>1, <1>2, <2>1, FrontAndFrames
  <2>3. stack' = [stack EXCEPT ![t] = q]
    BY <1>11, <2>2
  <2>4. /\ r \in Seq(Frame) /\ r # <<>> /\ Len(r) = Len(s)
        /\ \A k \in 1 .. Len(s) : r[k] = IF k = Len(s) THEN f ELSE s[k]
    BY <1>1, <1>2, <2>1, NewestReplaced
  <2>5. Len(s) \in Nat \ {0} /\ Len(s) \in 1 .. Len(s) /\ r[Len(s)] = f
    BY <1>1, <1>2, <2>4, NewestFrame, SMT
  <2>6. f.class = c /\ f.stage = "COMPLETED_SUPER_CLINIT" /\ f.thrownThrowable = NULL
    BY <1>6, <1>9
  <2> HIDE DEF f
  <2>7. NewestOK(t, r, P, S, runs)
    BY <1>3, <2>4, <2>5, <2>6 DEF NewestOK
  <2>8. FramesOK(t, r, P, S, runs)
    <3>1. s[Len(s)].stage \in InCharge /\ f.class = s[Len(s)].class
      BY <1>1, <1>2, <1>6, <2>6
    <3> QED BY <1>1, <1>2, <2>1, <2>7, <3>1, StageChanged
  <2>9. r[Len(r)] = f /\ above = pSuperClass[f.class]
    BY <2>4, <2>5, <2>6
  <2> HIDE DEF r
  <2>10. /\ q \in Seq(Frame) /\ StackOK(t, q, P, S, runs)
         /\ \A d \in Class : ChargeOK(d, t, r) => ChargeOK(d, t, q)
    BY <2>1, <2>4, <2>6, <2>8, <2>9, StackPushed
  <2>11. q # <<>> /\ q[Len(q)] = initialFrame(above)
    BY <2>1, <2>4, FrameAdded
  <2> HIDE DEF q
  <2>12. \A d \in Class : P'[d] # NULL => (P'[d] = t /\ ChargeOK(d, t, q)) \/ (P'[d] = P[d] /\ P[d] # t)
    <3> SUFFICES ASSUME NEW d \in Class, P[d] = t PROVE ChargeOK(d, t, q)
      BY <1>4
    <3>1. PICK k \in 1 .. Len(s) : s[k].class = d /\ s[k].stage \in InCharge
      BY InChargeBelow
    <3>2. r[k].class = d /\ r[k].stage \in InCharge
      BY <1>2, <1>6, <2>4, <2>6, <3>1
    <3>3. ChargeOK(d, t, r)
      BY <2>4, <3>1, <3>2 DEF ChargeOK
    <3> QED BY <2>10, <3>3
  <2>13. \A u \in Thread \ {t} : KeptFor(u, P, S, runs, P', S', runs')
    BY <1>4 DEF KeptFor
  <2>14. StackOK(t, q, P', S', runs') /\ thrown'[t] = NULL
    BY <1>2, <1>4, <2>10
  <2>15. ClassTypeOK' /\ StacksInv'
    BY <1>4, <1>7, <2>3, <2>10, <2>12, <2>13, <2>14, ThreadStep
  <2>16. stack'[t] = q /\ \A u \in Thread \ {t} : stack'[u] = stack[u]
    BY <2>3 DEF ClassTypeOK
  <2>17. Stage(t)' = "INITIAL_STAGE"
    BY <2>11, <2>16 DEF Stage, Last, initialFrame
  <2> QED BY <1>1, <1>4, <1>5, <1>6, <2>15, <2>16, <2>17, TheRest
<1> HIDE DEF done
<1>12. \/ /\ above = NULL \/ classIsInitialized(above, t)
          /\ stack' = [stack EXCEPT ![t] = Front(@) \o <<done(NULL)>>]
       \/ /\ above # NULL
          /\ stack' = [stack EXCEPT ![t] = Front(@) \o <<done(NULL), initialFrame(above)>>]
       \/ stack' = [stack EXCEPT ![t] = Front(@) \o <<done("Throwable")>>]
  BY <1>8 DEF InitializeSuper
<1> QED BY <1>6, <1>10, <1>11, <1>12, Unequal

LEMMA CompletedSuperStep ==
    ASSUME ClassInv, NEW t \in Thread, CompletedSuper(t)
    PROVE  OwnInv'
<1> USE DEF ClassInv, OwnInv
<1> DEFINE s == stack[t]
           c == ClassOf(t)
           f == Last(stack[t])
           go(stage, e, n) == /\ SetNewest(t, FrameAt(t, stage, e))
                              /\ runs' = [runs EXCEPT ![c] = @ + n]
<1>1. /\ Ready(t) /\ stack[t] # <<>> /\ Stage(t) = "COMPLETED_SUPER_CLINIT"
      /\ UNCHANGED <<vars, initializationStatus, pInitializingThread, thrown>>
  BY DEF CompletedSuper, At, Stage
<1>2. /\ NewestOK(t, s, P, S, runs) /\ c \in Class /\ thrown[t] = NULL /\ s \in Seq(Frame)
      /\ s[Len(s)] = f /\ f.stage = "COMPLETED_SUPER_CLINIT" /\ f \in Frame /\ f.class = c
      /\ f.thrownThrowable \in Throwables /\ TopOK(s, S) /\ Len(s) \in Nat \ {0}
  BY <1>1, NewestFacts
<1>3. /\ runs[c] = 0 /\ P[c] = t /\ S[c] = "UNINITIALIZED" /\ t # NULL
  BY <1>2, MonitorsAssumption DEF NewestOK, InCharge
<1>4. /\ P' \in [Class -> Thread \cup {NULL}] /\ S' \in [Class -> Statuses]
      /\ P' = P /\ S' = S
      /\ thrown' \in [Thread -> Throwables] /\ thrown' = thrown
  BY <1>1 DEF ClassTypeOK, P, S
<1>5. /\ \A u \in Thread : inside'[u] = inside[u] /\ (Ready(u) => Ready(u)')
      /\ waiting' = waiting
  BY <1>1 DEF vars, Ready, Queued
<1>6. /\ {"FAILED", "COMPLETED_CLINIT", "RUNNING"} \subseteq Stages \cap InCharge
      /\ {"FAILED", "COMPLETED_CLINIT", "RUNNING"} \cap Holding = {}
      /\ Stage(t) \in InCharge
  BY <1>1 DEF Stages, InCharge, Holding
<1>7. ASSUME NEW stage \in {"FAILED", "COMPLETED_CLINIT", "RUNNING"}, NEW e \in Throwables,
             NEW n \in {0, 1}, go(stage, e, n), stage = "FAILED" => e # NULL,
             stage = "RUNNING" => f.thrownThrowable = NULL
      PROVE  OwnInv'
  <2>1. runs' \in [Class -> Nat] /\ runs'[c] = n /\ \A d \in Class \ {c} : runs'[d] = runs[d]
    BY <1>2, <1>3, <1>7 DEF ClassTypeOK
  <2>2. RunsOK(c, P', S', runs')
    BY <1>3, <1>4, <2>1 DEF RunsOK
  <2> DEFINE q == [stack[t] EXCEPT ![Len(stack[t])] = FrameAt(t, stage, e)]
  <2>3. stage = "RUNNING" => SuperReady(q, Len(stack[t]), S')
    <3> SUFFICES ASSUME stage = "RUNNING" PROVE SuperReady(q, Len(stack[t]), S')
      OBVIOUS
    <3>1. SuperReady(s, Len(s), S)
      BY <1>1, <1>2, <1>7 DEF TopOK
    <3>2. FrameAt(t, stage, e) \in Frame /\ FrameAt(t, stage, e).class = c
          /\ FrameAt(t, stage, e).stage \in InCharge
      BY <1>2, <1>6 DEF FrameAt, Frame
    <3>3. \A k \in 1 .. Len(s) : q[k] = IF k = Len(s) THEN FrameAt(t, stage, e) ELSE s[k]
      BY <1>1, <1>2, <3>2, NewestReplaced
    <3>4. Len(s) \in 1 .. Len(s)
      BY <1>2, SMT
    <3> HIDE DEF q
    <3>5. q[Len(s)].class = c
      BY <3>2, <3>3, <3>4
    <3>6. CASE pSuperClass[c] = NULL \/ S[pSuperClass[c]] = "INITIALIZED"
      BY <1>4, <3>5, <3>6 DEF SuperReady
    <3>7. CASE \E k \in 1 .. Len(s) : s[k].class = pSuperClass[c] /\ s[k].stage \in InCharge
      <4>1. PICK k \in 1 .. Len(s) : s[k].class = pSuperClass[c] /\ s[k].stage \in InCharge
        BY <3>7
      <4>2. q[k].class = pSuperClass[c] /\ q[k].stage \in InCharge
        BY <1>2, <3>2, <3>3, <4>1
      <4> QED BY <3>5, <4>1, <4>2 DEF SuperReady
    <3> QED BY <1>2, <3>1, <3>6, <3>7 DEF SuperReady
  <2>4. SetNewest(t, FrameAt(t, stage, e)) /\ stage \in Stages /\ stage \in InCharge /\ stage \notin Holding
    BY <1>6, <1>7
  <2>5. /\ ClassTypeOK' /\ StacksInv'
        /\ Stage(t)' = stage /\ ClassOf(t)' = ClassOf(t)
        /\ \A u \in Thread \ {t} : stack'[u] = stack[u]
    BY <1>1, <1>2, <1>3, <1>4, <1>6, <1>7, <2>1, <2>2, <2>3, <2>4, StageTaken
  <2> QED BY <1>1, <1>4, <1>5, <2>4, <2>5, TheRest
<1>8. \/ f.thrownThrowable # NULL /\ go("FAILED", f.thrownThrowable, 0)
      \/ f.thrownThrowable = NULL /\ go("COMPLETED_CLINIT", NULL, 0)
      \/ f.thrownThrowable = NULL /\ go("RUNNING", NULL, 1)
      \/ f.thrownThrowable = NULL /\ go("COMPLETED_CLINIT", "Throwable", 0)
  BY <1>1, <1>2, FrameAssigned DEF CompletedSuper
<1>9. NULL \in Throwables /\ "Throwable" \in Throwables
  BY DEF Throwables
<1> HIDE DEF go
<1> QED BY <1>2, <1>7, <1>8, <1>9

\* The stages from the end of <clinit> to the notification.
LEMMA LastStagesStep ==
    ASSUME ClassInv, NEW t \in Thread,
           CompletedClinit(t) \/ ClinitFailed(t) \/ SetStatus(t) \/ NotifyWaiting(t)
    PROVE  OwnInv'
<1> USE DEF ClassInv, OwnInv
<1> DEFINE s == stack[t]
           c == ClassOf(t)
           e == Last(stack[t]).thrownThrowable
<1>1. /\ Ready(t) /\ stack[t] # <<>> /\ UNCHANGED <<thrown, runs>>
      /\ Stage(t) \in {"COMPLETED_CLINIT", "FAILED", "ENTERED_MONITOR_UPON_COMPLETION",
                       "ENTERED_MONITOR_UPON_FAILURE", "NOTIFY"}
  BY DEF CompletedClinit, ClinitFailed, SetStatus, NotifyWaiting, At, Stage
<1>2. /\ NewestOK(t, s, P, S, runs) /\ c \in Class /\ thrown[t] = NULL /\ s \in Seq(Frame)
      /\ s[Len(s)] = Last(s) /\ Last(s).stage = Stage(t) /\ Last(s).class = c
      /\ e \in Throwables
  BY <1>1, NewestFacts
<1>3. /\ Stage(t) \in InCharge => P[c] = t /\ S[c] = "UNINITIALIZED"
      /\ Stage(t) \in {"FAILED", "ENTERED_MONITOR_UPON_FAILURE"} => e # NULL
      /\ Stage(t) = "NOTIFY" /\ e = NULL => S[c] = "INITIALIZED"
      /\ RunsOK(c, P, S, runs)
  BY <1>2 DEF NewestOK, StacksInv, P, S
<1>4. /\ P \in [Class -> Thread \cup {NULL}] /\ S \in [Class -> Statuses]
      /\ runs' \in [Class -> Nat] /\ runs' = runs
      /\ thrown' \in [Thread -> Throwables] /\ thrown' = thrown
  BY <1>1 DEF ClassTypeOK, P, S
<1> HIDE DEF e
<1>5. CASE CompletedClinit(t) \/ ClinitFailed(t)
  <2> DEFINE next(stage) == stage \in {"FAILED", "ENTERED_MONITOR_UPON_COMPLETION",
                                       "ENTERED_MONITOR_UPON_FAILURE"}
  <2>1. PICK stage : /\ next(stage) /\ Goto(t, stage)
                     /\ stage \in {"FAILED", "ENTERED_MONITOR_UPON_FAILURE"} => e # NULL
                     /\ (stage = "FAILED" /\ UNCHANGED vars) \/ (stage # "FAILED" /\ Enter(t, c))
    BY <1>3, <1>5 DEF CompletedClinit, ClinitFailed, At, Stage, e
  <2>2. P' = P /\ S' = S
    BY <1>5 DEF CompletedClinit, ClinitFailed, P, S
  <2>3. /\ waiting' = waiting /\ \A u \in Thread \ {t} : inside'[u] = inside[u] /\ (Ready(u) => Ready(u)')
        /\ stage # "FAILED" => inside'[t][c] > 0
    <3>1. CASE UNCHANGED vars /\ stage = "FAILED"
      BY <3>1 DEF vars, Ready, Queued
    <3>2. CASE Enter(t, c)
      BY <1>2, <3>2, Entered
    <3> QED BY <2>1, <3>1, <3>2
  <2>4. /\ stage \in Stages /\ stage \in InCharge /\ Stage(t) \in InCharge /\ "FAILED" \notin Holding
        /\ stage \notin {"MARKED", "COMPLETED_SUPER_CLINIT", "INITIAL_STAGE", "ENTERED_MONITOR",
                         "NOTIFY", "EXIT", "RUNNING"}
    <3>1. Stage(t) \in {"COMPLETED_CLINIT", "FAILED"}
      BY <1>5 DEF CompletedClinit, ClinitFailed, At
    <3> QED BY <2>1, <3>1 DEF Stages, InCharge, Holding
  <2>5. SetNewest(t, FrameAt(t, stage, e))
    BY <1>1, <2>1, FrameAssigned DEF e
  <2>6. RunsOK(c, P', S', runs')
    BY <1>3, <1>4, <2>2
  <2> HIDE DEF next
  <2>7. /\ ClassTypeOK' /\ StacksInv'
        /\ Stage(t)' = stage /\ ClassOf(t)' = ClassOf(t)
        /\ \A u \in Thread \ {t} : stack'[u] = stack[u]
    BY <1>1, <1>2, <1>3, <1>4, <2>1, <2>2, <2>4, <2>5, <2>6, StageTaken
  <2>8. Stage(t) # "NOTIFY"
    BY <2>4 DEF InCharge
  <2> QED BY <1>1, <2>2, <2>3, <2>4, <2>7, <2>8, TheRest
<1>6. CASE SetStatus(t)
  <2>1. PICK stage \in {"ENTERED_MONITOR_UPON_COMPLETION", "ENTERED_MONITOR_UPON_FAILURE"} :
            /\ Stage(t) = stage
            /\ S' = [S EXCEPT ![c] = IF stage = "ENTERED_MONITOR_UPON_FAILURE"
                                     THEN "ERRONEOUS" ELSE "INITIALIZED"]
            /\ P' = [P EXCEPT ![c] = NULL]
            /\ Goto(t, "NOTIFY") /\ UNCHANGED vars
    BY <1>6 DEF SetStatus, At, P, S
  <2>2. /\ P' \in [Class -> Thread \cup {NULL}] /\ S' \in [Class -> Statuses]
        /\ P'[c] = NULL /\ S'[c] = IF stage = "ENTERED_MONITOR_UPON_FAILURE"
                                   THEN "ERRONEOUS" ELSE "INITIALIZED"
        /\ \A d \in Class \ {c} : P'[d] = P[d] /\ S'[d] = S[d]
    BY <1>2, <1>4, <2>1 DEF Statuses
  <2>3. /\ "NOTIFY" \in Stages /\ "NOTIFY" \notin InCharge /\ Stage(t) \in InCharge /\ Stage(t) \in Holding
    BY <2>1 DEF Stages, InCharge, Holding
  <2>4. SetNewest(t, FrameAt(t, "NOTIFY", e))
    BY <1>1, <2>1, FrameAssigned DEF e
  <2>5. RunsOK(c, P', S', runs')
    BY <1>3, <1>4, <2>2 DEF RunsOK
  <2>6. e = NULL => S'[c] = "INITIALIZED"
    BY <1>3, <2>1, <2>2
  <2>7. /\ ClassTypeOK' /\ StacksInv'
        /\ Stage(t)' = "NOTIFY" /\ ClassOf(t)' = ClassOf(t)
        /\ \A u \in Thread \ {t} : stack'[u] = stack[u]
    BY <1>1, <1>2, <1>3, <1>4, <2>2, <2>3, <2>4, <2>5, <2>6, StageTaken
  <2>8. /\ \A u \in Thread : inside'[u] = inside[u] /\ (Ready(u) <=> Ready(u)')
        /\ waiting' = waiting
    BY <2>1 DEF vars, Ready, Queued
  <2>9. inside[t][c] > 0
    BY <2>3 DEF HoldingInv
  <2>10. At(t, "NOTIFY")' /\ ClassOf(t)' = c
    BY <1>1, <2>7, <2>8 DEF At
  <2>11. Stage(t) # "NOTIFY"
    BY <2>3 DEF InCharge
  <2> QED BY <2>2, <2>7, <2>8, <2>9, <2>10, <2>11, TheRest
<1>7. CASE NotifyWaiting(t)
  <2>1. /\ Stage(t) = "NOTIFY" /\ Goto(t, "EXIT") /\ P' = P /\ S' = S
        /\ (waiting[c] = <<>> /\ UNCHANGED vars) \/ NotifyAll(t, c)
    BY <1>7 DEF NotifyWaiting, At, P, S
  <2>2. /\ inside' = inside /\ \A u \in Thread : Ready(u) => Ready(u)'
        /\ waiting'[c] = <<>> /\ \A d \in Class \ {c} : waiting'[d] = waiting[d]
    <3>1. CASE waiting[c] = <<>> /\ UNCHANGED vars
      BY <3>1 DEF vars, Ready, Queued
    <3>2. CASE NotifyAll(t, c)
      BY <1>2, <3>2, AllNotified
    <3> QED BY <2>1, <3>1, <3>2
  <2>3. /\ "EXIT" \in Stages /\ "EXIT" \notin InCharge /\ Stage(t) \notin InCharge /\ Stage(t) \in Holding
    BY <2>1 DEF Stages, InCharge, Holding
  <2>4. SetNewest(t, FrameAt(t, "EXIT", e))
    BY <1>1, <2>1, FrameAssigned DEF e
  <2>5. RunsOK(c, P', S', runs')
    BY <1>3, <1>4, <2>1
  <2>6. /\ ClassTypeOK' /\ StacksInv'
        /\ Stage(t)' = "EXIT" /\ ClassOf(t)' = ClassOf(t)
        /\ \A u \in Thread \ {t} : stack'[u] = stack[u]
    BY <1>1, <1>2, <1>3, <1>4, <2>1, <2>3, <2>4, <2>5, StageTaken
  <2>7. inside[t][c] > 0
    BY <2>3 DEF HoldingInv
  <2> QED BY <2>1, <2>2, <2>6, <2>7, TheRest
<1> QED BY <1>5, <1>6, <1>7

LEMMA FinishStep ==
    ASSUME ClassInv, NEW t \in Thread, Finish(t)
    PROVE  OwnInv'
<1> USE DEF ClassInv, OwnInv
<1> DEFINE e == Last(stack[t]).thrownThrowable
<1>1. /\ Ready(t) /\ stack[t] # <<>> /\ Stage(t) = "EXIT" /\ Exit(t, ClassOf(t))
      /\ UNCHANGED <<initializationStatus, pInitializingThread, runs>>
  BY DEF Finish, At, Stage
<1>2. ClassOf(t) \in Class /\ Stage(t) \notin InCharge /\ P' = P /\ NewestOK(t, stack[t], P, S, runs)
      /\ stack[t][Len(stack[t])] = Last(stack[t])
      /\ Last(stack[t]).stage = "EXIT" /\ Last(stack[t]).class = ClassOf(t)
  BY <1>1, NewestFacts DEF InCharge, P
<1>3. e = NULL => S[ClassOf(t)] = "INITIALIZED"
  BY <1>2 DEF NewestOK
<1>4. /\ UNCHANGED waiting
      /\ \A u \in Thread \ {t} : inside'[u] = inside[u] /\ (Ready(u) => Ready(u)')
  BY <1>1, <1>2, Exited
<1>5. {"Throwable", "ExceptionInInitializerError"} \subseteq Throwables \ {NULL}
  BY Unequal DEF Throwables
<1>6. \/ popCurrentFrame(t) /\ (S[ClassOf(t)] = "INITIALIZED" \/ P[ClassOf(t)] = t)
      \/ \E x \in Throwables \ {NULL} : popAndThrow(t, x)
  BY <1>3, <1>5 DEF Finish
<1>7. /\ ClassTypeOK' /\ StacksInv'
      /\ Stage(t)' \in {"NONE", "RUNNING", "COMPLETED_SUPER_CLINIT"}
      /\ \A u \in Thread \ {t} : stack'[u] = stack[u]
  BY <1>1, <1>2, <1>6, FramePopped
<1> QED BY <1>1, <1>2, <1>4, <1>7, TheRest DEF Holding

LEMMA InterruptStep ==
    ASSUME ClassInv, NEW c \in Class, NEW k \in 1 .. Len(waiting[c]), Interrupt(c, k)
    PROVE  OwnInv'
<1> USE DEF ClassInv, OwnInv
<1>1. Awaken(c, k) /\ UNCHANGED classVars
  BY DEF Interrupt
<1>2. /\ UNCHANGED inside
      /\ \A n \in Class : waiting'[n] # <<>> => waiting[n] # <<>>
      /\ \A u \in Thread : Ready(u) => Ready(u)'
  BY <1>1, Awakened
<1>3. ClassTypeOK' /\ StacksInv'
  BY <1>1, NothingOfClasses
<1>4. \A u \in Thread : Stage(u)' = Stage(u) /\ ClassOf(u)' = ClassOf(u)
  BY <1>1 DEF classVars, Stage, ClassOf
<1>5. HoldingInv'
  BY <1>2, <1>4 DEF HoldingInv
<1>6. WaitersWillBeNotified'
  BY <1>1, <1>2, <1>4 DEF WaitersWillBeNotified, At, classVars
<1> QED BY <1>3, <1>5, <1>6

-----------------------------------------------------------------------------
(* The theorems. *)

\* What the class initialisation does to the monitors is what any program may do.
LEMMA MonitorsStep == ClassTypeOK /\ [ClassNext]_allVars => [Next]_vars
<1> SUFFICES ASSUME ClassTypeOK, ClassNext PROVE [Next]_vars
  BY DEF allVars, vars
<1>1. \A t \in Thread : stack[t] # <<>> => ClassOf(t) \in Class
  BY NewestFrame DEF ClassTypeOK, ClassOf, Frame
<1>2. \A t \in Thread, c \in Class : Enter(t, c) \/ Exit(t, c) \/ Wait(t, c) \/ NotifyAll(t, c) => Next
  BY DEF Next, Class
<1>3. \A c \in Class : \A k \in 1 .. Len(waiting[c]) : Awaken(c, k) => Next
  BY DEF Next, Class
<1>4. \A t \in Thread : \A g : At(t, g) /\ g # "NONE" => stack[t] # <<>>
  BY DEF At, Stage
<1>5. ASSUME NEW t \in Thread, Step(t) PROVE [Next]_vars
  <2>1. CASE InitialStage(t) \/ CompletedClinit(t) \/ ClinitFailed(t)
    BY <1>1, <1>2, <1>4, <2>1 DEF InitialStage, CompletedClinit, ClinitFailed
  <2>2. CASE FindInitialized(t) \/ FindErroneous(t) \/ SetInitializingThread(t) \/ Finish(t)
    BY <1>1, <1>2, <1>4, <2>2 DEF FindInitialized, FindErroneous, SetInitializingThread, Finish
  <2>3. CASE WaitForOther(t) \/ NotifyWaiting(t)
    BY <1>1, <1>2, <1>4, <2>3 DEF WaitForOther, NotifyWaiting
  <2>4. CASE InitializeSuper(t) \/ CompletedSuper(t) \/ SetStatus(t) \/ Catch(t)
    BY <2>4 DEF InitializeSuper, CompletedSuper, SetStatus, Catch
  <2> QED BY <1>5, <2>1, <2>2, <2>3, <2>4 DEF Step
<1>6. ASSUME NEW t \in Thread, Ends(t) PROVE [Next]_vars
  BY <1>2, <1>6 DEF Ends, ClinitReturns, MonitorExitClass
<1>7. ASSUME NEW t \in Thread, NEW c \in Class, UseClass(t, c) \/ MonitorEnterClass(t, c)
      PROVE  [Next]_vars
  BY <1>2, <1>7 DEF UseClass, MonitorEnterClass
<1>8. ASSUME NEW c \in Class, NEW k \in 1 .. Len(waiting[c]), Interrupt(c, k) PROVE [Next]_vars
  BY <1>3, <1>8 DEF Interrupt
<1> QED BY <1>5, <1>6, <1>7, <1>8 DEF ClassNext

\* The invariant holds of every execution.
THEOREM ClassInvariance == ClassSpec => []ClassInv
<1>1. ClassesInit => ClassInv
  <2> SUFFICES ASSUME ClassesInit PROVE OwnInv
    BY InvAtFirst DEF ClassesInit, ClassInv
  <2>1. <<>> \in Seq(Frame) /\ Len(<<>>) = 0
    BY EmptySeq
  <2>2. ClassTypeOK
    BY <2>1 DEF ClassesInit, ClassTypeOK, Statuses, Throwables
  <2>3. \A t \in Thread : stack[t] = <<>> /\ thrown[t] = NULL /\ Stage(t) = "NONE"
    BY DEF ClassesInit, Stage
  <2>4. \A t \in Thread : StackOK(t, stack[t], P, S, runs)
    BY <2>1, <2>3, SMT DEF StackOK, FramesOK, TopOK
  <2>5. \A c \in Class : P[c] = NULL /\ RunsOK(c, P, S, runs)
    BY DEF ClassesInit, RunsOK, P, S
  <2>6. StacksInv
    BY <2>3, <2>4, <2>5 DEF StacksInv, P, S
  <2>7. HoldingInv
    BY <2>3 DEF HoldingInv, Holding
  <2>8. WaitersWillBeNotified
    BY DEF ClassesInit, Init, WaitersWillBeNotified, Class
  <2> QED BY <2>2, <2>6, <2>7, <2>8 DEF OwnInv
<1>2. ClassInv /\ [ClassNext]_allVars => ClassInv'
  <2> SUFFICES ASSUME ClassInv, [ClassNext]_allVars PROVE OwnInv'
    BY MonitorsStep, InvKept DEF ClassInv, OwnInv
  <2>1. ASSUME NEW t \in Thread, Step(t) PROVE OwnInv'
    <3>1. CASE Catch(t)
      BY <3>1, ProgramsSteps
    <3>2. CASE InitialStage(t)
      BY <3>2, InitialStageStep
    <3>3. CASE FindInitialized(t) \/ FindErroneous(t) \/ WaitForOther(t)
      BY <3>3, FindInitializedStep
    <3>4. CASE SetInitializingThread(t)
      BY <3>4, SetInitializingThreadStep
    <3>5. CASE InitializeSuper(t)
      BY <3>5, InitializeSuperStep
    <3>6. CASE CompletedSuper(t)
      BY <3>6, CompletedSuperStep
    <3>7. CASE CompletedClinit(t) \/ ClinitFailed(t) \/ SetStatus(t) \/ NotifyWaiting(t)
      BY <3>7, LastStagesStep
    <3>8. CASE Finish(t)
      BY <3>8, FinishStep
    <3> QED BY <2>1, <3>1, <3>2, <3>3, <3>4, <3>5, <3>6, <3>7, <3>8 DEF Step
  <2>2. ASSUME NEW t \in Thread, Ends(t) PROVE OwnInv'
    <3>1. CASE \E e \in {NULL, "Throwable"} : ClinitReturns(t, e)
      BY <3>1, ProgramsSteps
    <3>2. CASE \E c \in Class : MonitorExitClass(t, c)
      BY <3>2, ProgramsSteps
    <3> QED BY <2>2, <3>1, <3>2 DEF Ends
  <2>3. ASSUME NEW t \in Thread, NEW c \in Class, UseClass(t, c) \/ MonitorEnterClass(t, c)
        PROVE  OwnInv'
    BY <2>3, UseClassStep, ProgramsSteps
  <2>4. ASSUME NEW c \in Class, NEW k \in 1 .. Len(waiting[c]), Interrupt(c, k) PROVE OwnInv'
    BY <2>4, InterruptStep
  <2>5. CASE UNCHANGED allVars
    BY <2>5 DEF allVars, vars, classVars, ClassInv, OwnInv, ClassTypeOK, StacksInv, HoldingInv,
                WaitersWillBeNotified, Stage, ClassOf, At, Ready, Queued
  <2> QED BY <2>1, <2>2, <2>3, <2>4, <2>5 DEF ClassNext
<1> QED BY <1>1, <1>2, PTL DEF ClassSpec

\* However many threads use a class, are interrupted or fail, its <clinit> is executed once,
\* after its superclass was initialised or while the same thread is initialising it, and
\* the threads that wait for it are notified.
THEOREM ClassesAreInitialisedInOrder == ClassSpec => []InitialisationIsOrdered
<1>1. ClassInv => InitialisationIsOrdered
  <2> SUFFICES ASSUME ClassInv PROVE InitialisationIsOrdered
    OBVIOUS
  <2>1. InitializerRunsOnce
    BY DEF ClassInv, OwnInv, StacksInv, RunsOK, InitializerRunsOnce
  <2>2. ASSUME NEW t \in Thread, NEW k \in DOMAIN stack[t], stack[t][k].stage = "RUNNING",
               pSuperClass[stack[t][k].class] # NULL
        PROVE  classIsInitialized(pSuperClass[stack[t][k].class], t)
    <3> DEFINE s == stack[t]
    <3>1. s \in Seq(Frame) /\ k \in 1 .. Len(s) /\ Len(s) \in Nat
      BY <2>2, SMT DEF ClassInv, OwnInv, ClassTypeOK
    <3>2. \A j \in 1 .. Len(s) : FrameOK(t, s, j, P, S, runs)
      BY DEF ClassInv, OwnInv, StacksInv, StackOK, FramesOK, P, S
    <3>3. SuperReady(s, k, S)
      BY <2>2, <3>1, <3>2 DEF FrameOK
    <3>4. \A j \in 1 .. k : j \in 1 .. Len(s)
      BY <3>1, SMT
    <3>5. \A j \in 1 .. k : s[j].stage \in InCharge => P[s[j].class] = t
      BY <3>2, <3>4 DEF FrameOK
    <3> QED BY <2>2, <3>3, <3>5 DEF SuperReady, classIsInitialized, P, S
  <2>3. SuperClassFirst
    BY <2>2 DEF SuperClassFirst
  <2> QED BY <2>1, <2>3 DEF InitialisationIsOrdered, ClassInv, OwnInv
<1> QED BY <1>1, ClassInvariance, PTL

\* No two threads are in the monitor of a class, whatever the stages do.
THEOREM ClassMonitorsExclude == ClassSpec => []MutualExclusion
<1>1. ClassInv => MutualExclusion
  BY ReadyThread DEF MutualExclusion, ClassInv
<1> QED BY <1>1, ClassInvariance, PTL

\* The state of a class changes only inside its monitor, and its status once, by the
\* thread that marked the class with itself.
THEOREM ClassStateIsGuarded == ClassSpec => StateIsGuarded
<1>1. ClassInv /\ [ClassNext]_allVars =>
        [\A c \in Class :
          /\ <<initializationStatus[c], pInitializingThread[c]>>'
                # <<initializationStatus[c], pInitializingThread[c]>>
                => owner[c] # NULL /\ Ready(owner[c])
          /\ initializationStatus'[c] # initializationStatus[c] =>
                initializationStatus[c] = "UNINITIALIZED" /\ pInitializingThread[c] = owner[c]
          /\ pInitializingThread'[c] # pInitializingThread[c] =>
                (pInitializingThread[c] = NULL /\ pInitializingThread'[c] = owner[c])
                  \/ (pInitializingThread[c] = owner[c] /\ pInitializingThread'[c] = NULL)]_allVars
  <2> SUFFICES ASSUME ClassInv, ClassNext, NEW c \in Class, P'[c] # P[c] \/ S'[c] # S[c]
               PROVE  /\ owner[c] # NULL /\ Ready(owner[c])
                      /\ S'[c] # S[c] => S[c] = "UNINITIALIZED" /\ P[c] = owner[c]
                      /\ P'[c] # P[c] => \/ P[c] = NULL /\ P'[c] = owner[c]
                                         \/ P[c] = owner[c] /\ P'[c] = NULL
    BY DEF P, S
  <2>1. P \in [Class -> Thread \cup {NULL}] /\ S \in [Class -> Statuses]
    BY DEF ClassInv, OwnInv, ClassTypeOK, P, S
  <2>2. PICK t \in Thread : SetInitializingThread(t) \/ SetStatus(t)
    BY DEF ClassNext, Step, Ends, UseClass, MonitorEnterClass, MonitorExitClass, Interrupt, classVars,
           InitialStage, FindInitialized, WaitForOther, FindErroneous, InitializeSuper,
           CompletedSuper, CompletedClinit, ClinitFailed, NotifyWaiting, Finish, Catch,
           ClinitReturns, P, S
  <2>3. Ready(t) /\ stack[t] # <<>> /\ t # NULL
    BY <2>2, MonitorsAssumption DEF SetInitializingThread, SetStatus, At, Stage
  <2>4. CASE SetInitializingThread(t)
    <3>1. /\ P' = [P EXCEPT ![ClassOf(t)] = t] /\ S' = S /\ P[ClassOf(t)] = NULL
          /\ Exit(t, ClassOf(t)) /\ ClassOf(t) \in Class
      BY <2>3, <2>4, NewestFacts
         DEF SetInitializingThread, classInitializationHasStarted, P, S, ClassInv, OwnInv
    <3>2. c = ClassOf(t) /\ P'[c] = t
      BY <2>1, <3>1
    <3>3. owner[c] = t
      BY <3>1, <3>2, Exited DEF ClassInv
    <3> QED BY <2>3, <3>1, <3>2, <3>3
  <2>5. CASE SetStatus(t)
    <3>1. PICK g : S' = [S EXCEPT ![ClassOf(t)] = g]
      BY <2>5 DEF SetStatus, S
    <3>2. /\ P' = [P EXCEPT ![ClassOf(t)] = NULL] /\ ClassOf(t) \in Class
          /\ Stage(t) \in Holding /\ Stage(t) \in InCharge
      BY <2>3, <2>5, NewestFacts DEF SetStatus, At, P, ClassInv, OwnInv, Holding, InCharge
    <3>3. c = ClassOf(t) /\ P'[c] = NULL
      BY <2>1, <3>1, <3>2
    <3>4. P[c] = t /\ S[c] = "UNINITIALIZED"
      BY <2>3, <3>2, <3>3, NewestFacts DEF NewestOK, ClassInv, OwnInv
    <3>5. owner[c] = t
      BY <2>3, <3>2, <3>3, ReadyThread DEF ClassInv, OwnInv, HoldingInv, Class
    <3> QED BY <2>3, <3>3, <3>4, <3>5
  <2> QED BY <2>2, <2>4, <2>5
<1> QED BY <1>1, ClassInvariance, PTL DEF ClassSpec, StateIsGuarded
=============================================================================
