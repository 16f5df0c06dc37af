--------------------------- MODULE PeerConf_proofs ---------------------------
(***************************************************************************)
(* The scripts keep the table of peers the service takes them for, for any *)
(* number of peers and of scripts that run at once.                        *)
(***************************************************************************)
EXTENDS PeerConf, SequenceTheorems, WellFoundedInduction, TLAPS

-----------------------------------------------------------------------------
(* Induction over a file                                                     *)

LEMMA LessThan ==
    \E R : IsWellFoundedOn(R, Nat) /\ (\A n, m \in Nat : <<m, n>> \in R <=> m < n)
<1> DEFINE R == {ss \in Nat \X Nat : ss[1] < ss[2]}
<1>1. IsWellFoundedOn(R, Nat)
  BY NatLessThanWellFounded DEF OpToRel
<1>2. \A n, m \in Nat : <<m, n>> \in R <=> m < n
  OBVIOUS
<1> HIDE DEF R
<1> QED
  BY <1>1, <1>2

LEMMA LeastNumber ==
    ASSUME NEW T, T \subseteq Nat, T # {}
    PROVE  \E n \in T : \A m \in T : n <= m
<1>1. PICK R : IsWellFoundedOn(R, Nat) /\ (\A n, m \in Nat : <<m, n>> \in R <=> m < n)
  BY LessThan
<1>2. PICK n \in T : \A m \in T : ~ (<<m, n>> \in R)
  BY <1>1, WFMin, Zenon
<1>3. ASSUME NEW m \in T PROVE n <= m
  <2>1. n \in Nat /\ m \in Nat /\ <<m, n>> \notin R
    BY <1>2
  <2>2. ~ (m < n)
    BY <1>1, <2>1
  <2> QED
    BY <2>1, <2>2
<1> QED
  BY <1>3

\* Induction over the numbers up to N, for a property given as a set.
LEMMA UpTo ==
    ASSUME NEW N \in Nat, NEW P, 0 \in P,
           \A n \in 1..N : n - 1 \in P => n \in P
    PROVE  0..N \subseteq P
<1> DEFINE T == {n \in 0..N : n \notin P}
<1>1. CASE T = {}
  BY <1>1
<1>2. CASE T # {}
  <2>1. T \subseteq Nat
    OBVIOUS
  <2>2. PICK n \in T : \A m \in T : n <= m
    <3> HIDE DEF T
    <3> QED
      BY <1>2, <2>1, LeastNumber
  <2>3. n \in 1..N /\ n - 1 \in 0..N /\ n - 1 \notin T
    BY <2>2
  <2> QED
    BY <2>2, <2>3
<1> QED
  BY <1>1, <1>2

\* One step of Outside.
Kept(f, B, g, i) == IF f[i] \in B THEN g ELSE Append(g, f[i])


\* The values Outside goes through.
Stages(S, f, B, g) ==
    /\ g \in [0..Len(f) -> Seq(S)]
    /\ g[0] = <<>> /\ \A i \in 1..Len(f) : g[i] = Kept(f, B, g[i - 1], i)
    /\ Outside(f, B) = g[Len(f)]

LEMMA OutsideExists ==
    ASSUME NEW S, NEW f \in Seq(S), NEW B
    PROVE  \E g : Stages(S, f, B, g)
<1> DEFINE N == Len(f)
           Upto(n) == {g \in [0..n -> Seq(S)] :
                         g[0] = <<>> /\ \A i \in 1..n : g[i] = Kept(f, B, g[i - 1], i)}
           P == {n \in 0..N : Upto(n) # {}}
<1>1. N \in Nat /\ \A i \in 1..N : f[i] \in S
  OBVIOUS
<1>2. 0 \in P
  <2>1. [i \in 0..0 |-> <<>>] \in Upto(0)
    OBVIOUS
  <2>2. 0 \in 0..N
    BY <1>1
  <2> HIDE DEF Upto
  <2> QED
    BY <2>1, <2>2
<1>3. ASSUME NEW n \in 1..N, n - 1 \in P PROVE n \in P
  <2>1. PICK g : g \in Upto(n - 1)
    BY <1>3
  <2> DEFINE last == Kept(f, B, g[n - 1], n)
             h == [i \in 0..n |-> IF i = n THEN last ELSE g[i]]
  <2>2. /\ n \in Nat /\ n - 1 \in Nat /\ n # 0 /\ g \in [0..(n - 1) -> Seq(S)]
        /\ g[0] = <<>> /\ \A i \in 1..(n - 1) : g[i] = Kept(f, B, g[i - 1], i)
    BY <1>1, <2>1
  <2>3. last \in Seq(S)
    BY <1>1, <2>2 DEF Kept
  <2> HIDE DEF last
  <2>4. h \in [0..n -> Seq(S)]
    BY <2>2, <2>3
  <2>5. h[0] = <<>>
    BY <2>2
  <2>6. ASSUME NEW i \in 1..n PROVE h[i] = Kept(f, B, h[i - 1], i)
    <3>1. CASE i = n
      <4>1. h[i - 1] = g[n - 1] /\ h[i] = last
        BY <2>2, <3>1
      <4> QED
        BY <3>1, <4>1 DEF last
    <3>2. CASE i # n
      <4>1. h[i - 1] = g[i - 1] /\ h[i] = g[i] /\ i \in 1..(n - 1)
        BY <2>2, <3>2
      <4> QED
        BY <2>2, <4>1
    <3> QED
      BY <3>1, <3>2
  <2> HIDE DEF h
  <2>7. h \in Upto(n)
    BY <2>4, <2>5, <2>6
  <2>8. n \in 0..N
    BY <1>1
  <2> HIDE DEF Upto
  <2> QED
    BY <2>7, <2>8
<1>4. N \in P
  <2> HIDE DEF N, P
  <2>1. 0..N \subseteq P
    BY <1>1, <1>2, <1>3, UpTo
  <2> QED
    BY <1>1, <2>1
<1>5. PICK g : g \in Upto(N)
  BY <1>4
<1> DEFINE Step(out) == [i \in 0..Len(f) |->
              IF i = 0 THEN <<>>
              ELSE IF f[i] \in B THEN out[i - 1] ELSE Append(out[i - 1], f[i])]
           out == CHOOSE out : out = Step(out)
<1>6. g = Step(g)
  <2>1. g = [i \in 0..N |-> g[i]] /\ g[0] = <<>>
    BY <1>5
  <2>2. \A i \in 1..N : g[i] = IF f[i] \in B THEN g[i - 1] ELSE Append(g[i - 1], f[i])
    BY <1>5 DEF Kept
  <2>3. ASSUME NEW i \in 0..N PROVE g[i] = Step(g)[i]
    <3>1. Step(g)[i] = IF i = 0 THEN <<>>
                       ELSE IF f[i] \in B THEN g[i - 1] ELSE Append(g[i - 1], f[i])
      OBVIOUS
    <3>2. i = 0 \/ (i \in 1..N /\ i # 0)
      BY <1>1
    <3> HIDE DEF Step, N
    <3> QED
      BY <2>1, <2>2, <3>1, <3>2
  <2>4. Step(g) = [i \in 0..N |-> Step(g)[i]]
    OBVIOUS
  <2> HIDE DEF Step, N
  <2> QED
    BY <2>1, <2>3, <2>4
<1>7. out = Step(out)
  <2> HIDE DEF Step
  <2> QED
    BY <1>6
<1>8. Outside(f, B) = out[N]
  BY DEF Outside
<1> HIDE DEF out
<1>9. out[0] = <<>> /\ \A i \in 1..N : out[i] = Kept(f, B, out[i - 1], i)
  <2>1. \A i \in 0..N : out[i] = Step(out)[i]
    <3> HIDE DEF Step
    <3> QED
      BY <1>7
  <2>2. Step(out)[0] = <<>> /\ \A i \in 1..N : Step(out)[i] = Kept(f, B, out[i - 1], i)
    BY <1>1 DEF Kept
  <2>3. 0 \in 0..N /\ 1..N \subseteq 0..N
    BY <1>1
  <2> HIDE DEF Step, N
  <2> QED
    BY <2>1, <2>2, <2>3
<1>10. out \in [0..N -> Seq(S)]
  <2> DEFINE Q == {n \in 0..N : out[n] \in Seq(S)}
  <2>1. 0 \in Q
    <3>1. out[0] = <<>> /\ <<>> \in Seq(S) /\ 0 \in 0..N
      BY <1>1, <1>9
    <3>2. out[0] \in Seq(S)
      BY <3>1, Zenon
    <3> QED
      BY <3>1, <3>2, Zenon
  <2>2. ASSUME NEW n \in 1..N, n - 1 \in Q PROVE n \in Q
    <3>1. /\ out[n] = Kept(f, B, out[n - 1], n) /\ out[n - 1] \in Seq(S) /\ f[n] \in S
          /\ n \in 0..N
      BY <1>1, <1>9, <2>2
    <3>2. ASSUME NEW o \in Seq(S) PROVE Kept(f, B, o, n) \in Seq(S)
      BY <3>1, <3>2 DEF Kept
    <3>3. out[n] \in Seq(S)
      BY <3>1, <3>2
    <3> QED
      BY <3>1, <3>3, Zenon
  <2>3. 0..N \subseteq Q
    <3> HIDE DEF Q, N
    <3> QED
      BY <1>1, <2>1, <2>2, UpTo
  <2>4. out = [i \in 0..N |-> out[i]]
    <3>1. Step(out) = [i \in 0..N |-> Step(out)[i]]
      OBVIOUS
    <3> HIDE DEF Step
    <3> QED
      BY <1>7, <3>1
  <2> QED
    BY <2>3, <2>4
<1> QED
  BY <1>8, <1>9, <1>10 DEF Stages

\* The sections of f, each related to those after it.
Chain(f, R) == \A i, j \in 1..Len(f) : i < j => <<f[i], f[j]>> \in R

\* Sections of a file to which one was appended.
LEMMA Appended ==
    ASSUME NEW S, NEW f \in Seq(S), NEW x \in S
    PROVE  /\ Append(f, x) \in Seq(S)
           /\ Sections(Append(f, x)) = Sections(f) \cup {x}
           /\ \A R : Chain(f, R) /\ (\A y \in Sections(f) : <<y, x>> \in R)
                        => Chain(Append(f, x), R)
<1> DEFINE g == Append(f, x)
           n == Len(f)
<1>1. /\ g \in Seq(S) /\ n \in Nat /\ Len(g) = n + 1 /\ g[n + 1] = x
      /\ \A i \in 1..n : g[i] = f[i]
  OBVIOUS
<1> HIDE DEF g
<1>2. Sections(g) = Sections(f) \cup {x}
  BY <1>1 DEF Sections
<1>3. ASSUME NEW R, Chain(f, R), \A y \in Sections(f) : <<y, x>> \in R PROVE Chain(g, R)
  <2> SUFFICES ASSUME NEW i \in 1..(n + 1), NEW j \in 1..(n + 1), i < j
               PROVE  <<g[i], g[j]>> \in R
    BY <1>1 DEF Chain
  <2>1. i \in 1..n /\ g[i] = f[i] /\ f[i] \in Sections(f)
    BY <1>1 DEF Sections
  <2>2. CASE j = n + 1
    BY <1>1, <1>3, <2>1, <2>2
  <2>3. CASE j \in 1..n
    BY <1>1, <1>3, <2>1, <2>3 DEF Chain
  <2> QED
    BY <1>1, <2>2, <2>3
<1> QED
  BY <1>1, <1>2, <1>3 DEF g

\* What awg-peer-remove writes back is the rest of the file, in the order it was in.
THEOREM OutsideKeeps ==
    ASSUME NEW S, NEW f \in Seq(S), NEW B, NEW R
    PROVE  /\ Outside(f, B) \in Seq(S)
           /\ Sections(Outside(f, B)) = Sections(f) \ B
           /\ Chain(f, R) => Chain(Outside(f, B), R)
<1> DEFINE N == Len(f)
<1>1. N \in Nat /\ \A i \in 1..N : f[i] \in S
  OBVIOUS
<1>a. PICK g : Stages(S, f, B, g)
  BY OutsideExists
<1>2. /\ g \in [0..N -> Seq(S)] /\ g[0] = <<>>
      /\ \A i \in 1..N : g[i] = Kept(f, B, g[i - 1], i)
      /\ Outside(f, B) = g[N]
  BY <1>a DEF Stages
<1> DEFINE Before(n) == {f[j] : j \in 1..n}
           P == {n \in 0..N : /\ Sections(g[n]) = Before(n) \ B
                              /\ Chain(f, R) => Chain(g[n], R)}
<1>3. 0 \in P
  <2>1. Sections(<<>>) = {} /\ Before(0) = {} /\ Chain(<<>>, R)
    BY DEF Sections, Chain
  <2> QED
    BY <1>1, <1>2, <2>1
<1>4. ASSUME NEW n \in 1..N, n - 1 \in P PROVE n \in P
  <2>1. /\ n - 1 \in 0..N /\ n \in 0..N /\ g[n - 1] \in Seq(S) /\ f[n] \in S
        /\ Sections(g[n - 1]) = Before(n - 1) \ B
        /\ Chain(f, R) => Chain(g[n - 1], R)
    BY <1>1, <1>2, <1>4
  <2>2. Before(n) = Before(n - 1) \cup {f[n]}
    BY <1>1
  <2>3. CASE f[n] \in B
    <3>1. g[n] = g[n - 1]
      BY <1>2, <2>3 DEF Kept
    <3> QED
      BY <2>1, <2>2, <2>3, <3>1
  <2>4. CASE f[n] \notin B
    <3>1. g[n] = Append(g[n - 1], f[n])
      BY <1>2, <2>4 DEF Kept
    <3>2. Sections(g[n]) = Before(n) \ B
      <4>1. Sections(g[n]) = Sections(g[n - 1]) \cup {f[n]}
        BY <2>1, <3>1, Appended
      <4> HIDE DEF Before
      <4> QED
        BY <2>1, <2>2, <2>4, <4>1
    <3>3. ASSUME Chain(f, R) PROVE Chain(g[n], R)
      <4>1. ASSUME NEW j \in 1..(n - 1) PROVE <<f[j], f[n]>> \in R
        <5>1. j \in 1..Len(f) /\ n \in 1..Len(f) /\ j < n
          BY <1>1
        <5> QED
          BY <3>3, <5>1 DEF Chain
      <4>2. \A y \in Sections(g[n - 1]) : <<y, f[n]>> \in R
        BY <2>1, <4>1
      <4> QED
        BY <2>1, <3>1, <3>3, <4>2, Appended
    <3> QED
      BY <2>1, <3>2, <3>3
  <2> QED
    BY <2>3, <2>4
<1>5. N \in P
  <2> HIDE DEF N, P
  <2>1. 0..N \subseteq P
    BY <1>1, <1>3, <1>4, UpTo
  <2> QED
    BY <1>1, <2>1
<1>6. Before(N) = Sections(f)
  BY DEF Sections
<1> QED
  BY <1>1, <1>2, <1>5, <1>6

\* Only the sections of f matter.
LEMMA OutsideSame ==
    ASSUME NEW S, NEW f \in Seq(S), NEW B, NEW C, Sections(f) \cap B = Sections(f) \cap C
    PROVE  Outside(f, B) = Outside(f, C)
<1> DEFINE N == Len(f)
<1>1. N \in Nat /\ \A i \in 1..N : f[i] \in Sections(f)
  BY DEF Sections
<1>a. PICK g : Stages(S, f, B, g)
  BY OutsideExists
<1>2. /\ g \in [0..N -> Seq(S)] /\ g[0] = <<>>
      /\ \A i \in 1..N : g[i] = Kept(f, B, g[i - 1], i)
      /\ Outside(f, B) = g[N]
  BY <1>a DEF Stages
<1>b. PICK h : Stages(S, f, C, h)
  BY OutsideExists
<1>3. /\ h \in [0..N -> Seq(S)] /\ h[0] = <<>>
      /\ \A i \in 1..N : h[i] = Kept(f, C, h[i - 1], i)
      /\ Outside(f, C) = h[N]
  BY <1>b DEF Stages
<1> DEFINE P == {n \in 0..N : g[n] = h[n]}
<1>4. 0 \in P
  BY <1>1, <1>2, <1>3
<1>5. ASSUME NEW n \in 1..N, n - 1 \in P PROVE n \in P
  <2>1. f[n] \in B <=> f[n] \in C
    BY <1>1
  <2> QED
    BY <1>1, <1>2, <1>3, <1>5, <2>1 DEF Kept
<1>6. N \in P
  <2> HIDE DEF N, P
  <2>1. 0..N \subseteq P
    BY <1>1, <1>4, <1>5, UpTo
  <2> QED
    BY <1>1, <2>1
<1> QED
  BY <1>2, <1>3, <1>6

-----------------------------------------------------------------------------
(* Types                                                                     *)

Section == {Interface} \cup Key \cup Hand
Stage == {"idle", "check", "copy", "open", "write", "awg"}
Job == [at : Stage, op : {"add", "remove"}, key : Key \cup {None}, tmp : Seq(Section)]
Answer == {"new", "adding", "added", "removing", "gone"}

Types ==
    /\ conf \in Seq(Section)
    /\ live \subseteq Key \cup Hand
    /\ script \in [Script -> Job]
    /\ \A p \in Script : ~ At(p, "idle") => script[p].key \in Key
    /\ answer \in [Key -> Answer]
    /\ intact \in BOOLEAN
    /\ faults \in Seq(Faults)

LEMMA CutType ==
    ASSUME NEW f \in Seq(Section), NEW k
    PROVE  Cut(f, k) \in Seq(Section)
BY OutsideKeeps DEF Cut

LEMMA LiveSections ==
    ASSUME NEW f \in Seq(Section)
    PROVE  Sections(f) \subseteq Section /\ Sections(f) \ {Interface} \subseteq Key \cup Hand
<1>1. \A i \in 1..Len(f) : f[i] \in Section
  OBVIOUS
<1> QED
  BY <1>1 DEF Sections, Section

LEMMA IdleJob == Idle \in Job /\ Idle.at = "idle"
BY DEF Idle, Job, Stage

\* What End does to scripts and answers.
LEMMA Ended ==
    ASSUME Types, NEW p \in Script, ~ At(p, "idle"), NEW told \in Answer, End(p, told)
    PROVE  /\ script' \in [Script -> Job]
           /\ \A q \in Script : script'[q] = IF q = p THEN Idle ELSE script[q]
           /\ \A q \in Script : script'[q].at # "idle" => script'[q].key \in Key
           /\ answer' \in [Key -> Answer]
           /\ \A k \in Key : \/ answer'[k] = answer[k]
                             \/ k = script[p].key /\ answer'[k] = told
<1>1. script' = [script EXCEPT ![p] = Idle]
  BY DEF End
<1>2. /\ script' \in [Script -> Job]
      /\ \A q \in Script : script'[q] = IF q = p THEN Idle ELSE script[q]
  BY <1>1, IdleJob DEF Types
<1>3. \A q \in Script : script'[q].at # "idle" => script'[q].key \in Key
  BY <1>2, IdleJob DEF Types, At
<1>4. script[p].key \in Key
  BY DEF Types
<1>5. CASE waiting = p
  <2>1. answer' = [answer EXCEPT ![script[p].key] = told]
    BY <1>5 DEF End
  <2> QED
    BY <1>2, <1>3, <1>4, <2>1 DEF Types
<1>6. CASE waiting # p
  <2>1. answer' = answer
    BY <1>6 DEF End
  <2> QED
    BY <1>2, <1>3, <2>1 DEF Types
<1> QED
  BY <1>5, <1>6

\* A script that goes on: only its stage and its text change.
Moved(p, stage, text) ==
    /\ script' \in [Script -> Job]
    /\ \A q \in Script : q # p => script'[q] = script[q]
    /\ script'[p].at = stage /\ script'[p].tmp = text
    /\ script'[p].op = script[p].op /\ script'[p].key = script[p].key
    /\ \A q \in Script : script'[q].at # "idle" => script'[q].key \in Key

LEMMA GoesOn ==
    ASSUME Types, NEW p \in Script, ~ At(p, "idle"), NEW stage \in Stage, NEW text,
           \/ Goto(p, stage) /\ text = script[p].tmp
           \/ script' = [script EXCEPT ![p].at = stage, ![p].tmp = text]
              /\ text \in Seq(Section)
    PROVE  Moved(p, stage, text)
<1>1. script[p] \in Job /\ script[p].key \in Key
  BY DEF Types
<1>2. PICK job \in Job : /\ job.at = stage /\ job.tmp = text
                         /\ job.op = script[p].op /\ job.key = script[p].key
                         /\ script' = [script EXCEPT ![p] = job]
  <2>1. CASE Goto(p, stage) /\ text = script[p].tmp
    <3> DEFINE job == [script[p] EXCEPT !.at = stage]
    <3>1. /\ job \in Job /\ job.at = stage /\ job.tmp = text
          /\ job.op = script[p].op /\ job.key = script[p].key
      BY <1>1, <2>1 DEF Job
    <3>2. script' = [script EXCEPT ![p] = job]
      BY <2>1 DEF Goto
    <3> QED
      BY <3>1, <3>2
  <2>2. CASE script' = [script EXCEPT ![p].at = stage, ![p].tmp = text]
             /\ text \in Seq(Section)
    <3> DEFINE job == [script[p] EXCEPT !.at = stage, !.tmp = text]
    <3>1. /\ job \in Job /\ job.at = stage /\ job.tmp = text
          /\ job.op = script[p].op /\ job.key = script[p].key
      BY <1>1, <2>2 DEF Job
    <3>2. script' = [script EXCEPT ![p] = job]
      BY <2>2 DEF Types
    <3> QED
      BY <3>1, <3>2
  <2> QED
    BY <2>1, <2>2
<1>3. /\ script' \in [Script -> Job] /\ script'[p] = job
      /\ \A q \in Script : q # p => script'[q] = script[q]
  BY <1>2 DEF Types
<1> QED
  BY <1>1, <1>2, <1>3 DEF Types, At, Moved

\* The steps of the scripts, without their records.
Left(p, told) ==
    /\ script' \in [Script -> Job]
    /\ \A q \in Script : script'[q] = IF q = p THEN Idle ELSE script[q]
    /\ \A q \in Script : script'[q].at # "idle" => script'[q].key \in Key
    /\ answer' \in [Key -> Answer]
    /\ \A k \in Key : \/ answer'[k] = answer[k]
                      \/ k = script[p].key /\ answer'[k] = told

CheckMove(p) ==
    /\ script[p].at = "check"
    /\ \/ /\ script[p].op = "remove" /\ script[p].key \notin Sections(conf)
          /\ Left(p, "gone")
       \/ /\ script[p].op = "remove" <=> script[p].key \in Sections(conf)
          /\ Moved(p, "copy", script[p].tmp) /\ UNCHANGED answer
    /\ intact' = (intact /\ ~ Others(p, {"write"}))
    /\ UNCHANGED <<conf, live, faults>>

New(p) == IF script[p].op = "add" THEN Append(conf, script[p].key)
                                  ELSE Cut(conf, script[p].key)

CopyMove(p) ==
    /\ script[p].at = "copy"
    /\ Moved(p, "open", New(p))
    /\ intact' = (intact /\ ~ Others(p, {"open", "write"}))
    /\ UNCHANGED <<conf, live, answer, faults>>

TruncateMove(p) ==
    /\ script[p].at = "open"
    /\ conf' = <<>>
    /\ Moved(p, "write", script[p].tmp)
    /\ UNCHANGED <<live, answer, intact, faults>>

WriteMove(p) ==
    /\ script[p].at = "write"
    /\ conf' = Overlay(conf, script[p].tmp)
    /\ Moved(p, "awg", <<>>)
    /\ UNCHANGED <<live, answer, intact, faults>>

AwgMove(p) ==
    /\ script[p].at = "awg"
    /\ \/ /\ script[p].op = "add"
          /\ live' = live \cup {script[p].key} /\ Left(p, "added")
       \/ /\ script[p].op = "remove"
          /\ live' = live \ {script[p].key} /\ Left(p, "gone")
    /\ UNCHANGED <<conf, intact, faults>>

AwgFailsMove(p) ==
    /\ script[p].at = "awg"
    /\ Fault("awg")
    /\ \/ script[p].op = "add" /\ Left(p, "adding")
       \/ script[p].op = "remove" /\ Left(p, "gone")
    /\ UNCHANGED <<conf, live, intact>>

LEMMA JobOf ==
    ASSUME Types, NEW p \in Script
    PROVE  /\ script[p] \in Job /\ script[p].op \in {"add", "remove"}
           /\ script[p].tmp \in Seq(Section)
           /\ ~ At(p, "idle") => script[p].key \in Key
BY DEF Types, Job

LEMMA ScriptMoves ==
    ASSUME Types, NEW p \in Script, ScriptStep(p)
    PROVE  /\ CheckMove(p) \/ CopyMove(p) \/ TruncateMove(p) \/ WriteMove(p)
              \/ AwgMove(p) \/ AwgFailsMove(p)
           /\ script[p].key \in Key /\ script[p].op \in {"add", "remove"}
           /\ script[p].tmp \in Seq(Section) /\ New(p) \in Seq(Section)
<1>1. ~ At(p, "idle")
  BY DEF ScriptStep, Check, Copy, Truncate, Write, AwgSet, AwgFails, At
<1>2. /\ script[p].key \in Key /\ script[p].op \in {"add", "remove"}
      /\ script[p].tmp \in Seq(Section)
  BY <1>1, JobOf
<1>3. New(p) \in Seq(Section)
  <2>1. Append(conf, script[p].key) \in Seq(Section)
    BY <1>2 DEF Types, Section
  <2> QED
    BY <2>1, CutType DEF New, Types
<1>4. ASSUME NEW told \in Answer, End(p, told) PROVE Left(p, told)
  BY <1>1, <1>4, Ended DEF Left
<1>5. "gone" \in Answer /\ "added" \in Answer /\ "adding" \in Answer
  BY DEF Answer
<1>6. CASE Check(p)
  <2>1. ASSUME Goto(p, "copy") PROVE Moved(p, "copy", script[p].tmp)
    BY <1>1, <2>1, GoesOn DEF Stage
  <2> QED
    BY <1>2, <1>3, <1>4, <1>5, <1>6, <2>1 DEF Check, CheckMove, At
<1>7. CASE Copy(p)
  <2>1. script' = [script EXCEPT ![p].at = "open", ![p].tmp = New(p)]
    BY <1>7 DEF Copy, New
  <2>2. Moved(p, "open", New(p))
    BY <1>1, <1>3, <2>1, GoesOn DEF Stage
  <2> QED
    BY <1>2, <1>3, <1>7, <2>2 DEF Copy, CopyMove, At
<1>8. CASE Truncate(p)
  <2>1. Moved(p, "write", script[p].tmp)
    BY <1>1, <1>8, GoesOn DEF Stage, Truncate
  <2> QED
    BY <1>2, <1>3, <1>8, <2>1 DEF Truncate, TruncateMove, At
<1>9. CASE Write(p)
  <2>1. <<>> \in Seq(Section) /\ "awg" \in Stage
    BY DEF Stage
  <2>2. Moved(p, "awg", <<>>)
    BY <1>1, <1>9, <2>1, GoesOn DEF Write
  <2> QED
    BY <1>2, <1>3, <1>9, <2>2 DEF Write, WriteMove, At
<1>10. CASE AwgSet(p)
  BY <1>2, <1>3, <1>4, <1>5, <1>10 DEF AwgSet, AwgMove, At
<1>11. CASE AwgFails(p)
  BY <1>2, <1>3, <1>4, <1>5, <1>11 DEF AwgFails, AwgFailsMove, At
<1> QED
  BY <1>6, <1>7, <1>8, <1>9, <1>10, <1>11 DEF ScriptStep

\* The other steps, without their records.
CallMove(p, op, k) ==
    /\ script[p] = Idle
    /\ answer[k] \in IF op = "add" THEN {"new"} ELSE {"added", "removing"}
    /\ script' \in [Script -> Job]
    /\ \A q \in Script : q # p => script'[q] = script[q]
    /\ script'[p].at = "check" /\ script'[p].op = op /\ script'[p].key = k
    /\ answer' \in [Key -> Answer]
    /\ answer'[k] = IF op = "add" THEN "adding" ELSE "removing"
    /\ \A l \in Key : l # k => answer'[l] = answer[l]
    /\ UNCHANGED <<conf, live, intact, faults>>

Reset == script' \in [Script -> Job] /\ \A q \in Script : script'[q] = Idle

StopMove ==
    /\ Fault("stop") /\ Reset
    /\ \E f \in Seq(Section) :
        /\ conf' = f
        /\ live' = IF Interface \in Sections(f) THEN Sections(f) \ {Interface} ELSE {}
        /\ f = conf \/ \E p \in Script : script[p].at = "write"
    /\ intact' = (intact /\ \A p \in Script : script[p].at # "write")
    /\ UNCHANGED answer

LEMMA CallMoves ==
    ASSUME Types, NEW p \in Script, NEW op \in {"add", "remove"}, NEW k \in Key, Call(p, op, k)
    PROVE  CallMove(p, op, k)
<1> DEFINE job == [at |-> "check", op |-> op, key |-> k, tmp |-> <<>>]
<1>1. job \in Job /\ job.at = "check" /\ job.op = op /\ job.key = k
  BY DEF Job, Stage
<1>2. script' = [script EXCEPT ![p] = job]
  BY DEF Call
<1> HIDE DEF job
<1>3. /\ script' \in [Script -> Job] /\ script'[p] = job
      /\ \A q \in Script : q # p => script'[q] = script[q]
  BY <1>1, <1>2 DEF Types
<1>4. /\ answer' \in [Key -> Answer]
      /\ answer'[k] = IF op = "add" THEN "adding" ELSE "removing"
      /\ \A l \in Key : l # k => answer'[l] = answer[l]
  BY DEF Call, Types, Answer
<1> QED
  BY <1>1, <1>3, <1>4 DEF Call, CallMove

LEMMA StopMoves ==
    ASSUME Types, Stop
    PROVE  StopMove
<1>1. Reset
  BY IdleJob DEF Stop, Reset
<1>2. ASSUME NEW p \in Script, NEW n \in 0..Len(script[p].tmp)
      PROVE  SubSeq(script[p].tmp, 1, n) \in Seq(Section)
  BY JobOf
<1>3. \E f \in Seq(Section) :
        /\ conf' = f
        /\ live' = IF Interface \in Sections(f) THEN Sections(f) \ {Interface} ELSE {}
        /\ f = conf \/ \E p \in Script : script[p].at = "write"
  <2> DEFINE Parts(p) == {SubSeq(script[p].tmp, 1, n) : n \in 0..Len(script[p].tmp)}
             Writers == {q \in Script : At(q, "write")}
  <2>1. PICK f \in {conf} \cup UNION {Parts(p) : p \in Writers} :
          /\ conf' = f
          /\ live' = IF Interface \in Sections(f) THEN Sections(f) \ {Interface} ELSE {}
    BY DEF Stop
  <2>2. CASE f = conf
    BY <2>1, <2>2 DEF Types
  <2>3. CASE f # conf
    <3>1. PICK p \in Writers : f \in Parts(p)
      BY <2>3
    <3>2. f \in Seq(Section) /\ script[p].at = "write"
      BY <1>2, <3>1 DEF At
    <3> QED
      BY <2>1, <3>2
  <2> QED
    BY <2>2, <2>3
<1> QED
  BY <1>1, <1>3 DEF Stop, StopMove, At

LEMMA Steps ==
    ASSUME Types, [Next]_vars
    PROVE  \/ \E p \in Script : ScriptStep(p)
           \/ \E p \in Script, op \in {"add", "remove"}, k \in Key : CallMove(p, op, k)
           \/ UNCHANGED <<conf, live, script, answer, intact>> /\ \E x : faults' = Append(faults, x)
           \/ \E h \in Hand : AddByHand(h)
           \/ StopMove
           \/ UNCHANGED <<conf, live, script, answer, intact, faults>>
BY CallMoves, StopMoves DEF Next, CutOff, Fault, vars

LEMMA OverlayType ==
    ASSUME NEW f \in Seq(Section), NEW g \in Seq(Section)
    PROVE  Overlay(f, g) \in Seq(Section) /\ Overlay(<<>>, g) = g
<1>1. SubSeq(f, Len(g) + 1, Len(f)) \in Seq(Section)
  OBVIOUS
<1>2. Overlay(f, g) \in Seq(Section)
  BY <1>1 DEF Overlay
<1>3. Overlay(<<>>, g) = g
  BY DEF Overlay
<1> QED
  BY <1>2, <1>3

LEMMA TypesInit == Init => Types
<1> SUFFICES ASSUME Init PROVE Types
  OBVIOUS
<1>1. conf \in Seq(Section)
  <2>1. <<Interface>> \in Seq(Section) /\ \A h \in Hand : <<Interface, h>> \in Seq(Section)
    BY DEF Section
  <2>2. conf = <<Interface>> \/ \E h \in Hand : conf = <<Interface, h>>
    BY DEF Init
  <2> QED
    BY <2>1, <2>2
<1>2. live \subseteq Key \cup Hand
  BY <1>1, LiveSections DEF Init
<1>3. script \in [Script -> Job] /\ \A p \in Script : script[p].at = "idle"
  BY IdleJob DEF Init
<1>4. answer \in [Key -> Answer] /\ intact \in BOOLEAN /\ faults \in Seq(Faults)
  BY DEF Init, Answer
<1> QED
  BY <1>1, <1>2, <1>3, <1>4 DEF Types, At

LEMMA TypesStep == Types /\ [Next]_vars => Types'
<1> SUFFICES ASSUME Types, [Next]_vars PROVE Types'
  OBVIOUS
<1>1. faults' \in Seq(Faults)
  <2>1. UNCHANGED faults \/ \E kind \in Faults : faults' = Append(faults, kind)
    BY DEF Next, vars, ScriptStep, Check, Copy, Truncate, Write, AwgSet, AwgFails, Call,
           CutOff, AddByHand, Stop, Fault
  <2> QED
    BY <2>1 DEF Types
<1>2. intact' \in BOOLEAN
  BY DEF Next, vars, ScriptStep, Check, Copy, Truncate, Write, AwgSet, AwgFails, Call,
         CutOff, AddByHand, Stop, Types
<1> DEFINE Rest == /\ conf' \in Seq(Section)
                   /\ live' \subseteq Key \cup Hand
                   /\ script' \in [Script -> Job]
                   /\ \A p \in Script : script'[p].at # "idle" => script'[p].key \in Key
                   /\ answer' \in [Key -> Answer]
<1>3. Rest => Types'
  BY <1>1, <1>2 DEF Types, At
<1> HIDE DEF Rest
<1>4. ASSUME NEW p \in Script, ScriptStep(p) PROVE Rest
  <2>1. /\ CheckMove(p) \/ CopyMove(p) \/ TruncateMove(p) \/ WriteMove(p)
           \/ AwgMove(p) \/ AwgFailsMove(p)
        /\ script[p].key \in Key /\ script[p].tmp \in Seq(Section)
    BY <1>4, ScriptMoves
  <2>2. ASSUME NEW told, Left(p, told), UNCHANGED conf, live' \subseteq Key \cup Hand PROVE Rest
    BY <2>2 DEF Left, Types, Rest
  <2>3. ASSUME NEW stage, NEW text, Moved(p, stage, text), UNCHANGED <<live, answer>>,
               conf' \in Seq(Section)
        PROVE  Rest
    BY <2>3 DEF Moved, Types, Rest
  <2>4. conf \in Seq(Section) /\ live \subseteq Key \cup Hand
    BY DEF Types
  <2>5. Overlay(conf, script[p].tmp) \in Seq(Section)
    BY <2>1, <2>4, OverlayType
  <2>6. CASE CheckMove(p)
    BY <2>2, <2>3, <2>4, <2>6 DEF CheckMove
  <2>7. CASE CopyMove(p)
    BY <2>3, <2>4, <2>7 DEF CopyMove
  <2>8. CASE TruncateMove(p)
    <3>1. <<>> \in Seq(Section)
      OBVIOUS
    <3> QED
      BY <2>3, <2>8, <3>1 DEF TruncateMove
  <2>9. CASE WriteMove(p)
    BY <2>3, <2>5, <2>9 DEF WriteMove
  <2>10. CASE AwgMove(p)
    BY <2>1, <2>2, <2>4, <2>10 DEF AwgMove
  <2>11. CASE AwgFailsMove(p)
    BY <2>2, <2>4, <2>11 DEF AwgFailsMove
  <2> QED
    BY <2>1, <2>6, <2>7, <2>8, <2>9, <2>10, <2>11
<1>5. ASSUME NEW p \in Script, NEW op \in {"add", "remove"}, NEW k \in Key, CallMove(p, op, k)
      PROVE  Rest
  BY <1>5 DEF CallMove, Types, Rest, At
<1>6. ASSUME NEW h \in Hand, AddByHand(h) PROVE Rest
  <2>1. conf' \in Seq(Section)
    BY <1>6, Appended DEF AddByHand, Types, Section
  <2>2. live' \subseteq Key \cup Hand
    BY <1>6 DEF AddByHand, Types
  <2> QED
    BY <1>6, <2>1, <2>2 DEF AddByHand, Types, Rest, At
<1>7. CASE StopMove
  <2>1. PICK f \in Seq(Section) :
          /\ conf' = f
          /\ live' = IF Interface \in Sections(f) THEN Sections(f) \ {Interface} ELSE {}
    BY <1>7 DEF StopMove
  <2>2. live' \subseteq Key \cup Hand
    <3>1. Sections(f) \ {Interface} \subseteq Key \cup Hand
      BY LiveSections
    <3> QED
      BY <2>1, <3>1
  <2>3. \A q \in Script : script'[q].at = "idle"
    BY <1>7, IdleJob DEF StopMove, Reset
  <2> QED
    <3>1. script' \in [Script -> Job] /\ answer' \in [Key -> Answer]
      BY <1>7 DEF StopMove, Reset, Types
    <3> QED
      BY <1>3, <2>1, <2>2, <2>3, <3>1 DEF Rest
<1>8. CASE UNCHANGED <<conf, live, script, answer>>
  BY <1>3, <1>8 DEF Types, Rest, At
<1> QED
  BY <1>3, <1>4, <1>5, <1>6, <1>7, <1>8, Steps

-----------------------------------------------------------------------------
(* What the bot asked of the key a script is about                           *)

Active(p) == script[p].at # "idle"

\* A script that adds runs alone for its key, and no answer has gone back yet.
AnswerInv ==
    /\ \A p \in Script : Active(p) =>
          answer[script[p].key] \in
              IF script[p].op = "add" THEN {"adding"} ELSE {"removing", "gone"}
    /\ \A p, q \in Script :
          Active(p) /\ Active(q) /\ script[p].key = script[q].key /\ script[p].op = "add"
              => p = q

LEMMA AnswerStep == Types /\ AnswerInv /\ [Next]_vars => AnswerInv'
<1> SUFFICES ASSUME Types, AnswerInv, [Next]_vars PROVE AnswerInv'
  OBVIOUS
<1>1. ASSUME \A q \in Script : script'[q].at # "idle" =>
                 Active(q) /\ script'[q].key = script[q].key /\ script'[q].op = script[q].op,
             \A q \in Script : script'[q].at # "idle" =>
                 \/ answer'[script[q].key] = answer[script[q].key]
                 \/ script[q].op # "add" /\ answer'[script[q].key] = "gone"
      PROVE  AnswerInv'
  BY <1>1 DEF AnswerInv, Active
<1>2. ASSUME NEW p \in Script, ScriptStep(p) PROVE AnswerInv'
  <2>1. /\ CheckMove(p) \/ CopyMove(p) \/ TruncateMove(p) \/ WriteMove(p)
           \/ AwgMove(p) \/ AwgFailsMove(p)
        /\ script[p].op \in {"add", "remove"} /\ script[p].key \in Key
    BY <1>2, ScriptMoves
  <2>2. Active(p)
    BY <2>1 DEF CheckMove, CopyMove, TruncateMove, WriteMove, AwgMove, AwgFailsMove, Active
  <2>3. ASSUME NEW told, Left(p, told), script[p].op = "add" \/ told = "gone" PROVE AnswerInv'
    <3>1. ASSUME NEW q \in Script, script'[q].at # "idle"
          PROVE  /\ Active(q) /\ script'[q].key = script[q].key /\ script'[q].op = script[q].op
                 /\ \/ answer'[script[q].key] = answer[script[q].key]
                    \/ script[q].op # "add" /\ answer'[script[q].key] = "gone"
      <4>1. q # p /\ script'[q] = script[q]
        BY <2>3, <3>1, IdleJob DEF Left
      <4>2. Active(q) /\ script[q].key \in Key
        BY <3>1, <4>1 DEF Types, At, Active
      <4>3. CASE script[q].key = script[p].key
        <5>1. script[p].op # "add" /\ script[q].op # "add"
          BY <2>2, <4>1, <4>2, <4>3 DEF AnswerInv
        <5> QED
          BY <2>3, <4>1, <4>2, <5>1 DEF Left
      <4>4. CASE script[q].key # script[p].key
        BY <2>3, <4>1, <4>2, <4>4 DEF Left
      <4> QED
        BY <4>3, <4>4
    <3> QED
      BY <1>1, <3>1
  <2>4. ASSUME NEW stage, NEW text, Moved(p, stage, text), UNCHANGED answer PROVE AnswerInv'
    BY <1>1, <2>2, <2>4 DEF Moved, Active
  <2>5. CASE CheckMove(p)
    BY <2>3, <2>4, <2>5 DEF CheckMove
  <2>6. CASE CopyMove(p)
    BY <2>4, <2>6 DEF CopyMove
  <2>7. CASE TruncateMove(p)
    BY <2>4, <2>7 DEF TruncateMove
  <2>8. CASE WriteMove(p)
    BY <2>4, <2>8 DEF WriteMove
  <2>9. CASE AwgMove(p)
    BY <2>3, <2>9 DEF AwgMove
  <2>10. CASE AwgFailsMove(p)
    BY <2>3, <2>10 DEF AwgFailsMove
  <2> QED
    BY <2>1, <2>5, <2>6, <2>7, <2>8, <2>9, <2>10
<1>3. ASSUME NEW p \in Script, NEW op \in {"add", "remove"}, NEW k \in Key, CallMove(p, op, k)
      PROVE  AnswerInv'
  <2>1. ASSUME NEW q \in Script, script'[q].at # "idle", q # p
        PROVE  /\ Active(q) /\ script'[q] = script[q] /\ script[q].key \in Key
               /\ script[q].key = k =>
                    script[q].op # "add" /\ op # "add" /\ answer'[k] = "removing"
               /\ script[q].key # k => answer'[script[q].key] = answer[script[q].key]
    <3>1. Active(q) /\ script'[q] = script[q] /\ script[q].key \in Key
      BY <1>3, <2>1 DEF CallMove, Types, At, Active
    <3>2. script[q].key = k => script[q].op # "add" /\ op # "add" /\ answer'[k] = "removing"
      <4>1. script[q].key = k =>
              answer[k] \in IF script[q].op = "add" THEN {"adding"} ELSE {"removing", "gone"}
        BY <3>1 DEF AnswerInv
      <4>2. /\ answer[k] \in IF op = "add" THEN {"new"} ELSE {"added", "removing"}
            /\ answer'[k] = IF op = "add" THEN "adding" ELSE "removing"
        BY <1>3 DEF CallMove
      <4> QED
        BY <4>1, <4>2
    <3> QED
      BY <1>3, <3>1, <3>2 DEF CallMove
  <2>2. /\ script'[p].at = "check" /\ script'[p].op = op /\ script'[p].key = k
        /\ answer'[k] = IF op = "add" THEN "adding" ELSE "removing"
    BY <1>3 DEF CallMove
  <2>3. ASSUME NEW q \in Script, script'[q].at # "idle"
        PROVE  answer'[script'[q].key] \in
                 IF script'[q].op = "add" THEN {"adding"} ELSE {"removing", "gone"}
    BY <2>1, <2>2, <2>3 DEF AnswerInv
  <2>4. ASSUME NEW q \in Script, NEW r \in Script, script'[q].at # "idle",
               script'[r].at # "idle", script'[q].key = script'[r].key, script'[q].op = "add"
        PROVE  q = r
    BY <2>1, <2>2, <2>4 DEF AnswerInv
  <2> QED
    BY <2>3, <2>4 DEF AnswerInv, Active
<1>4. ASSUME NEW h \in Hand, AddByHand(h) PROVE AnswerInv'
  BY <1>1, <1>4 DEF AddByHand, Active
<1>5. CASE StopMove
  BY <1>1, <1>5, IdleJob DEF StopMove, Reset
<1>6. CASE UNCHANGED <<script, answer>>
  BY <1>1, <1>6 DEF Active
<1> QED
  BY <1>2, <1>3, <1>4, <1>5, <1>6, Steps

-----------------------------------------------------------------------------
(* The file                                                                  *)

\* Nothing made by hand comes after a peer of the bot.
HandFirst == {ss \in Section \X Section : ss[1] \in Key => ss[2] \in Key}

Good(f) == f \in Seq(Section) /\ Chain(f, HandFirst) /\ Interface \in Sections(f)

\* What a script makes of file f.
Text(f, op, k) == IF op = "add" THEN Append(f, k) ELSE Outside(f, {k})

\* In such a file the block of a peer ends where the next one begins.
LEMMA CutIsOutside ==
    ASSUME NEW f, Good(f), NEW k \in Key
    PROVE  Cut(f, k) = Outside(f, {k})
<1>1. /\ f \in Seq(Section) /\ Len(f) \in Nat /\ Chain(f, HandFirst)
      /\ Key \cap Hand = {} /\ \A i \in 1..Len(f) : f[i] \in Section
  BY ConfAssumption DEF Good
<1>2. ASSUME NEW i \in 1..Len(f), f[i] = k PROVE f[i] \in Buffer(f, k)
  <2>1. i \in 1..i /\ \A m \in (i + 1)..i : f[m] \in Hand
    BY <1>1
  <2> QED
    BY <1>2, <2>1 DEF Buffer
<1>3. ASSUME NEW i \in 1..Len(f), NEW j \in 1..i, f[j] = k, \A m \in (j + 1)..i : f[m] \in Hand
      PROVE  f[i] = k
  <2>1. CASE i # j
    <3>1. j \in 1..Len(f) /\ j < i /\ f[i] \in Hand
      BY <1>1, <1>3, <2>1
    <3>2. f[i] \in Key
      BY <1>1, <1>3, <3>1 DEF Chain, HandFirst
    <3> QED
      BY <1>1, <3>1, <3>2
  <2> QED
    BY <1>3, <2>1
<1>4. \A x \in Buffer(f, k) : x = k
  BY <1>3 DEF Buffer
<1>5. Sections(f) \cap Buffer(f, k) = Sections(f) \cap {k}
  BY <1>2, <1>4 DEF Sections
<1> QED
  BY <1>1, <1>5, OutsideSame DEF Cut

LEMMA TextGood ==
    ASSUME NEW f, Good(f), NEW op \in {"add", "remove"}, NEW k \in Key
    PROVE  /\ Good(Text(f, op, k))
           /\ Sections(Text(f, op, k)) = IF op = "add" THEN Sections(f) \cup {k}
                                                       ELSE Sections(f) \ {k}
<1>1. /\ f \in Seq(Section) /\ Chain(f, HandFirst) /\ Interface \in Sections(f)
      /\ k \in Section /\ Interface # k /\ Sections(f) \subseteq Section
  BY ConfAssumption, LiveSections DEF Good, Section
<1>2. CASE op = "add"
  <2>1. \A y \in Sections(f) : <<y, k>> \in HandFirst
    BY <1>1 DEF HandFirst
  <2> QED
    BY <1>1, <1>2, <2>1, Appended DEF Good, Text
<1>3. CASE op = "remove"
  <2>1. /\ Outside(f, {k}) \in Seq(Section) /\ Sections(Outside(f, {k})) = Sections(f) \ {k}
        /\ Chain(Outside(f, {k}), HandFirst)
    BY <1>1, OutsideKeeps
  <2> QED
    BY <1>1, <1>3, <2>1 DEF Good, Text
<1> QED
  BY <1>2, <1>3

\* A block made by hand goes to the end of a file without peers of the bot.
LEMMA HandGood ==
    ASSUME NEW f, Good(f), NEW h \in Hand, Sections(f) \cap Key = {}
    PROVE  Good(Append(f, h)) /\ Sections(Append(f, h)) = Sections(f) \cup {h}
<1>1. /\ f \in Seq(Section) /\ Chain(f, HandFirst) /\ Interface \in Sections(f)
      /\ h \in Section /\ Sections(f) \subseteq Section
  BY LiveSections DEF Good, Section
<1>2. \A y \in Sections(f) : <<y, h>> \in HandFirst
  BY <1>1 DEF HandFirst
<1> QED
  BY <1>1, <1>2, Appended DEF Good

\* The file that scripts s mean when conf is c.
FileOf(s, c) ==
    IF \E p \in Script : s[p].at = "write"
    THEN s[CHOOSE p \in Script : s[p].at = "write"].tmp
    ELSE c

LEMMA Meant ==
    ASSUME NEW s, NEW c
    PROVE  /\ (\A p \in Script : s[p].at # "write") => FileOf(s, c) = c
           /\ \A p \in Script :
                s[p].at = "write" /\ (\A q \in Script : s[q].at = "write" => q = p)
                    => FileOf(s, c) = s[p].tmp
<1>1. ASSUME NEW p \in Script, s[p].at = "write", \A q \in Script : s[q].at = "write" => q = p
      PROVE  FileOf(s, c) = s[p].tmp
  <2>1. (CHOOSE q \in Script : s[q].at = "write") = p
    BY <1>1
  <2> QED
    BY <1>1, <2>1 DEF FileOf
<1> QED
  BY <1>1 DEF FileOf

LEMMA FileIs == File = FileOf(script, conf) /\ File' = FileOf(script', conf')
BY DEF File, FileOf, At

\* The states of the file and the scripts as long as no two work on it at once.
OneWriter == \A p, q \in Script :
    script[p].at \in {"open", "write"} /\ script[q].at \in {"open", "write"} => p = q
Emptied == \A p \in Script : script[p].at = "write" => conf = <<>>
Ready == \A p \in Script :
    script[p].at = "open" => script[p].tmp = Text(conf, script[p].op, script[p].key)

Orderly == OneWriter /\ Emptied /\ Ready /\ Good(File)

\* Steps of scripts that have not opened the file, before and after.
LEMMA NotAtWork ==
    ASSUME Orderly, UNCHANGED conf,
           \A q \in Script : \/ script'[q] = script[q]
                             \/ /\ script[q].at \notin {"open", "write"}
                                /\ script'[q].at \notin {"open", "write"}
    PROVE  Orderly' /\ File' = File
<1>1. /\ OneWriter /\ Emptied /\ Ready /\ Good(File)
      /\ File = FileOf(script, conf) /\ File' = FileOf(script', conf')
  BY FileIs DEF Orderly
<1>2. OneWriter' /\ Emptied' /\ Ready'
  BY <1>1 DEF OneWriter, Emptied, Ready
<1>3. File' = File
  <2>1. CASE \E q \in Script : script[q].at = "write"
    <3>1. PICK q \in Script : script[q].at = "write"
      BY <2>1
    <3>2. FileOf(script, conf) = script[q].tmp
      BY <1>1, <3>1, Meant DEF OneWriter
    <3>3. script'[q] = script[q]
      BY <3>1
    <3>4. FileOf(script', conf') = script'[q].tmp
      BY <1>2, <3>1, <3>3, Meant DEF OneWriter
    <3> QED
      BY <1>1, <3>2, <3>3, <3>4
  <2>2. CASE ~ \E q \in Script : script[q].at = "write"
    <3>1. FileOf(script, conf) = conf
      BY <2>2, Meant
    <3>2. \A q \in Script : script'[q].at # "write"
      BY <2>2
    <3>3. FileOf(script', conf') = conf'
      BY <3>2, Meant
    <3> QED
      BY <1>1, <3>1, <3>3
  <2> QED
    BY <2>1, <2>2
<1>4. Good(File)'
  BY <1>1, <1>3 DEF Good, Chain, Sections
<1> QED
  BY <1>2, <1>3, <1>4 DEF Orderly

\* The step of a script, as it changes the file.
LEMMA ScriptOrderly ==
    ASSUME Types, Orderly, intact', NEW p \in Script, ScriptStep(p)
    PROVE  /\ Orderly'
           /\ IF TruncateMove(p)
              THEN File = conf /\ File' = Text(conf, script[p].op, script[p].key)
              ELSE File' = File
<1>1. /\ CheckMove(p) \/ CopyMove(p) \/ TruncateMove(p) \/ WriteMove(p)
         \/ AwgMove(p) \/ AwgFailsMove(p)
      /\ script[p].key \in Key /\ script[p].op \in {"add", "remove"}
      /\ script[p].tmp \in Seq(Section)
  BY ScriptMoves
<1>2. /\ OneWriter /\ Emptied /\ Ready /\ Good(File)
      /\ File = FileOf(script, conf) /\ File' = FileOf(script', conf')
  BY FileIs DEF Orderly
<1>3. CASE CheckMove(p)
  <2>1. /\ script[p].at = "check" /\ UNCHANGED conf
        /\ \A q \in Script : q # p => script'[q] = script[q]
        /\ script'[p].at \in {"copy", "idle"}
    BY <1>3, IdleJob DEF CheckMove, Moved, Left
  <2>2. ~ TruncateMove(p)
    BY <2>1 DEF TruncateMove
  <2> QED
    BY <2>1, <2>2, NotAtWork
<1>4. CASE AwgMove(p) \/ AwgFailsMove(p)
  <2>1. /\ script[p].at = "awg" /\ UNCHANGED conf
        /\ \A q \in Script : q # p => script'[q] = script[q]
        /\ script'[p].at = "idle"
    BY <1>4, IdleJob DEF AwgMove, AwgFailsMove, Left
  <2>2. ~ TruncateMove(p)
    BY <2>1 DEF TruncateMove
  <2> QED
    BY <2>1, <2>2, NotAtWork
<1>5. CASE CopyMove(p)
  <2>1. /\ script[p].at = "copy" /\ UNCHANGED conf /\ script'[p].at = "open"
        /\ script'[p].op = script[p].op /\ script'[p].key = script[p].key
        /\ script'[p].tmp = New(p)
        /\ \A q \in Script : q # p => script'[q] = script[q]
        /\ \A q \in Script : q # p => script[q].at \notin {"open", "write"}
    BY <1>5 DEF CopyMove, Moved, Others
  <2>2. FileOf(script, conf) = conf /\ FileOf(script', conf') = conf'
    <3>1. \A q \in Script : script[q].at # "write" /\ script'[q].at # "write"
      BY <2>1
    <3> QED
      BY <3>1, Meant
  <2>3. File' = File /\ Good(conf)
    BY <1>2, <2>1, <2>2
  <2>4. New(p) = Text(conf, script[p].op, script[p].key)
    BY <1>1, <2>3, CutIsOutside DEF New, Text
  <2>5. OneWriter' /\ Emptied' /\ Ready'
    BY <2>1, <2>4 DEF OneWriter, Emptied, Ready
  <2>6. Good(File)'
    BY <1>2, <2>3 DEF Good, Chain, Sections
  <2>7. ~ TruncateMove(p)
    BY <2>1 DEF TruncateMove
  <2> QED
    BY <2>3, <2>5, <2>6, <2>7 DEF Orderly
<1>6. CASE TruncateMove(p)
  <2>1. /\ script[p].at = "open" /\ conf' = <<>> /\ script'[p].at = "write"
        /\ script'[p].tmp = script[p].tmp
        /\ \A q \in Script : q # p => script'[q] = script[q]
    BY <1>6 DEF TruncateMove, Moved
  <2>2. \A q \in Script : q # p => script[q].at \notin {"open", "write"}
    BY <1>2, <2>1 DEF OneWriter
  <2>3. File = conf
    BY <1>2, <2>1, <2>2, Meant
  <2>4. File' = Text(conf, script[p].op, script[p].key)
    <3>1. \A q \in Script : script'[q].at = "write" => q = p
      BY <2>1, <2>2
    <3>2. FileOf(script', conf') = script'[p].tmp
      BY <2>1, <3>1, Meant
    <3> QED
      BY <1>2, <2>1, <3>2 DEF Ready
  <2>5. OneWriter' /\ Emptied' /\ Ready'
    BY <2>1, <2>2 DEF OneWriter, Emptied, Ready
  <2>6. Good(Text(conf, script[p].op, script[p].key))
    BY <1>1, <1>2, <2>3, TextGood
  <2>7. Good(File)'
    BY <2>4, <2>6 DEF Good, Chain, Sections
  <2> QED
    BY <1>6, <2>3, <2>4, <2>5, <2>7 DEF Orderly
<1>7. CASE WriteMove(p)
  <2>1. /\ script[p].at = "write" /\ conf' = Overlay(conf, script[p].tmp)
        /\ script'[p].at = "awg" /\ \A q \in Script : q # p => script'[q] = script[q]
    BY <1>7 DEF WriteMove, Moved
  <2>2. \A q \in Script : q # p => script[q].at \notin {"open", "write"}
    BY <1>2, <2>1 DEF OneWriter
  <2>3. FileOf(script, conf) = script[p].tmp
    BY <2>1, <2>2, Meant
  <2>4. conf' = script[p].tmp
    <3>1. conf = <<>> /\ <<>> \in Seq(Section)
      BY <1>2, <2>1 DEF Emptied
    <3> QED
      BY <1>1, <2>1, <3>1, OverlayType
  <2>5. FileOf(script', conf') = conf'
    <3>1. \A q \in Script : script'[q].at # "write"
      BY <2>1, <2>2
    <3> QED
      BY <3>1, Meant
  <2>6. File' = File
    BY <1>2, <2>3, <2>4, <2>5
  <2>7. OneWriter' /\ Emptied' /\ Ready'
    BY <2>1, <2>2 DEF OneWriter, Emptied, Ready
  <2>8. Good(File)'
    BY <1>2, <2>6 DEF Good, Chain, Sections
  <2>9. ~ TruncateMove(p)
    BY <2>1 DEF TruncateMove
  <2> QED
    BY <2>6, <2>7, <2>8, <2>9 DEF Orderly
<1> QED
  BY <1>1, <1>3, <1>4, <1>5, <1>6, <1>7

\* The other steps, as they change the file.
LEMMA OtherOrderly ==
    ASSUME Types, Orderly, intact'
    PROVE  /\ \A p \in Script, op \in {"add", "remove"}, k \in Key :
                CallMove(p, op, k) => Orderly' /\ File' = File
           /\ \A h \in Hand : AddByHand(h) =>
                /\ Orderly' /\ File = conf /\ File' = Append(conf, h)
                /\ Sections(File') = Sections(File) \cup {h}
                /\ Sections(File) \cap Key = {}
           /\ StopMove => /\ Orderly' /\ File' = File
                          /\ live' = Sections(File) \ {Interface}
           /\ UNCHANGED <<conf, script>> => Orderly' /\ File' = File
<1>1. /\ OneWriter /\ Emptied /\ Ready /\ Good(File)
      /\ File = FileOf(script, conf) /\ File' = FileOf(script', conf')
  BY FileIs DEF Orderly
<1>2. ASSUME NEW p \in Script, NEW op, NEW k, CallMove(p, op, k) PROVE Orderly' /\ File' = File
  <2>1. /\ script[p].at = "idle" /\ script'[p].at = "check" /\ UNCHANGED conf
        /\ \A q \in Script : q # p => script'[q] = script[q]
    BY <1>2, IdleJob DEF CallMove
  <2> QED
    BY <2>1, NotAtWork
<1>3. ASSUME NEW h \in Hand, AddByHand(h)
      PROVE  /\ Orderly' /\ File = conf /\ File' = Append(conf, h)
             /\ Sections(File') = Sections(File) \cup {h}
             /\ Sections(File) \cap Key = {}
  <2>1. /\ \A q \in Script : script[q].at = "idle" /\ script'[q].at = "idle"
        /\ conf' = Append(conf, h) /\ Sections(conf) \cap Key = {}
    BY <1>3, IdleJob DEF AddByHand
  <2>2. File = conf /\ File' = conf'
    <3>1. FileOf(script, conf) = conf /\ FileOf(script', conf') = conf'
      BY <2>1, Meant
    <3> QED
      BY <1>1, <3>1
  <2>3. OneWriter' /\ Emptied' /\ Ready'
    BY <2>1 DEF OneWriter, Emptied, Ready
  <2>4. Good(Append(conf, h)) /\ Sections(Append(conf, h)) = Sections(conf) \cup {h}
    BY <1>1, <2>1, <2>2, HandGood
  <2>5. Good(File)'
    BY <2>1, <2>2, <2>4 DEF Good, Chain, Sections
  <2> QED
    BY <2>1, <2>2, <2>3, <2>4, <2>5 DEF Orderly
<1>4. ASSUME StopMove
      PROVE  Orderly' /\ File' = File /\ live' = Sections(File) \ {Interface}
  <2>1. /\ \A q \in Script : script[q].at # "write" /\ script'[q].at = "idle"
        /\ conf' = conf
        /\ live' = IF Interface \in Sections(conf) THEN Sections(conf) \ {Interface} ELSE {}
    BY <1>4, IdleJob DEF StopMove, Reset
  <2>2. File = conf /\ File' = conf'
    <3>1. FileOf(script, conf) = conf /\ FileOf(script', conf') = conf'
      BY <2>1, Meant
    <3> QED
      BY <1>1, <3>1
  <2>3. OneWriter' /\ Emptied' /\ Ready'
    BY <2>1 DEF OneWriter, Emptied, Ready
  <2>4. Good(File)'
    BY <1>1, <2>1, <2>2 DEF Good, Chain, Sections
  <2> QED
    BY <1>1, <2>1, <2>2, <2>3, <2>4 DEF Orderly, Good
<1>5. ASSUME UNCHANGED <<conf, script>> PROVE Orderly' /\ File' = File
  BY <1>5, NotAtWork
<1> QED
  BY <1>2, <1>3, <1>4, <1>5

-----------------------------------------------------------------------------
(* The scripts and the answers                                               *)

\* A script that adds finds its key missing until it has truncated the file; from
\* there on the file has what the script is for.
Progress == \A p \in Script :
    /\ script[p].op = "add" /\ script[p].at \in {"check", "copy", "open"}
          => script[p].key \notin Sections(File)
    /\ script[p].at \in {"write", "awg"}
          => (script[p].key \in Sections(File) <=> script[p].op = "add")

NewOut == \A k \in Key : answer[k] = "new" => k \notin Sections(File)

FileInv == intact => Orderly /\ Progress /\ NewOut

\* How a script changes the sections of the file.
LEMMA ScriptSections ==
    ASSUME Types, Orderly, intact', NEW p \in Script, ScriptStep(p), NEW k \in Key
    PROVE  k \in Sections(File') <=>
             IF TruncateMove(p) /\ k = script[p].key THEN script[p].op = "add"
                                                     ELSE k \in Sections(File)
<1>1. CASE TruncateMove(p)
  <2>1. /\ File = conf /\ File' = Text(conf, script[p].op, script[p].key) /\ Good(conf)
        /\ script[p].key \in Key /\ script[p].op \in {"add", "remove"}
    BY <1>1, ScriptOrderly, ScriptMoves DEF Orderly
  <2>2. Sections(File') = IF script[p].op = "add" THEN Sections(File) \cup {script[p].key}
                                                  ELSE Sections(File) \ {script[p].key}
    BY <2>1, TextGood
  <2> QED
    BY <1>1, <2>2
<1>2. CASE ~ TruncateMove(p)
  BY <1>2, ScriptOrderly
<1> QED
  BY <1>1, <1>2

\* What a step of a script does to the other scripts and to the answers.
LEMMA ScriptSteps ==
    ASSUME Types, AnswerInv, NEW p \in Script, ScriptStep(p)
    PROVE  /\ script[p].key \in Key /\ script[p].op \in {"add", "remove"} /\ Active(p)
           /\ \A q \in Script : q # p =>
                /\ script'[q] = script[q]
                /\ Active(q) => script[q].key \in Key
                /\ Active(q) /\ script[q].key = script[p].key =>
                     script[q].op # "add" /\ script[p].op # "add"
           /\ answer[script[p].key] \in
                 IF script[p].op = "add" THEN {"adding"} ELSE {"removing", "gone"}
           /\ intact' => intact
           /\ \A k \in Key : \/ answer'[k] = answer[k]
                             \/ k = script[p].key /\ answer'[k] # "new"
<1>1. /\ CheckMove(p) \/ CopyMove(p) \/ TruncateMove(p) \/ WriteMove(p)
         \/ AwgMove(p) \/ AwgFailsMove(p)
      /\ script[p].key \in Key /\ script[p].op \in {"add", "remove"}
  BY ScriptMoves
<1> DEFINE Beside == /\ Active(p)
                     /\ \A q \in Script : q # p => script'[q] = script[q]
                     /\ intact' => intact
                     /\ \A k \in Key : \/ answer'[k] = answer[k]
                                       \/ k = script[p].key /\ answer'[k] # "new"
<1>2. Beside
  <2>1. ASSUME NEW told, Left(p, told), told # "new", intact' => intact, Active(p)
        PROVE  Beside
    BY <2>1 DEF Left
  <2>2. ASSUME NEW stage, NEW text, Moved(p, stage, text), UNCHANGED answer,
               intact' => intact, Active(p)
        PROVE  Beside
    BY <2>2 DEF Moved
  <2>3. CASE CheckMove(p)
    BY <2>1, <2>2, <2>3 DEF CheckMove, Active
  <2>4. CASE CopyMove(p)
    BY <2>2, <2>4 DEF CopyMove, Active
  <2>5. CASE TruncateMove(p)
    BY <2>2, <2>5 DEF TruncateMove, Active
  <2>6. CASE WriteMove(p)
    BY <2>2, <2>6 DEF WriteMove, Active
  <2>7. CASE AwgMove(p)
    BY <2>1, <2>7 DEF AwgMove, Active
  <2>8. CASE AwgFailsMove(p)
    BY <2>1, <2>8 DEF AwgFailsMove, Active
  <2> QED
    BY <1>1, <2>3, <2>4, <2>5, <2>6, <2>7, <2>8
<1>3. ASSUME NEW q \in Script, Active(q) PROVE script[q].key \in Key
  BY <1>3 DEF Types, At, Active
<1> QED
  BY <1>1, <1>2, <1>3 DEF AnswerInv

LEMMA ScriptProgress ==
    ASSUME Types, AnswerInv, FileInv, intact', NEW p \in Script, ScriptStep(p)
    PROVE  Progress' /\ NewOut'
<1>1. /\ script[p].key \in Key /\ script[p].op \in {"add", "remove"} /\ Active(p)
      /\ \A q \in Script : q # p =>
           /\ script'[q] = script[q]
           /\ Active(q) => script[q].key \in Key
           /\ Active(q) /\ script[q].key = script[p].key =>
                script[q].op # "add" /\ script[p].op # "add"
      /\ answer[script[p].key] \in
            IF script[p].op = "add" THEN {"adding"} ELSE {"removing", "gone"}
      /\ intact
      /\ \A k \in Key : \/ answer'[k] = answer[k]
                        \/ k = script[p].key /\ answer'[k] # "new"
  BY ScriptSteps
<1>2. Orderly /\ Progress /\ NewOut
  BY <1>1 DEF FileInv
<1>3. \A k \in Key : k \in Sections(File') <=>
        IF TruncateMove(p) /\ k = script[p].key THEN script[p].op = "add"
                                                ELSE k \in Sections(File)
  BY <1>2, ScriptSections
<1>4. NewOut'
  BY <1>1, <1>2, <1>3 DEF NewOut
<1>5. ASSUME NEW q \in Script, q # p
      PROVE  /\ script'[q].op = "add" /\ script'[q].at \in {"check", "copy", "open"}
                   => script'[q].key \notin Sections(File')
             /\ script'[q].at \in {"write", "awg"}
                   => (script'[q].key \in Sections(File') <=> script'[q].op = "add")
  BY <1>1, <1>2, <1>3, <1>5 DEF Progress, Active
<1>6. /\ script'[p].op = "add" /\ script'[p].at \in {"check", "copy", "open"}
            => script'[p].key \notin Sections(File')
      /\ script'[p].at \in {"write", "awg"}
            => (script'[p].key \in Sections(File') <=> script'[p].op = "add")
  <2>1. CheckMove(p) \/ CopyMove(p) \/ TruncateMove(p) \/ WriteMove(p)
        \/ AwgMove(p) \/ AwgFailsMove(p)
    BY ScriptMoves
  <2>2. CASE CheckMove(p)
    BY <1>1, <1>2, <1>3, <2>2, IdleJob DEF CheckMove, Left, Moved, Progress, TruncateMove
  <2>3. CASE CopyMove(p)
    BY <1>1, <1>2, <1>3, <2>3 DEF CopyMove, Moved, Progress, TruncateMove
  <2>4. CASE TruncateMove(p)
    BY <1>1, <1>3, <2>4 DEF TruncateMove, Moved
  <2>5. CASE WriteMove(p)
    BY <1>1, <1>2, <1>3, <2>5 DEF WriteMove, Moved, Progress, TruncateMove
  <2>6. CASE AwgMove(p) \/ AwgFailsMove(p)
    BY <2>6, IdleJob DEF AwgMove, AwgFailsMove, Left
  <2> QED
    BY <2>1, <2>2, <2>3, <2>4, <2>5, <2>6
<1> QED
  BY <1>4, <1>5, <1>6 DEF Progress

LEMMA FileStep == Types /\ AnswerInv /\ FileInv /\ [Next]_vars => FileInv'
<1> SUFFICES ASSUME Types, AnswerInv, FileInv, [Next]_vars, intact'
             PROVE  Orderly' /\ Progress' /\ NewOut'
  BY DEF FileInv
<1>1. ASSUME NEW p \in Script, ScriptStep(p) PROVE Orderly' /\ Progress' /\ NewOut'
  <2>1. Orderly
    BY <1>1, ScriptSteps DEF FileInv
  <2> QED
    BY <1>1, <2>1, ScriptOrderly, ScriptProgress
<1>2. ASSUME NEW p \in Script, NEW op \in {"add", "remove"}, NEW k \in Key, CallMove(p, op, k)
      PROVE  Orderly' /\ Progress' /\ NewOut'
  <2>1. Orderly /\ Progress /\ NewOut
    BY <1>2 DEF CallMove, FileInv
  <2>2. Orderly' /\ File' = File
    BY <1>2, <2>1, OtherOrderly
  <2>3. Progress' /\ NewOut'
    BY <1>2, <2>1, <2>2 DEF CallMove, Progress, NewOut
  <2> QED
    BY <2>2, <2>3
<1>3. ASSUME NEW h \in Hand, AddByHand(h) PROVE Orderly' /\ Progress' /\ NewOut'
  <2>1. Orderly /\ Progress /\ NewOut
    BY <1>3 DEF AddByHand, FileInv
  <2>2. Orderly' /\ Sections(File') = Sections(File) \cup {h}
    BY <1>3, <2>1, OtherOrderly
  <2>3. h \notin Key /\ \A q \in Script : script'[q].at = "idle"
    BY <1>3, ConfAssumption, IdleJob DEF AddByHand
  <2>4. Progress' /\ NewOut'
    BY <1>3, <2>1, <2>2, <2>3 DEF AddByHand, Progress, NewOut
  <2> QED
    BY <2>2, <2>4
<1>4. CASE StopMove
  <2>1. Orderly /\ Progress /\ NewOut
    BY <1>4 DEF StopMove, FileInv
  <2>2. Orderly' /\ File' = File
    BY <1>4, <2>1, OtherOrderly
  <2>3. \A q \in Script : script'[q].at = "idle"
    BY <1>4, IdleJob DEF StopMove, Reset
  <2>4. Progress' /\ NewOut'
    BY <1>4, <2>1, <2>2, <2>3 DEF StopMove, Progress, NewOut
  <2> QED
    BY <2>2, <2>4
<1>5. CASE UNCHANGED <<conf, script, answer, intact>>
  <2>1. Orderly /\ Progress /\ NewOut
    BY <1>5 DEF FileInv
  <2>2. Orderly' /\ File' = File
    BY <1>5, <2>1, OtherOrderly
  <2>3. Progress' /\ NewOut'
    BY <1>5, <2>1, <2>2 DEF Progress, NewOut
  <2> QED
    BY <2>2, <2>3
<1> QED
  BY <1>1, <1>2, <1>3, <1>4, <1>5, Steps

-----------------------------------------------------------------------------
(* The running interface                                                     *)

Spare == Spared("awg")

\* A script for k is at one of the stages S.
Serves(k, S) == \E p \in Script : script[p].at \in S /\ script[p].key = k

\* What was answered is so; and a peer that runs without being in the file has a
\* script that has still to take it from the interface.
LiveInv == intact /\ Spare => \A k \in Key :
    /\ answer[k] = "added" => k \in Sections(File) \cap live
    /\ answer[k] = "gone" => k \notin Sections(File) /\ (k \in live => Serves(k, {"awg"}))
    /\ k \in live \ Sections(File) => Serves(k, {"write", "awg"})

LEMMA SpareStep ==
    ASSUME Types, UNCHANGED faults \/ \E x : faults' = Append(faults, x), Spare'
    PROVE  Spare /\ ~ Fault("awg")
<1>1. faults \in Seq(Faults)
  BY DEF Types
<1>2. ASSUME NEW x, faults' = Append(faults, x) PROVE Spare /\ x # "awg"
  <2>1. /\ Len(faults') = Len(faults) + 1 /\ faults'[Len(faults) + 1] = x
        /\ \A i \in 1..Len(faults) : faults'[i] = faults[i] /\ i \in 1..Len(faults')
        /\ Len(faults) + 1 \in 1..Len(faults')
    BY <1>1, <1>2
  <2> QED
    BY <2>1 DEF Spare, Spared
<1>3. UNCHANGED faults => Spare /\ ~ Fault("awg")
  <2>1. faults # Append(faults, "awg")
    BY <1>1
  <2> QED
    BY <2>1 DEF Fault, Spare, Spared
<1> QED
  BY <1>2, <1>3 DEF Fault

LEMMA ScriptLive ==
    ASSUME Types, AnswerInv, FileInv, LiveInv, intact', Spare',
           NEW p \in Script, ScriptStep(p)
    PROVE  LiveInv'
<1>1. /\ script[p].key \in Key /\ script[p].op \in {"add", "remove"} /\ Active(p)
      /\ \A q \in Script : q # p => script'[q] = script[q]
      /\ answer[script[p].key] \in
            IF script[p].op = "add" THEN {"adding"} ELSE {"removing", "gone"}
      /\ intact
  BY ScriptSteps
<1>2. /\ CheckMove(p) \/ CopyMove(p) \/ TruncateMove(p) \/ WriteMove(p)
         \/ AwgMove(p) \/ AwgFailsMove(p)
  BY ScriptMoves
<1>3. Spare /\ ~ AwgFailsMove(p)
  <2>1. UNCHANGED faults \/ \E x : faults' = Append(faults, x)
    BY <1>2 DEF CheckMove, CopyMove, TruncateMove, WriteMove, AwgMove, AwgFailsMove, Fault
  <2> QED
    BY <2>1, SpareStep DEF AwgFailsMove
<1>4. Orderly /\ Progress
  BY <1>1 DEF FileInv
<1>5. \A k \in Key : k \in Sections(File') <=>
        IF TruncateMove(p) /\ k = script[p].key THEN script[p].op = "add"
                                                ELSE k \in Sections(File)
  BY <1>4, ScriptSections
<1> SUFFICES ASSUME NEW k \in Key
    PROVE  /\ answer'[k] = "added" => k \in Sections(File') \cap live'
           /\ answer'[k] = "gone" =>
                k \notin Sections(File') /\ (k \in live' => Serves(k, {"awg"})')
           /\ k \in live' \ Sections(File') => Serves(k, {"write", "awg"})'
  BY DEF LiveInv
<1>6. /\ answer[k] = "added" => k \in Sections(File) \cap live
      /\ answer[k] = "gone" => k \notin Sections(File) /\ (k \in live => Serves(k, {"awg"}))
      /\ k \in live \ Sections(File) => Serves(k, {"write", "awg"})
  BY <1>1, <1>3 DEF LiveInv
<1>7. CASE CheckMove(p)
  <2>1. /\ script[p].at = "check" /\ UNCHANGED <<conf, live>>
        /\ ~ Others(p, {"write"}) /\ ~ TruncateMove(p)
    BY <1>7 DEF CheckMove, TruncateMove
  <2>2. \A S : S \subseteq {"write", "awg"} /\ Serves(k, S) => Serves(k, S)'
    BY <1>1, <2>1 DEF Serves
  <2>3. CASE Left(p, "gone") /\ script[p].key \notin Sections(conf)
    <3>1. File = conf
      <4>1. \A q \in Script : script[q].at # "write"
        BY <2>1 DEF Others
      <4> QED
        BY <4>1, FileIs, Meant
    <3>2. CASE answer'[k] = answer[k]
      BY <1>5, <1>6, <2>1, <2>2, <3>2
    <3>3. CASE answer'[k] # answer[k]
      <4>1. k = script[p].key /\ answer'[k] = "gone" /\ k \notin Sections(File)
        BY <2>3, <3>1, <3>3 DEF Left
      <4>2. k \in live => Serves(k, {"awg"})
        BY <1>6, <2>1, <4>1 DEF Serves, Others
      <4> QED
        BY <1>5, <1>6, <2>1, <2>2, <4>1, <4>2
    <3> QED
      BY <3>2, <3>3
  <2>4. CASE UNCHANGED answer
    BY <1>5, <1>6, <2>1, <2>2, <2>4
  <2> QED
    BY <1>7, <2>3, <2>4 DEF CheckMove
<1>8. CASE CopyMove(p)
  <2>1. script[p].at = "copy" /\ UNCHANGED <<conf, live, answer>> /\ ~ TruncateMove(p)
    BY <1>8 DEF CopyMove, TruncateMove
  <2>2. \A S : S \subseteq {"write", "awg"} /\ Serves(k, S) => Serves(k, S)'
    BY <1>1, <2>1 DEF Serves
  <2> QED
    BY <1>5, <1>6, <2>1, <2>2
<1>9. CASE TruncateMove(p)
  <2>1. /\ script[p].at = "open" /\ script'[p].at = "write"
        /\ script'[p].key = script[p].key /\ UNCHANGED <<live, answer>>
    BY <1>9 DEF TruncateMove, Moved
  <2>2. \A S : S \subseteq {"write", "awg"} /\ Serves(k, S) => Serves(k, S)'
    BY <1>1, <2>1 DEF Serves
  <2>3. CASE k # script[p].key
    BY <1>5, <1>6, <2>1, <2>2, <2>3
  <2>4. CASE k = script[p].key
    <3>1. Serves(k, {"write", "awg"})'
      BY <2>1, <2>4 DEF Serves
    <3>2. answer'[k] # "added" /\ (answer'[k] = "gone" => script[p].op = "remove")
      BY <1>1, <2>1, <2>4
    <3> QED
      BY <1>5, <1>6, <1>9, <2>1, <2>2, <2>4, <3>1, <3>2
  <2> QED
    BY <2>3, <2>4
<1>10. CASE WriteMove(p)
  <2>1. /\ script[p].at = "write" /\ script'[p].at = "awg" /\ ~ TruncateMove(p)
        /\ script'[p].key = script[p].key /\ UNCHANGED <<live, answer>>
    BY <1>10 DEF WriteMove, TruncateMove, Moved
  <2>2. /\ Serves(k, {"awg"}) => Serves(k, {"awg"})'
        /\ Serves(k, {"write", "awg"}) => Serves(k, {"write", "awg"})'
    BY <1>1, <2>1 DEF Serves
  <2> QED
    BY <1>5, <1>6, <2>1, <2>2
<1>11. CASE AwgMove(p)
  <2>1. script[p].at = "awg" /\ ~ TruncateMove(p)
    BY <1>11 DEF AwgMove, TruncateMove
  <2>2. script[p].key \in Sections(File) <=> script[p].op = "add"
    BY <1>4, <2>1 DEF Progress
  <2>3. CASE k # script[p].key
    <3>1. \A S : Serves(k, S) => Serves(k, S)'
      BY <1>1, <2>3 DEF Serves
    <3>2. answer'[k] = answer[k] /\ (k \in live' <=> k \in live)
      BY <1>11, <2>3 DEF AwgMove, Left
    <3> QED
      BY <1>5, <1>6, <2>1, <3>1, <3>2
  <2>4. CASE k = script[p].key
    <3>1. /\ k \in live' <=> k \in Sections(File)
          /\ answer'[k] = answer[k] \/ answer'[k] = IF script[p].op = "add" THEN "added" ELSE "gone"
      BY <1>11, <2>2, <2>4 DEF AwgMove, Left
    <3>2. answer'[k] \in {"added", "gone"} => (answer'[k] = "added" <=> script[p].op = "add")
      BY <1>1, <2>4, <3>1
    <3> QED
      BY <1>5, <2>1, <2>2, <2>4, <3>1, <3>2
  <2> QED
    BY <2>3, <2>4
<1> QED
  BY <1>2, <1>3, <1>7, <1>8, <1>9, <1>10, <1>11

LEMMA LiveStep == Types /\ AnswerInv /\ FileInv /\ LiveInv /\ [Next]_vars => LiveInv'
<1> SUFFICES ASSUME Types, AnswerInv, FileInv, LiveInv, [Next]_vars, intact', Spare'
             PROVE  LiveInv'
  BY DEF LiveInv
<1>1. ASSUME NEW p \in Script, ScriptStep(p) PROVE LiveInv'
  BY <1>1, ScriptLive
<1>2. ASSUME NEW p \in Script, NEW op \in {"add", "remove"}, NEW k \in Key, CallMove(p, op, k)
      PROVE  LiveInv'
  <2>1. intact /\ Orderly /\ Spare /\ File' = File
    BY <1>2, SpareStep, OtherOrderly DEF CallMove, FileInv
  <2>2. ASSUME NEW l, NEW S, S \subseteq {"write", "awg"}, Serves(l, S) PROVE Serves(l, S)'
    BY <1>2, <2>2, IdleJob DEF CallMove, Serves
  <2> QED
    BY <1>2, <2>1, <2>2 DEF CallMove, LiveInv
<1>3. ASSUME NEW h \in Hand, AddByHand(h) PROVE LiveInv'
  <2>1. /\ intact /\ Orderly /\ Spare /\ h \notin Key
        /\ Sections(File') = Sections(File) \cup {h}
    BY <1>3, ConfAssumption, SpareStep, OtherOrderly DEF AddByHand, FileInv
  <2>2. /\ UNCHANGED <<script, answer>> /\ live' = live \cup {h}
    BY <1>3 DEF AddByHand
  <2>3. ASSUME NEW l, NEW S, Serves(l, S) PROVE Serves(l, S)'
    BY <2>2, <2>3 DEF Serves
  <2> QED
    BY <2>1, <2>2, <2>3 DEF LiveInv
<1>4. CASE StopMove
  <2>1. /\ intact /\ Orderly /\ Spare /\ File' = File
        /\ live' = Sections(File) \ {Interface} /\ UNCHANGED answer /\ Interface \notin Key
    BY <1>4, ConfAssumption, SpareStep, OtherOrderly DEF StopMove, FileInv, Fault
  <2> QED
    BY <2>1 DEF LiveInv
<1>5. CASE UNCHANGED <<conf, live, script, answer, intact>>
           /\ (UNCHANGED faults \/ \E x : faults' = Append(faults, x))
  <2>1. intact /\ Orderly /\ Spare /\ File' = File
    BY <1>5, SpareStep, OtherOrderly DEF FileInv
  <2>2. ASSUME NEW l, NEW S, Serves(l, S) PROVE Serves(l, S)'
    BY <1>5, <2>2 DEF Serves
  <2> QED
    BY <1>5, <2>1, <2>2 DEF LiveInv
<1> QED
  BY <1>1, <1>2, <1>3, <1>4, <1>5, Steps

LEMMA InvInit == Init => AnswerInv /\ FileInv /\ LiveInv
<1> SUFFICES ASSUME Init PROVE AnswerInv /\ FileInv /\ LiveInv
  OBVIOUS
<1>1. /\ \A p \in Script : script[p].at = "idle"
      /\ live = Sections(conf) \ {Interface}
      /\ \A k \in Key : answer[k] = "new"
  BY IdleJob DEF Init
<1>2. File = conf
  BY <1>1, FileIs, Meant
<1>3. Interface \in Section \ Key /\ Hand \subseteq Section \ Key
  BY ConfAssumption DEF Section
<1>4. Good(conf) /\ Sections(conf) \cap Key = {}
  <2> DEFINE f == <<Interface>>
  <2>1. /\ f \in Seq(Section) /\ Len(f) = 1 /\ f[1] = Interface
    BY <1>3
  <2> HIDE DEF f
  <2>2. Good(f) /\ Sections(f) = {Interface}
    <3>1. Sections(f) = {Interface}
      BY <2>1 DEF Sections
    <3>2. Chain(f, HandFirst)
      BY <2>1 DEF Chain
    <3> QED
      BY <2>1, <3>1, <3>2 DEF Good
  <2>3. CASE conf = <<Interface>>
    BY <1>3, <2>2, <2>3 DEF f
  <2>4. ASSUME NEW h \in Hand, conf = <<Interface, h>>
        PROVE  Good(conf) /\ Sections(conf) \cap Key = {}
    <3>1. Append(f, h) = conf
      <4> DEFINE g == <<Interface, h>>
      <4>1. /\ g \in Seq(Section) /\ Len(g) = 2 /\ g[1] = Interface /\ g[2] = h
        BY <1>3
      <4>2. /\ Append(f, h) \in Seq(Section) /\ Len(Append(f, h)) = 2
            /\ Append(f, h)[1] = Interface /\ Append(f, h)[2] = h
        <5>1. f \in Seq(Section) /\ h \in Section /\ Len(f) + 1 = 2 /\ 1 \in 1..Len(f)
          BY <1>3, <2>1
        <5>2. /\ Append(f, h) \in Seq(Section) /\ Len(Append(f, h)) = Len(f) + 1
              /\ \A i \in 1..Len(f) : Append(f, h)[i] = f[i]
              /\ Append(f, h)[Len(f) + 1] = h
          BY <5>1, AppendProperties
        <5> QED
          BY <2>1, <5>1, <5>2
      <4> HIDE DEF g
      <4>3. Append(f, h) = g
        BY <4>1, <4>2, SeqEqual
      <4> QED
        BY <2>4, <4>3 DEF g
    <3>2. Good(Append(f, h)) /\ Sections(Append(f, h)) = Sections(f) \cup {h}
      BY <1>3, <2>2, HandGood
    <3> QED
      BY <1>3, <2>2, <2>4, <3>1, <3>2
  <2> QED
    BY <2>3, <2>4 DEF Init
<1>5. AnswerInv
  BY <1>1 DEF AnswerInv, Active
<1>6. Orderly /\ Progress /\ NewOut
  <2>1. OneWriter /\ Emptied /\ Ready /\ Progress
    BY <1>1 DEF OneWriter, Emptied, Ready, Progress
  <2> QED
    BY <1>2, <1>4, <2>1 DEF Orderly, NewOut
<1>7. LiveInv
  BY <1>1, <1>2 DEF LiveInv
<1> QED
  BY <1>5, <1>6, <1>7 DEF FileInv

-----------------------------------------------------------------------------
(* Theorems                                                                  *)

PeerInv == Types /\ AnswerInv /\ FileInv /\ LiveInv

LEMMA PeerInvKept == Spec => []PeerInv
<1>1. Init => PeerInv
  BY TypesInit, InvInit DEF PeerInv
<1>2. PeerInv /\ [Next]_vars => PeerInv'
  BY TypesStep, AnswerStep, FileStep, LiveStep DEF PeerInv
<1> QED
  BY <1>1, <1>2, PTL DEF Spec

\* However many scripts run at once and whatever is cut off: as long as no two work
\* on the file at once and awg does not fail, what the bot was told of a peer is so
\* (awg-peer-add, awg-peer-remove).
THEOREM AnswersAreTrue == Spec => []AnswersHold
<1>1. PeerInv => AnswersHold
  <2>1. \A k : Serves(k, {"awg"}) => \E p \in Script : At(p, "awg") /\ script[p].key = k
    BY DEF Serves, At
  <2> QED
    BY <2>1 DEF PeerInv, LiveInv, Spare, AnswersHold
<1> QED
  BY <1>1, PeerInvKept, PTL

LEMMA TableSame ==
    /\ \A f : Table!Sections(f) = Sections(f)
    /\ \A f, B : Table!Outside(f, B) = Outside(f, B)
BY DEF Table!Sections, Sections, Table!Outside, Outside

LEMMA TableInit == Init => Table!Init
<1> SUFFICES ASSUME Init PROVE Table!Init
  OBVIOUS
<1>1. File = conf
  <2>1. \A p \in Script : script[p].at # "write"
    BY IdleJob DEF Init
  <2> QED
    BY <2>1, FileIs, Meant
<1> QED
  BY <1>1, TableSame DEF Init, Table!Init

LEMMA TableStep ==
    PeerInv /\ [Next]_vars => [Table!Next \/ ~ intact]_(Table!vars)
<1> SUFFICES ASSUME PeerInv, [Next]_vars, intact'
             PROVE  [Table!Next]_(Table!vars)
  BY DEF Table!Next
<1>1. Types /\ AnswerInv /\ FileInv
  BY DEF PeerInv
<1>2. ASSUME File' = File, UNCHANGED <<live, intact>> PROVE [Table!Next]_(Table!vars)
  BY <1>2 DEF Table!vars
<1>3. ASSUME Table!Step, UNCHANGED intact PROVE [Table!Next]_(Table!vars)
  BY <1>3 DEF Table!Next
<1>4. ASSUME NEW p \in Script, ScriptStep(p) PROVE [Table!Next]_(Table!vars)
  <2>1. /\ CheckMove(p) \/ CopyMove(p) \/ TruncateMove(p) \/ WriteMove(p)
           \/ AwgMove(p) \/ AwgFailsMove(p)
        /\ script[p].key \in Key /\ script[p].op \in {"add", "remove"}
    BY <1>1, <1>4, ScriptMoves
  <2>2. intact /\ Orderly /\ Progress
    BY <1>1, <1>4, ScriptSteps DEF FileInv
  <2>3. /\ UNCHANGED intact
        /\ IF TruncateMove(p)
           THEN File = conf /\ File' = Text(conf, script[p].op, script[p].key)
           ELSE File' = File
    BY <1>1, <1>4, <2>2, ScriptOrderly DEF Types
  <2>4. CASE TruncateMove(p)
    <3>1. script[p].at = "open" /\ UNCHANGED live
      BY <2>4 DEF TruncateMove
    <3>2. CASE script[p].op = "add"
      <4>1. script[p].key \notin Sections(File)
        BY <2>2, <3>1, <3>2 DEF Progress
      <4>2. Table!Add(script[p].key)
        BY <2>3, <2>4, <3>1, <3>2, <4>1, TableSame DEF Table!Add, Text
      <4> QED
        BY <1>3, <2>1, <2>3, <4>2 DEF Table!Step
    <3>3. CASE script[p].op = "remove"
      <4>1. Table!Remove(script[p].key)
        BY <2>3, <2>4, <3>1, <3>3, TableSame DEF Table!Remove, Text
      <4> QED
        BY <1>3, <2>1, <2>3, <4>1 DEF Table!Step
    <3> QED
      BY <2>1, <3>2, <3>3
  <2>5. CASE AwgMove(p)
    <3>1. script[p].key \in Sections(File) <=> script[p].op = "add"
      BY <2>2, <2>5 DEF AwgMove, Progress
    <3>2. File' = File
      BY <2>3, <2>5 DEF AwgMove, TruncateMove
    <3>3. Table!Follow(script[p].key)
      BY <2>5, <3>1, <3>2, TableSame DEF AwgMove, Table!Follow
    <3> QED
      BY <1>3, <2>1, <2>3, <3>3 DEF Table!Step
  <2>6. CASE CheckMove(p) \/ CopyMove(p) \/ WriteMove(p) \/ AwgFailsMove(p)
    <3>1. UNCHANGED live /\ ~ TruncateMove(p)
      BY <2>6 DEF CheckMove, CopyMove, WriteMove, AwgFailsMove, TruncateMove
    <3> QED
      BY <1>2, <2>3, <3>1
  <2> QED
    BY <2>1, <2>4, <2>5, <2>6
<1>5. ASSUME NEW p \in Script, NEW op \in {"add", "remove"}, NEW k \in Key, CallMove(p, op, k)
      PROVE  [Table!Next]_(Table!vars)
  BY <1>1, <1>2, <1>5, OtherOrderly DEF CallMove, FileInv
<1>6. ASSUME NEW h \in Hand, AddByHand(h) PROVE [Table!Next]_(Table!vars)
  <2>1. intact /\ Orderly /\ UNCHANGED intact
    BY <1>1, <1>6 DEF AddByHand, FileInv, Types
  <2>2. File = conf /\ File' = Append(conf, h)
    BY <1>1, <1>6, <2>1, OtherOrderly
  <2>3. Table!AddByHand(h)
    BY <1>6, <2>2, TableSame DEF AddByHand, Table!AddByHand
  <2> QED
    BY <1>3, <2>1, <2>3 DEF Table!Step
<1>7. CASE StopMove
  <2>1. intact /\ Orderly /\ UNCHANGED intact
    BY <1>1, <1>7 DEF StopMove, FileInv, Types
  <2>2. File' = File /\ live' = Sections(File) \ {Interface}
    BY <1>1, <1>7, <2>1, OtherOrderly
  <2>3. Table!Reboot
    BY <2>2, TableSame DEF Table!Reboot
  <2> QED
    BY <1>3, <2>1, <2>3 DEF Table!Step
<1>8. CASE UNCHANGED <<conf, live, script, answer, intact>>
  BY <1>1, <1>2, <1>8, OtherOrderly DEF FileInv
<1> QED
  BY <1>1, <1>4, <1>5, <1>6, <1>7, <1>8, Steps

\* As long as no two scripts work on the file at once, the server does not stop in
\* the middle of a write and peers made by hand come before the bot's, every step of
\* the scripts is a step of the table of peers or none (awg-peer-add, awg-peer-remove).
THEOREM TableKept == Spec => IsPeerTable
<1>1. Init => Table!Init
  BY TableInit
<1>2. PeerInv /\ [Next]_vars => [Table!Next \/ ~ intact]_(Table!vars)
  BY TableStep
<1> QED
  BY <1>1, <1>2, PeerInvKept, PTL DEF Spec, IsPeerTable, Table!Spec
=============================================================================
