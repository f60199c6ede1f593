------------------------------ MODULE TailProofs ------------------------------
(***************************************************************************)
(* Theorems about TailSources and the walker it extends, for every tree of *)
(* directories, every window, and every bound.  What agents do to the tree *)
(* between two steps of a walk is DiskStep; what a walk still owes is       *)
(* CoverInv.                                                               *)
(***************************************************************************)
EXTENDS TailSources, SequenceCounts

-----------------------------------------------------------------------------
(* A node and the directories above it *)

LEMMA PathSelf == ASSUME NEW x \in Nodes PROVE x \in Path(x)
BY DEF Path

LEMMA PathUp ==
  ASSUME NEW x, NEW y \in Path(x), y # Root PROVE In[y] \in Path(x)
<1>1. y \in Nodes BY DEF Path
<1>2. In[y] \in Nodes BY <1>1, WatchAssumption DEF Nodes
<1>3. ASSUME NEW S \in SUBSET Nodes, x \in S, \A z \in S \ {Root} : In[z] \in S
      PROVE  In[y] \in S
  BY <1>3 DEF Path
<1> QED BY <1>2, <1>3 DEF Path

\* Path is the least set that is closed in this way.
LEMMA PathLeast ==
  ASSUME NEW x, NEW S, x \in S, S \subseteq Nodes, \A z \in S \ {Root} : In[z] \in S
  PROVE  Path(x) \subseteq S
BY DEF Path

\* A directory on the path of a node is there for something else on the path.
LEMMA PathDown ==
  ASSUME NEW x \in Nodes, NEW d \in Path(x), d # x
  PROVE  \E y \in Path(x) : y # Root /\ In[y] = d
<1> SUFFICES ASSUME \A y \in Path(x) \ {Root} : In[y] # d PROVE FALSE OBVIOUS
<1> DEFINE S == Path(x) \ {d}
<1>1. x \in S BY PathSelf
<1>2. S \subseteq Nodes BY DEF Path
<1>3. \A z \in S \ {Root} : In[z] \in S BY PathUp
<1>4. Path(x) \subseteq S
  <2> HIDE DEF S
  <2> QED BY <1>1, <1>2, <1>3, PathLeast
<1> QED BY <1>4

LEMMA PathOfFile ==
  ASSUME NEW f \in Files, NEW y \in Path(f) PROVE y = f \/ y \in Dirs
<1> DEFINE S == {f} \cup Dirs
<1>1. f \in S /\ S \subseteq Nodes BY DEF Nodes
<1>2. \A z \in S \ {Root} : In[z] \in S BY WatchAssumption DEF Nodes
<1>3. Path(f) \subseteq S
  <2> HIDE DEF S
  <2> QED BY <1>1, <1>2, PathLeast
<1> QED BY <1>3

LEMMA PathOfChild ==
  ASSUME NEW x \in Nodes \ {Root} PROVE Path(In[x]) \subseteq Path(x)
<1>1. In[x] \in Path(x) BY PathSelf, PathUp
<1>2. Path(x) \subseteq Nodes BY DEF Path
<1>3. \A z \in Path(x) \ {Root} : In[z] \in Path(x) BY PathUp
<1> QED BY <1>1, <1>2, <1>3, PathLeast

-----------------------------------------------------------------------------
(* The invariant of the walker *)

\* What the walker has put down of x, in a listing with these entries.
Noted(x, subdirs, files) == x \in subdirs \/ \E e \in files : e.path = x

In1(x, d) == x \in Nodes \ {Root} /\ In[x] = d   \* x lies in d

\* Directories are not removed, and what is there hangs from the root.
TreeInv ==
  /\ hidden \subseteq Nodes \ {Root}
  /\ \A d \in Dirs : mtime[d] # Gone
  /\ \A x \in Nodes : Exists(x) => Root \in Path(x) /\ (x # Root => Exists(In[x]))

\* A cached listing is older than the directory, or has all that is not hidden.
CacheOK(d) ==
  /\ cache[d].mtime <= mtime[d]
  /\ cache[d].mtime = clock => d \in fresh
  /\ \A x \in cache[d].subdirs : In1(x, d) /\ mtime[x] # Absent
  /\ cache[d].mtime = mtime[d] /\ Exists(d) =>
       \A x \in Nodes : In1(x, d) /\ Exists(x) /\ x \notin hidden
                          => Noted(x, cache[d].subdirs, cache[d].files)

CacheInv == \A d \in Dirs : CacheOK(d)

\* A call of walkDir that has read its directory has noted all that was there
\* then, or has it still before it; the listing it will store is as good.
FrameOK(F) ==
  /\ F.mtime <= mtime[F.dir]
  /\ \A x \in F.left \cup F.subdirs : In1(x, F.dir) /\ mtime[x] # Absent
  /\ F.step = "stat" => F.left = {} /\ F.files = {} /\ cache[F.dir].mtime < F.mtime
  /\ F.step = "hit" => F.left \subseteq Dirs
  /\ F.subdirs \subseteq Dirs
  /\ F.step = "read" =>
       /\ F.mtime = clock => F.dir \in fresh
       /\ \A e \in F.files : PassesAge(e.mtime, now) => e \in listed
       /\ \A x \in Nodes : In1(x, F.dir) /\ Exists(x) /\ x \notin hidden
                             /\ (x \notin late \/ mtime[F.dir] = F.mtime)
                           => x \in F.left \/ Noted(x, F.subdirs, F.files)

\* The calls are those of a directory, of the one it lies in, and so on up to the
\* root, each once.
Shape(s) ==
  /\ s # << >> => s[Len(s)].dir = Root
  /\ \A i \in 1 .. Len(s) - 1 : In1(s[i].dir, s[i + 1].dir)
  /\ \A i, j \in 1 .. Len(s) : s[i].dir = s[j].dir => i = j

StackInv ==
  /\ stack # << >> => busy
  /\ Shape(stack)
  /\ \A i \in 1 .. Len(stack) : FrameOK(stack[i])

\* Call F will come to file f, or to a directory above it.
Pending(f, F) ==
  \/ \E y \in Path(f) : y \in F.left
  \/ F.step = "stat" /\ \E y \in Path(f) : In1(y, F.dir)
  \/ F.step = "read" /\ F.dir = In[f] /\ \E e \in F.files : e.path = f

Covered(f) ==
  \/ \E e \in listed : e.path = f
  \/ Aged(f, now)
  \/ \E i \in 1 .. Len(stack) : Pending(f, stack[i])

\* A file is in the results, or too old in the cache, or the walk will come to it.
CoverInv ==
  busy => \A f \in Files : Exists(f) /\ Path(f) \cap (hidden \cup late) = {} => Covered(f)

WalkInv == TreeInv /\ CacheInv /\ StackInv /\ CoverInv

-----------------------------------------------------------------------------
(* Types of the walker *)

LEMMA ExistingTime ==
  ASSUME WatchTypeOK, NEW x \in Nodes, Exists(x) PROVE mtime[x] \in 1 .. clock /\ clock \in 1 .. MaxTime
<1>1. mtime[x] \in Gone .. clock /\ clock \in 1 .. MaxTime BY DEF WatchTypeOK
<1>2. mtime[x] # 0 /\ mtime[x] # -1 BY DEF Exists, Absent, Gone
<1> QED BY <1>1, <1>2, WatchAssumption DEF Gone

LEMMA CallType ==
  ASSUME WatchTypeOK, NEW d \in Dirs, Exists(d)
  PROVE  Call(d, "hit", CachedSubdirs(d)) \in Frame /\ Call(d, "stat", {}) \in Frame
<1>1. d \in Nodes BY DEF Nodes
<1>2. mtime[d] \in 1 .. MaxTime BY <1>1, ExistingTime, WatchAssumption
<1>3. CachedSubdirs(d) \in SUBSET Nodes BY DEF CachedSubdirs, WatchTypeOK, Snapshot, Nodes
<1> DEFINE C(step, left) == [dir |-> d, mtime |-> mtime[d], step |-> step, left |-> left,
                             files |-> {}, subdirs |-> {}]
<1>4. ASSUME NEW left \in SUBSET Nodes, NEW step \in {"hit", "stat", "read"}
      PROVE  C(step, left) \in Frame
  BY <1>2 DEF Frame
<1>5. Call(d, "hit", CachedSubdirs(d)) = C("hit", CachedSubdirs(d))
      /\ Call(d, "stat", {}) = C("stat", {})
  BY DEF Call
<1> HIDE DEF C
<1> QED BY <1>3, <1>4, <1>5

\* Three things are done to the stack: its innermost call is replaced, a call is
\* made, a call returns.
Replaced(s, t, F) ==
  /\ t \in Seq(Frame) /\ Len(t) = Len(s) /\ t # << >> /\ t[1] = F
  /\ \A i \in 2 .. Len(s) : t[i] = s[i]

Pushed(s, t, F) ==
  /\ t \in Seq(Frame) /\ Len(t) = Len(s) + 1 /\ t # << >> /\ t[1] = F
  /\ \A i \in 1 .. Len(s) : t[i + 1] = s[i]

Popped(s, t) ==
  /\ t \in Seq(Frame) /\ Len(t) = Len(s) - 1
  /\ \A i \in 1 .. Len(s) - 1 : t[i] = s[i + 1]

LEMMA Stack ==
  ASSUME NEW s \in Seq(Frame), s # << >>
  PROVE  /\ Len(s) \in Nat \ {0} /\ Head(s) = s[1] /\ s[1] \in Frame /\ Popped(s, Tail(s))
<1>1. Len(s) \in Nat /\ Len(s) # 0 BY EmptySeq, LenProperties
<1>2. Tail(s) \in Seq(Frame) /\ Len(Tail(s)) = Len(s) - 1
      /\ \A i \in 1 .. Len(Tail(s)) : Tail(s)[i] = s[i + 1]
  BY HeadTailProperties
<1>3. 1 \in 1 .. Len(s) BY <1>1
<1> QED BY <1>1, <1>2, <1>3, ElementOfSeq DEF Popped

LEMMA Push ==
  ASSUME NEW s \in Seq(Frame), NEW F \in Frame
  PROVE  Pushed(s, <<F>> \o s, F)
<1> DEFINE u == <<F>>
<1>1. u \in Seq(Frame) /\ Len(u) = 1 /\ u[1] = F OBVIOUS
<1>2. Len(s) \in Nat BY LenProperties
<1> HIDE DEF u
<1>3. /\ u \o s \in Seq(Frame) /\ Len(u \o s) = Len(u) + Len(s)
      /\ \A i \in 1 .. Len(u) + Len(s) : (u \o s)[i] = IF i <= Len(u) THEN u[i] ELSE s[i - Len(u)]
  BY <1>1, ConcatProperties
<1>4. Len(u \o s) = Len(s) + 1 BY <1>1, <1>2, <1>3
<1>5. (u \o s)[1] = F BY <1>1, <1>2, <1>3
<1>6. ASSUME NEW i \in 1 .. Len(s) PROVE (u \o s)[i + 1] = s[i]
  <2>1. i + 1 \in 1 .. Len(u) + Len(s) /\ ~(i + 1 <= Len(u)) /\ i + 1 - Len(u) = i
    BY <1>1, <1>2
  <2> QED BY <1>3, <2>1
<1>7. u \o s # << >> BY <1>2, <1>4, EmptySeq
<1> QED BY <1>3, <1>4, <1>5, <1>6, <1>7 DEF Pushed, u

LEMMA PutTop ==
  ASSUME NEW s \in Seq(Frame), s # << >>, NEW F \in Frame
  PROVE  Replaced(s, <<F>> \o Tail(s), F) /\ Replaced(s, [s EXCEPT ![1] = F], F)
<1>1. Len(s) \in Nat \ {0} /\ Popped(s, Tail(s)) BY Stack
<1>2. Tail(s) \in Seq(Frame) /\ Len(Tail(s)) = Len(s) - 1
      /\ \A i \in 1 .. Len(s) - 1 : Tail(s)[i] = s[i + 1]
  BY <1>1 DEF Popped
<1>3. Pushed(Tail(s), <<F>> \o Tail(s), F) BY <1>2, Push
<1>4. Replaced(s, <<F>> \o Tail(s), F)
  <2> DEFINE t == <<F>> \o Tail(s)
             r == Tail(s)
  <2>1. /\ t \in Seq(Frame) /\ Len(t) = Len(r) + 1 /\ t # << >> /\ t[1] = F
        /\ \A i \in 1 .. Len(r) : t[i + 1] = r[i]
    BY <1>3 DEF Pushed
  <2> HIDE DEF t, r
  <2>2. Len(t) = Len(s) BY <1>1, <1>2, <2>1 DEF r
  <2>3. ASSUME NEW i \in 2 .. Len(s) PROVE t[i] = s[i]
    <3>1. i - 1 \in 1 .. Len(s) - 1 /\ (i - 1) + 1 = i BY <1>1
    <3>2. t[(i - 1) + 1] = r[i - 1] BY <1>2, <2>1, <3>1 DEF r
    <3>3. r[i - 1] = s[(i - 1) + 1] BY <1>2, <3>1 DEF r
    <3> QED BY <3>1, <3>2, <3>3
  <2> QED BY <2>1, <2>2, <2>3 DEF Replaced, t
<1>5. Replaced(s, [s EXCEPT ![1] = F], F)
  <2>1. 1 \in 1 .. Len(s) BY <1>1
  <2>2. /\ [s EXCEPT ![1] = F] \in Seq(Frame) /\ Len([s EXCEPT ![1] = F]) = Len(s)
        /\ \A j \in 1 .. Len(s) : [s EXCEPT ![1] = F][j] = IF j = 1 THEN F ELSE s[j]
    BY <2>1, ExceptSeq
  <2> DEFINE t == [s EXCEPT ![1] = F]
  <2> HIDE DEF t
  <2>3. t # << >> BY <1>1, <2>2, EmptySeq DEF t
  <2>4. t[1] = F /\ \A i \in 2 .. Len(s) : t[i] = s[i] BY <1>1, <2>1, <2>2 DEF t
  <2> QED BY <2>2, <2>3, <2>4 DEF Replaced, t
<1> QED BY <1>4, <1>5

\* The innermost call after each of the steps that stay in it.
ReadFrame ==
  [Top EXCEPT !.step = "read",
              !.left = {x \in Nodes \ {Root} : In[x] = Top.dir /\ Exists(x)}]

Found(f) == IF Exists(f) THEN {[path |-> f, mtime |-> mtime[f]]} ELSE {}

CollectFrame(f) == [Top EXCEPT !.left = @ \ {f}, !.files = @ \cup Found(f)]

Caller(d) ==
  [Top EXCEPT !.left = @ \ {d}, !.subdirs = IF Top.step = "read" THEN @ \cup {d} ELSE @]

LEMMA FrameForms ==
  ASSUME NEW F \in Frame, NEW l \in SUBSET Nodes
  PROVE  /\ [F EXCEPT !.step = "read", !.left = l] \in Frame
         /\ \A s \in SUBSET Entry : [F EXCEPT !.left = l, !.files = s] \in Frame
         /\ \A r \in SUBSET Dirs : [F EXCEPT !.left = l, !.subdirs = r] \in Frame
BY DEF Frame

LEMMA ReadDirIs ==
  ASSUME stack \in Seq(Frame), ReadDir
  PROVE  /\ stack # << >> /\ Top = stack[1] /\ Top \in Frame
         /\ ReadFrame \in Frame /\ Replaced(stack, stack', ReadFrame)
<1>1. stack # << >> /\ stack' = [stack EXCEPT ![1].step = "read",
         ![1].left = {x \in Nodes \ {Root} : In[x] = Top.dir /\ Exists(x)}]
  BY DEF ReadDir
<1>2. Top = stack[1] /\ Top \in Frame /\ Len(stack) \in Nat \ {0} BY <1>1, Stack DEF Top
<1> DEFINE l == {x \in Nodes \ {Root} : In[x] = Top.dir /\ Exists(x)}
<1>3. l \in SUBSET Nodes OBVIOUS
<1>4. stack' = [stack EXCEPT ![1] = [stack[1] EXCEPT !.step = "read", !.left = l]]
  BY <1>1, <1>2
<1>5. ReadFrame = [stack[1] EXCEPT !.step = "read", !.left = l] BY <1>2 DEF ReadFrame
<1> HIDE DEF l
<1>6. ReadFrame \in Frame
  <2>1. [Top EXCEPT !.step = "read", !.left = l] \in Frame BY <1>2, <1>3, FrameForms, Zenon
  <2> QED BY <1>2, <1>5, <2>1, Zenon
<1>7. Replaced(stack, stack', ReadFrame)
  <2>1. Replaced(stack, [stack EXCEPT ![1] = ReadFrame], ReadFrame)
    BY <1>1, <1>6, PutTop, Zenon
  <2> QED BY <1>4, <1>5, <2>1, Zenon
<1> QED BY <1>1, <1>2, <1>6, <1>7

LEMMA CollectFileIs ==
  ASSUME WatchTypeOK, NEW f, CollectFile(f)
  PROVE  /\ stack # << >> /\ Top = stack[1] /\ Top \in Frame /\ f \in Files /\ f \in Top.left
         /\ Found(f) \in SUBSET Entry
         /\ CollectFrame(f) \in Frame /\ Replaced(stack, stack', CollectFrame(f))
         /\ listed' = listed \cup {e \in Found(f) : PassesAge(e.mtime, now)}
<1>1. /\ stack # << >> /\ f \in Top.left /\ f \in Files
      /\ stack' = [stack EXCEPT ![1].left = @ \ {f}, ![1].files = @ \cup Found(f)]
      /\ listed' = listed \cup {e \in Found(f) : PassesAge(e.mtime, now)}
  BY DEF CollectFile, Found
<1>2. stack \in Seq(Frame) BY DEF WatchTypeOK
<1>3. Top = stack[1] /\ Top \in Frame /\ Len(stack) \in Nat \ {0} BY <1>1, <1>2, Stack DEF Top
<1>4. Found(f) \in SUBSET Entry
  <2>1. CASE Exists(f)
    <3>1. mtime[f] \in 1 .. MaxTime BY <1>1, <2>1, ExistingTime, WatchAssumption DEF Nodes
    <3> QED BY <1>1, <2>1, <3>1 DEF Found, Entry
  <2>2. CASE ~Exists(f) BY <2>2 DEF Found
  <2> QED BY <2>1, <2>2
<1>5. Top.left \in SUBSET Nodes /\ Top.files \in SUBSET Entry BY <1>3 DEF Frame
<1> DEFINE l == Top.left \ {f}
           s == Top.files \cup Found(f)
<1>6. l \in SUBSET Nodes /\ s \in SUBSET Entry BY <1>4, <1>5
<1>7. stack' = [stack EXCEPT ![1] = [stack[1] EXCEPT !.left = l, !.files = s]]
  BY <1>1, <1>3
<1>8. CollectFrame(f) = [Top EXCEPT !.left = l, !.files = s] BY DEF CollectFrame
<1> HIDE DEF l, s
<1>9. [Top EXCEPT !.left = l, !.files = s] \in Frame BY <1>3, <1>6, FrameForms, Zenon
<1>10. Replaced(stack, stack', CollectFrame(f))
  <2>1. CollectFrame(f) \in Frame BY <1>8, <1>9, Zenon
  <2>2. Replaced(stack, [stack EXCEPT ![1] = CollectFrame(f)], CollectFrame(f))
    BY <1>1, <1>2, <2>1, PutTop, Zenon
  <2>3. stack' = [stack EXCEPT ![1] = CollectFrame(f)] BY <1>3, <1>7, <1>8, Zenon
  <2> QED BY <2>2, <2>3, Zenon
<1> QED BY <1>1, <1>3, <1>4, <1>8, <1>9, <1>10

\* A walk of d that is called with callers c: d is gone, or its call is pushed.
Called(c, d) ==
  \/ ~Exists(d) /\ stack' = c
  \/ Exists(d) /\ Cached(d) /\ Pushed(c, stack', Call(d, "hit", CachedSubdirs(d)))
  \/ Exists(d) /\ ~Cached(d) /\ Pushed(c, stack', Call(d, "stat", {}))

\* What the walk of d adds to the results.
Listed(d, at) ==
  IF Exists(d) /\ Cached(d) THEN {e \in cache[d].files : PassesAge(e.mtime, at)} ELSE {}

LEMMA WalkDirIs ==
  ASSUME WatchTypeOK, NEW d \in Dirs, NEW c \in Seq(Frame), NEW l \in SUBSET Entry,
         NEW at, WalkDir(d, c, l, at)
  PROVE  Called(c, d) /\ listed' = l \cup Listed(d, at) /\ listed' \in SUBSET Entry
<1>1. CASE ~Exists(d) BY <1>1 DEF WalkDir, Called, Listed
<1>2. CASE Exists(d) /\ Cached(d)
  <2>1. /\ stack' = <<Call(d, "hit", CachedSubdirs(d))>> \o c
        /\ listed' = l \cup {e \in cache[d].files : PassesAge(e.mtime, at)}
    BY <1>2 DEF WalkDir
  <2>2. cache[d].files \in SUBSET Entry BY DEF WatchTypeOK, Snapshot
  <2>3. Pushed(c, stack', Call(d, "hit", CachedSubdirs(d)))
    BY <1>2, <2>1, CallType, Push
  <2> QED BY <1>2, <2>1, <2>2, <2>3 DEF Called, Listed
<1>3. CASE Exists(d) /\ ~Cached(d)
  <2>1. stack' = <<Call(d, "stat", {})>> \o c /\ listed' = l
    BY <1>3 DEF WalkDir
  <2>2. Pushed(c, stack', Call(d, "stat", {}))
    BY <1>3, <2>1, CallType, Push
  <2> QED BY <1>3, <2>1, <2>2 DEF Called, Listed
<1> QED BY <1>1, <1>2, <1>3

LEMMA DescendIs ==
  ASSUME WatchTypeOK, NEW d, Descend(d)
  PROVE  /\ stack # << >> /\ Top = stack[1] /\ Top \in Frame /\ d \in Dirs /\ d \in Top.left
         /\ Caller(d) \in Frame
         /\ \E c \in Seq(Frame) : Replaced(stack, c, Caller(d)) /\ Called(c, d)
         /\ listed' = listed \cup Listed(d, now) /\ listed' \in SUBSET Entry
<1> DEFINE c == <<Caller(d)>> \o Tail(stack)
<1>1. /\ stack # << >> /\ d \in Top.left /\ d \in Dirs
      /\ WalkDir(d, c, listed, now)
  BY DEF Descend, Caller
<1>2. stack \in Seq(Frame) /\ listed \in SUBSET Entry BY DEF WatchTypeOK
<1>3. Top = stack[1] /\ Top \in Frame BY <1>1, <1>2, Stack DEF Top
<1>4. Caller(d) \in Frame
  <2> DEFINE l == Top.left \ {d}
             r == IF Top.step = "read" THEN Top.subdirs \cup {d} ELSE Top.subdirs
  <2>1. l \in SUBSET Nodes /\ r \in SUBSET Dirs BY <1>1, <1>3 DEF Frame
  <2>2. Caller(d) = [Top EXCEPT !.left = l, !.subdirs = r] BY DEF Caller
  <2> HIDE DEF l, r
  <2>3. [Top EXCEPT !.left = l, !.subdirs = r] \in Frame BY <1>3, <2>1, FrameForms, Zenon
  <2> QED BY <2>2, <2>3
<1>5. Replaced(stack, c, Caller(d)) BY <1>1, <1>2, <1>4, PutTop
<1>6. c \in Seq(Frame) BY <1>5 DEF Replaced
<1> HIDE DEF c
<1>7. Called(c, d) /\ listed' = listed \cup Listed(d, now) /\ listed' \in SUBSET Entry
  BY <1>1, <1>2, <1>6, WalkDirIs
<1> QED BY <1>1, <1>3, <1>4, <1>5, <1>6, <1>7

-----------------------------------------------------------------------------
(* Every step keeps the types *)

\* What agents do, as far as it matters: directories stay, their times only move
\* to the present, and what appears is late, or hidden if its directory was read.
DiskStep ==
  /\ UNCHANGED <<clock, fresh, busy, walkVars>>
  /\ mtime' \in [Nodes -> Gone .. clock]
  /\ hidden \subseteq hidden' /\ hidden' \subseteq hidden \cup (Nodes \ {Root})
  /\ late \subseteq late' /\ late' \subseteq Nodes
  /\ \A x \in Nodes : mtime[x] # Absent => mtime'[x] # Absent
  /\ \A d \in Dirs : mtime'[d] = mtime[d] \/ mtime'[d] = clock
  /\ \A x \in Nodes : Exists(x)' =>
       \/ Exists(x)
       \/ /\ mtime[x] = Absent /\ (busy => x \in late')
          /\ x # Root => /\ Exists(In[x]) /\ mtime'[In[x]] = clock
                         /\ In[x] \in fresh => x \in hidden'

LEMMA CreateIsDisk ==
  ASSUME WatchTypeOK, NEW x \in Nodes, CreateNode(x) PROVE DiskStep
<1>1. /\ mtime[x] = Absent /\ (x # Root => Exists(In[x]))
      /\ mtime' = [Changed(x, clock) EXCEPT ![x] = clock]
      /\ hidden' = (IF x # Root /\ In[x] \in fresh THEN hidden \cup {x} ELSE hidden)
      /\ late' = (IF busy THEN late \cup {x} ELSE late)
      /\ UNCHANGED <<clock, fresh, busy, walkVars>>
  BY DEF CreateNode, Create
<1>2. clock \in 1 .. MaxTime /\ MaxTime \in Nat /\ mtime \in [Nodes -> Gone .. clock] /\ late \subseteq Nodes
  BY WatchAssumption DEF WatchTypeOK
<1> DEFINE p == IF x = Root THEN x ELSE In[x]
<1>3. p \in Dirs /\ p \in Nodes BY WatchAssumption DEF Nodes
<1>4. Changed(x, clock) = [mtime EXCEPT ![x] = clock, ![p] = clock] BY DEF Changed
<1> HIDE DEF p
<1>5. clock \in Gone .. clock BY <1>2 DEF Gone
<1>6. /\ mtime' \in [Nodes -> Gone .. clock]
      /\ \A y \in Nodes : mtime'[y] = IF y = x \/ y = p THEN clock ELSE mtime[y]
  <2> DEFINE m == [mtime EXCEPT ![x] = clock, ![p] = clock]
  <2>1. /\ m \in [Nodes -> Gone .. clock]
        /\ \A y \in Nodes : m[y] = IF y = x \/ y = p THEN clock ELSE mtime[y]
    BY <1>2, <1>3, <1>5
  <2>2. mtime' = [m EXCEPT ![x] = clock] BY <1>1, <1>4
  <2> HIDE DEF m
  <2> QED BY <1>5, <2>1, <2>2
<1>7. clock # Absent BY <1>2 DEF Absent
<1>8. \A y \in Nodes : mtime[y] # Absent => mtime'[y] # Absent BY <1>6, <1>7
<1>9. ASSUME NEW d \in Dirs PROVE mtime'[d] = mtime[d] \/ mtime'[d] = clock
  BY <1>6, <1>9 DEF Nodes
<1>10. ASSUME NEW y \in Nodes, Exists(y)', ~Exists(y)
       PROVE  /\ mtime[y] = Absent /\ (busy => y \in late')
              /\ y # Root => /\ Exists(In[y]) /\ mtime'[In[y]] = clock
                             /\ In[y] \in fresh => y \in hidden'
  <2>1. y = x
    <3>1. mtime'[y] # mtime[y] BY <1>10 DEF Exists
    <3>2. y = x \/ y = p BY <1>6, <3>1
    <3>3. p # x => Exists(p) BY <1>1 DEF p
    <3> QED BY <1>10, <3>2, <3>3
  <2>2. y # Root => In[y] = p BY <2>1 DEF p
  <2> QED BY <1>1, <1>3, <1>6, <2>1, <2>2
<1>11. hidden \subseteq hidden' /\ hidden' \subseteq hidden \cup (Nodes \ {Root}) BY <1>1
<1>12. late \subseteq late' /\ late' \subseteq Nodes BY <1>1, <1>2
<1> QED BY <1>1, <1>6, <1>8, <1>9, <1>10, <1>11, <1>12 DEF DiskStep

LEMMA TouchIsDisk ==
  ASSUME WatchTypeOK, TreeInv, NEW f \in Files,
         RemoveFile(f) \/ \E k \in LineKinds : AppendLine(f, k)
  PROVE  DiskStep
<1>1. Exists(f) /\ f \in Nodes /\ UNCHANGED <<clock, fresh, hidden, late, busy, walkVars>>
  BY DEF RemoveFile, Delete, AppendLine, Touch, seenVars, Nodes
<1>2. clock \in 1 .. MaxTime /\ MaxTime \in Nat /\ mtime \in [Nodes -> Gone .. clock] /\ late \subseteq Nodes
  BY WatchAssumption DEF WatchTypeOK
<1>3. f \notin Dirs /\ f # Root BY WatchAssumption
<1>4. In[f] \in Dirs /\ In[f] \in Nodes /\ Gone \in Gone .. clock /\ clock \in Gone .. clock
      /\ Gone # Absent /\ clock # Absent
  BY <1>1, <1>2, <1>3, WatchAssumption DEF Nodes, Gone, Absent
<1>5. /\ mtime' \in [Nodes -> Gone .. clock]
      /\ \A y \in Nodes \ {f, In[f]} : mtime'[y] = mtime[y]
      /\ mtime'[f] # Absent /\ (mtime'[In[f]] = mtime[In[f]] \/ mtime'[In[f]] = clock)
  <2>1. CASE RemoveFile(f)
    <3>1. mtime' = [mtime EXCEPT ![f] = Gone, ![In[f]] = clock]
      BY <1>3, <2>1 DEF RemoveFile, Delete, Changed
    <3>2. f # In[f] BY <1>3, <1>4
    <3> QED BY <1>1, <1>2, <1>4, <3>1, <3>2
  <2>2. CASE \E k \in LineKinds : AppendLine(f, k)
    <3>1. mtime' = [mtime EXCEPT ![f] = clock] BY <2>2 DEF AppendLine, Touch
    <3>2. f # In[f] BY <1>3, <1>4
    <3> QED BY <1>1, <1>2, <1>4, <3>1, <3>2
  <2> QED BY <2>1, <2>2
<1>6. \A y \in Nodes : mtime[y] # Absent => mtime'[y] # Absent BY <1>4, <1>5
<1>7. \A d \in Dirs : mtime'[d] = mtime[d] \/ mtime'[d] = clock BY <1>3, <1>4, <1>5 DEF Nodes
<1>8. ASSUME NEW y \in Nodes, Exists(y)', ~Exists(y)
      PROVE  /\ mtime[y] = Absent /\ (busy => y \in late')
             /\ y # Root => /\ Exists(In[y]) /\ mtime'[In[y]] = clock
                            /\ In[y] \in fresh => y \in hidden'
  <2>1. y = In[f] /\ mtime'[y] = clock /\ mtime[y] # clock
    BY <1>1, <1>5, <1>8 DEF Exists
  <2>2. Exists(In[f]) BY <1>1, <1>3 DEF TreeInv
  <2> QED BY <1>8, <2>1, <2>2
<1> QED BY <1>1, <1>2, <1>5, <1>6, <1>7, <1>8 DEF DiskStep

\* The variables of the sources and of the monitor.
TailTypes ==
  /\ source \in Sources
  /\ lines \in [Files -> Seq(LineKinds)]
  /\ cursor \in [Files -> Nat] /\ \A f \in Files : cursor[f] <= Len(lines[f])
  /\ counted \in [Files -> Nat]
  /\ parsed \subseteq Files

LEMMA TypesSay == WatchTypeOK /\ TailTypes => TypeOK
<1> SUFFICES ASSUME TailTypes, NEW f \in Files PROVE cursor[f] \in 0 .. Len(lines[f])
  BY DEF TypeOK, TailTypes
<1>1. Len(lines[f]) \in Nat BY LenProperties DEF TailTypes
<1> QED BY <1>1 DEF TailTypes

LEMMA InitTypes == Init => WatchTypeOK /\ TailTypes
<1> SUFFICES ASSUME Init PROVE WatchTypeOK /\ TailTypes OBVIOUS
<1>1. /\ clock = 1 /\ now = 0 /\ mtime = [x \in Nodes |-> 0] /\ cache = [d \in Dirs |-> NotCached]
      /\ fresh = {} /\ hidden = {} /\ late = {} /\ busy = FALSE /\ stack = << >> /\ listed = {}
  BY DEF Init, WatchInit, Absent
<1>2. 1 \in 1 .. MaxTime /\ 0 \in Gone .. 1 /\ 0 \in 0 .. 1 /\ 0 \in 0 .. MaxTime
  BY WatchAssumption DEF Gone
<1>3. NotCached \in Snapshot BY <1>2 DEF NotCached, Snapshot, Absent
<1>4. stack \in Seq(Frame) BY <1>1, EmptySeq
<1>5. WatchTypeOK BY <1>1, <1>2, <1>3, <1>4 DEF WatchTypeOK
<1>6. /\ source \in Sources /\ lines = [f \in Files |-> << >>] /\ cursor = [f \in Files |-> 0]
      /\ counted = [f \in Files |-> 0] /\ parsed = {}
  BY DEF Init
<1>7. << >> \in Seq(LineKinds) /\ Len(<< >>) = 0 BY EmptySeq
<1>8. TailTypes BY <1>6, <1>7 DEF TailTypes
<1> QED BY <1>5, <1>8

LEMMA DiskTypes == ASSUME WatchTypeOK, DiskStep PROVE WatchTypeOK'
BY DEF WatchTypeOK, DiskStep, walkVars

LEMMA TickTypes == ASSUME WatchTypeOK, Tick PROVE WatchTypeOK'
<1>1. /\ clock < MaxTime /\ clock' = clock + 1 /\ fresh' = {}
      /\ UNCHANGED <<mtime, hidden, late, busy, cache, now, stack, listed>>
  BY DEF Tick, walkVars
<1>2. clock \in 1 .. MaxTime /\ MaxTime \in Nat BY WatchAssumption DEF WatchTypeOK
<1>3. clock' \in 1 .. MaxTime /\ 0 .. clock \subseteq 0 .. clock' /\ Gone .. clock \subseteq Gone .. clock'
  BY <1>1, <1>2 DEF Gone
<1>4. now' \in 0 .. clock' /\ mtime' \in [Nodes -> Gone .. clock']
  BY <1>1, <1>3 DEF WatchTypeOK
<1> QED BY <1>1, <1>3, <1>4 DEF WatchTypeOK

LEMMA DiscoverTypes == ASSUME WatchTypeOK, Discover PROVE WatchTypeOK'
<1>1. /\ busy' = TRUE /\ now' = clock /\ late' = {} /\ WalkDir(Root, << >>, {}, clock)
      /\ UNCHANGED <<clock, mtime, fresh, hidden, cache>>
  BY DEF Discover
<1>2. << >> \in Seq(Frame) /\ {} \in SUBSET Entry /\ Root \in Dirs BY EmptySeq, WatchAssumption
<1>3. Called(<< >>, Root) /\ listed' \in SUBSET Entry BY <1>1, <1>2, WalkDirIs
<1>4. stack' \in Seq(Frame) BY <1>2, <1>3 DEF Called, Pushed
<1>5. clock \in 0 .. clock BY DEF WatchTypeOK
<1> QED BY <1>1, <1>3, <1>4, <1>5 DEF WatchTypeOK

LEMMA WalkTypes ==
  ASSUME WatchTypeOK, \/ ReadDir \/ Return
                      \/ \E x \in Nodes : Descend(x) \/ CollectFile(x)
  PROVE  WatchTypeOK'
<1>1. CASE ReadDir
  <2>1. stack' \in Seq(Frame) /\ Top \in Frame BY <1>1, ReadDirIs DEF Replaced, WatchTypeOK
  <2>2. /\ fresh' = fresh \cup {Top.dir} /\ hidden' \subseteq hidden
        /\ UNCHANGED <<clock, mtime, late, busy, cache, now, listed>>
    BY <1>1 DEF ReadDir
  <2>3. Top.dir \in Dirs BY <2>1 DEF Frame
  <2> QED BY <2>1, <2>2, <2>3 DEF WatchTypeOK
<1>2. CASE Return
  <2>1. /\ stack # << >> /\ stack' = Tail(stack)
        /\ cache' = (IF Top.step = "read" THEN [cache EXCEPT ![Top.dir] = SnapshotOf(Top)] ELSE cache)
        /\ UNCHANGED <<clock, mtime, seenVars, busy, now, listed>>
    BY <1>2 DEF Return
  <2>2. Top \in Frame /\ stack' \in Seq(Frame) BY <2>1, Stack DEF Top, Popped, WatchTypeOK
  <2>3. SnapshotOf(Top) \in Snapshot
    BY <2>2, WatchAssumption DEF SnapshotOf, Snapshot, Frame
  <2>4. cache' \in [Dirs -> Snapshot] BY <2>1, <2>2, <2>3 DEF WatchTypeOK, Frame
  <2> QED BY <2>1, <2>2, <2>4 DEF WatchTypeOK, seenVars
<1>3. ASSUME NEW x \in Nodes, Descend(x) PROVE WatchTypeOK'
  <2>1. listed' \in SUBSET Entry BY <1>3, DescendIs
  <2>2. stack' \in Seq(Frame) BY <1>3, DescendIs DEF Called, Pushed
  <2>3. UNCHANGED <<clock, mtime, seenVars, busy, cache, now>> BY <1>3 DEF Descend
  <2> QED BY <2>1, <2>2, <2>3 DEF WatchTypeOK, seenVars
<1>4. ASSUME NEW x \in Nodes, CollectFile(x) PROVE WatchTypeOK'
  <2>1. /\ Found(x) \in SUBSET Entry /\ Replaced(stack, stack', CollectFrame(x))
        /\ listed' = listed \cup {e \in Found(x) : PassesAge(e.mtime, now)}
    BY <1>4, CollectFileIs
  <2>2. stack' \in Seq(Frame) BY <2>1 DEF Replaced
  <2>3. listed' \in SUBSET Entry BY <2>1 DEF WatchTypeOK
  <2>4. UNCHANGED <<clock, mtime, seenVars, busy, cache, now>> BY <1>4 DEF CollectFile
  <2> QED BY <2>2, <2>3, <2>4 DEF WatchTypeOK, seenVars
<1> QED BY <1>1, <1>2, <1>3, <1>4

LEMMA EndTypes ==
  ASSUME WatchTypeOK, SourceDone \/ PollCancelled \/ Cancelled PROVE WatchTypeOK'
<1>1. /\ busy' = FALSE /\ late' = {} /\ now' = 0 /\ listed' = {}
      /\ stack' = stack \/ stack' = << >>
      /\ UNCHANGED <<clock, mtime, fresh, hidden, cache>>
  BY DEF SourceDone, PollCancelled, Cancelled, Abandon, Absent
<1>2. stack' \in Seq(Frame) BY <1>1, EmptySeq DEF WatchTypeOK
<1>3. 0 \in 0 .. clock BY DEF WatchTypeOK
<1> QED BY <1>1, <1>2, <1>3 DEF WatchTypeOK

LEMMA CountIsNat == ASSUME NEW b \in Seq(LineKinds) PROVE Messages(b) \in Nat
<1>1. Positions(b, {"msg"}) = {i \in DOMAIN b : b[i] = "msg"} BY DEF Positions
<1> QED BY <1>1, PositionsAreFinite, Zenon DEF Messages

LEMMA UnreadType ==
  ASSUME TailTypes, NEW f \in Files
  PROVE  /\ cursor[f] \in 0 .. Len(lines[f]) /\ Len(lines[f]) \in cursor[f] .. Len(lines[f])
         /\ lines[f] \in Seq(LineKinds) /\ Unread(f) \in Seq(LineKinds)
<1>1. lines[f] \in Seq(LineKinds) /\ Len(lines[f]) \in Nat /\ cursor[f] \in Nat
      /\ cursor[f] <= Len(lines[f])
  BY LenProperties DEF TailTypes
<1>2. cursor[f] \in 0 .. Len(lines[f]) /\ Len(lines[f]) \in cursor[f] .. Len(lines[f]) BY <1>1
<1>3. SubSeq(lines[f], cursor[f] + 1, Len(lines[f])) \in Seq(LineKinds)
  BY <1>1, <1>2, PartOfSeq, Zenon
<1> QED BY <1>1, <1>2, <1>3 DEF Unread

LEMMA UpdateTypes ==
  ASSUME TailTypes, NEW f \in Files, ParseUpdate(f) PROVE TailTypes'
<1>1. /\ counted' = [counted EXCEPT ![f] = @ + Messages(Unread(f))]
      /\ cursor' = [cursor EXCEPT ![f] = Len(lines[f])]
      /\ parsed' = parsed \cup {f} /\ UNCHANGED <<source, lines>>
  BY DEF ParseUpdate, NextOffset
<1>2. Messages(Unread(f)) \in Nat BY UnreadType, CountIsNat
<1>3. Len(lines[f]) \in Nat BY LenProperties DEF TailTypes
<1>4. counted' \in [Files -> Nat]
  <2> DEFINE n == Messages(Unread(f))
  <2>1. counted' = [counted EXCEPT ![f] = @ + n] /\ n \in Nat BY <1>1, <1>2
  <2> HIDE DEF n
  <2> QED BY <2>1 DEF TailTypes
<1>5. cursor' \in [Files -> Nat] /\ \A g \in Files : cursor'[g] <= Len(lines[g])
  BY <1>1, <1>3 DEF TailTypes
<1> QED BY <1>1, <1>4, <1>5 DEF TailTypes

LEMMA AppendTypes ==
  ASSUME TailTypes, NEW f \in Files, NEW k \in LineKinds, AppendLine(f, k) PROVE TailTypes'
<1>1. lines' = [lines EXCEPT ![f] = Append(@, k)] /\ UNCHANGED <<source, cursor, counted, parsed>>
  BY DEF AppendLine
<1>2. /\ Append(lines[f], k) \in Seq(LineKinds) /\ Len(Append(lines[f], k)) = Len(lines[f]) + 1
      /\ Len(lines[f]) \in Nat
  BY AppendProperties, LenProperties DEF TailTypes
<1>3. lines' \in [Files -> Seq(LineKinds)] BY <1>1, <1>2 DEF TailTypes
<1>4. ASSUME NEW g \in Files PROVE cursor[g] <= Len(lines'[g])
  <2>1. CASE g = f
    <3>1. lines'[g] = Append(lines[f], k) BY <1>1, <2>1 DEF TailTypes
    <3> QED BY <1>2, <2>1, <3>1 DEF TailTypes
  <2>2. CASE g # f
    <3>1. lines'[g] = lines[g] BY <1>1, <2>2 DEF TailTypes
    <3> QED BY <3>1 DEF TailTypes
  <2> QED BY <2>1, <2>2
<1> QED BY <1>1, <1>3, <1>4 DEF TailTypes

LEMMA OtherTypes ==
  ASSUME TailTypes, UNCHANGED <<source, lines, cursor, counted>>, parsed' \subseteq Files
  PROVE  TailTypes'
BY DEF TailTypes

-----------------------------------------------------------------------------
(* The steps, by what they do to the walk *)

\* A step of the walk, or one that does not touch it.
LEMMA StepsOfTheWalk ==
  ASSUME WatchTypeOK, TreeInv, Next
  PROVE  \/ DiskStep \/ Tick \/ Discover \/ ReadDir \/ Return
         \/ \E x \in Nodes : Descend(x) \/ CollectFile(x)
         \/ SourceDone \/ PollCancelled \/ Cancelled
         \/ UNCHANGED watchVars
<1>1. ASSUME NEW x \in Nodes, CreateNode(x) PROVE DiskStep BY <1>1, CreateIsDisk
<1>2. ASSUME NEW f \in Files, RemoveFile(f) \/ \E k \in LineKinds : AppendLine(f, k) PROVE DiskStep
  BY <1>2, TouchIsDisk
<1>3. ASSUME NEW f \in Files, ParseUpdate(f) \/ ParseNothing(f) \/ ParseFails(f)
      PROVE  UNCHANGED watchVars
  BY <1>3 DEF ParseUpdate, ParseNothing, ParseFails
<1> QED BY <1>1, <1>2, <1>3, Zenon DEF Next, Poller, Walk

\* And what it does to the variables of the sources.
LEMMA StepsOfTheSources ==
  ASSUME WatchTypeOK, TailTypes, Next
  PROVE  \/ \E f \in Files : ParseUpdate(f)
         \/ \E f \in Files, k \in LineKinds : AppendLine(f, k)
         \/ UNCHANGED <<source, lines, cursor, counted>> /\ parsed' \subseteq Files
<1>1. ASSUME NEW f \in Files, ParseNothing(f) \/ ParseFails(f)
      PROVE  UNCHANGED <<source, lines, cursor, counted>> /\ parsed' \subseteq Files
  BY <1>1 DEF ParseNothing, ParseFails, TailTypes
<1>2. ASSUME UNCHANGED tailVars
      PROVE  UNCHANGED <<source, lines, cursor, counted>> /\ parsed' \subseteq Files
  BY <1>2 DEF tailVars, TailTypes
<1>3. ASSUME SourceDone \/ PollCancelled
      PROVE  UNCHANGED <<source, lines, cursor, counted>> /\ parsed' \subseteq Files
  BY <1>3 DEF SourceDone, PollCancelled
<1>4. ASSUME NEW x, CreateNode(x) \/ RemoveFile(x)
      PROVE  UNCHANGED <<source, lines, cursor, counted>> /\ parsed' \subseteq Files
  BY <1>4 DEF CreateNode, RemoveFile, TailTypes
<1> QED BY <1>1, <1>2, <1>3, <1>4, Zenon DEF Next, Poller

LEMMA TypesNext ==
  ASSUME WatchTypeOK, TailTypes, TreeInv, [Next]_vars PROVE WatchTypeOK' /\ TailTypes'
<1>1. CASE Next
  <2>1. WatchTypeOK'
    <3>1. ASSUME UNCHANGED watchVars PROVE WatchTypeOK'
      BY <3>1 DEF WatchTypeOK, watchVars, seenVars, walkVars
    <3> QED BY <1>1, <3>1, StepsOfTheWalk, DiskTypes, TickTypes, DiscoverTypes, WalkTypes, EndTypes
  <2>2. TailTypes'
    BY <1>1, StepsOfTheSources, UpdateTypes, AppendTypes, OtherTypes
  <2> QED BY <2>1, <2>2
<1>2. CASE UNCHANGED vars
  BY <1>2 DEF vars, watchVars, seenVars, walkVars, tailVars, WatchTypeOK, TailTypes
<1> QED BY <1>1, <1>2

-----------------------------------------------------------------------------
(* The invariant of the walker is kept *)

LEMMA WalkInit == Init => WalkInv
<1> SUFFICES ASSUME Init PROVE WalkInv OBVIOUS
<1>1. /\ clock = 1 /\ mtime = [x \in Nodes |-> 0] /\ cache = [d \in Dirs |-> NotCached]
      /\ fresh = {} /\ hidden = {} /\ late = {} /\ busy = FALSE /\ stack = << >>
  BY DEF Init, WatchInit, Absent
<1>2. TreeInv BY <1>1 DEF TreeInv, Exists, Absent, Gone, Nodes
<1>3. ASSUME NEW d \in Dirs PROVE CacheOK(d)
  <2>1. cache[d].mtime = 0 /\ cache[d].subdirs = {} /\ mtime[d] = 0
    BY <1>1 DEF NotCached, Absent, Nodes
  <2>2. ~Exists(d) BY <2>1 DEF Exists, Absent
  <2> QED BY <1>1, <2>1, <2>2 DEF CacheOK
<1>4. StackInv
  <2>1. Len(stack) = 0 BY <1>1
  <2>2. 1 .. 0 = {} /\ 1 .. 0 - 1 = {} OBVIOUS
  <2> QED BY <1>1, <2>1, <2>2 DEF StackInv, Shape
<1>5. CoverInv BY <1>1 DEF CoverInv
<1> QED BY <1>2, <1>3, <1>4, <1>5 DEF WalkInv, CacheInv

\* The times of a directory and of what is remembered of it.
LEMMA DirTime ==
  ASSUME WatchTypeOK, NEW d \in Dirs, mtime[d] # Gone
  PROVE  /\ clock \in Nat /\ mtime[d] \in Nat /\ mtime[d] <= clock
         /\ cache[d].mtime \in Nat /\ now \in Nat
<1>1. clock \in 1 .. MaxTime /\ MaxTime \in Nat /\ mtime[d] \in Gone .. clock
      /\ cache[d] \in Snapshot /\ now \in 0 .. clock
  BY WatchAssumption DEF WatchTypeOK, Nodes
<1> QED BY <1>1 DEF Gone, Snapshot

LEMMA DiskTree == ASSUME WatchTypeOK, TreeInv, DiskStep PROVE TreeInv'
<1>1. hidden' \subseteq Nodes \ {Root} BY DEF TreeInv, DiskStep
<1>2. ASSUME NEW d \in Dirs
      PROVE  mtime'[d] # Gone /\ (Exists(d) => Exists(d)')
  <2>1. mtime[d] # Gone /\ clock \in Nat /\ clock # 0 BY DirTime DEF TreeInv, WatchTypeOK
  <2> QED BY <2>1 DEF DiskStep, Exists, Absent, Gone
<1>3. ASSUME NEW x \in Nodes, Exists(x)'
      PROVE  Root \in Path(x) /\ (x # Root => Exists(In[x])')
  <2>1. x # Root => In[x] \in Dirs /\ In[x] \in Nodes BY WatchAssumption DEF Nodes
  <2>2. Exists(x) \/ (x # Root => Exists(In[x])) BY <1>3 DEF DiskStep
  <2>3. CASE Exists(x) BY <1>2, <2>1, <2>3 DEF TreeInv
  <2>4. CASE ~Exists(x) /\ x # Root
    <3>1. Exists(In[x]) /\ Exists(In[x])' BY <1>2, <2>1, <2>2, <2>4
    <3>2. Root \in Path(In[x]) BY <2>1, <2>4, <3>1 DEF TreeInv
    <3> QED BY <2>4, <3>1, <3>2, PathOfChild
  <2>5. CASE x = Root BY <2>5, PathSelf
  <2> QED BY <2>3, <2>4, <2>5
<1> QED BY <1>1, <1>2, <1>3, Zenon DEF TreeInv

\* What has a note that is as old as its directory, and is not hidden, was there.
LEMMA DiskChild ==
  ASSUME WatchTypeOK, TreeInv, DiskStep, NEW d \in Dirs, NEW time \in Nat,
         time <= mtime[d], time = clock => d \in fresh, mtime'[d] = time,
         NEW x \in Nodes, In1(x, d), Exists(x)', x \notin hidden'
  PROVE  Exists(x) /\ x \notin hidden /\ mtime[d] = time
<1>1. clock \in Nat /\ mtime[d] \in Nat /\ mtime[d] <= clock BY DirTime DEF TreeInv
<1>2. mtime[d] = time BY <1>1 DEF DiskStep
<1>3. x \notin hidden BY DEF DiskStep
<1>4. x # Root /\ In[x] = d BY DEF In1
<1>5. ASSUME ~Exists(x) PROVE FALSE
  <2>1. mtime'[d] = clock /\ (d \in fresh => x \in hidden') BY <1>4, <1>5 DEF DiskStep
  <2> QED BY <2>1
<1> QED BY <1>2, <1>3, <1>5

LEMMA DiskCache == ASSUME WatchTypeOK, TreeInv, CacheInv, DiskStep PROVE CacheInv'
<1> SUFFICES ASSUME NEW d \in Dirs PROVE CacheOK(d)' BY DEF CacheInv
<1>1. CacheOK(d) BY DEF CacheInv
<1>2. cache' = cache /\ clock' = clock /\ fresh' = fresh BY DEF DiskStep, walkVars
<1>3. clock \in Nat /\ mtime[d] \in Nat /\ mtime[d] <= clock /\ cache[d].mtime \in Nat
  BY DirTime DEF TreeInv
<1>4. cache[d].mtime <= mtime'[d] BY <1>1, <1>3 DEF CacheOK, DiskStep
<1>5. \A x \in cache[d].subdirs : In1(x, d) /\ mtime'[x] # Absent
  BY <1>1 DEF CacheOK, DiskStep, In1
<1>6. ASSUME cache[d].mtime = mtime'[d], Exists(d)',
             NEW x \in Nodes, In1(x, d), Exists(x)', x \notin hidden'
      PROVE  Noted(x, cache[d].subdirs, cache[d].files)
  <2> DEFINE time == cache[d].mtime
  <2>1. time \in Nat /\ time <= mtime[d] /\ (time = clock => d \in fresh) /\ mtime'[d] = time
    BY <1>1, <1>3, <1>6 DEF CacheOK
  <2> HIDE DEF time
  <2>2. Exists(x) /\ x \notin hidden /\ mtime[d] = time BY <1>6, <2>1, DiskChild
  <2>3. time # 0
    <3>1. mtime'[d] # 0 BY <1>6 DEF Exists, Absent
    <3> QED BY <2>1, <3>1
  <2>4. Exists(d) BY <2>1, <2>2, <2>3 DEF Exists, Absent, Gone
  <2> QED BY <1>1, <1>6, <2>2, <2>4 DEF CacheOK, time
<1>7. cache[d].mtime = clock => d \in fresh BY <1>1 DEF CacheOK
<1>8. cache'[d].mtime <= mtime'[d] /\ (cache'[d].mtime = clock' => d \in fresh')
      /\ \A x \in cache'[d].subdirs : In1(x, d) /\ mtime'[x] # Absent
  BY <1>2, <1>4, <1>5, <1>7
<1>9. ASSUME cache'[d].mtime = mtime'[d], Exists(d)',
             NEW x \in Nodes, In1(x, d), Exists(x)', x \notin hidden'
      PROVE  Noted(x, cache'[d].subdirs, cache'[d].files)
  BY <1>2, <1>6, <1>9
<1> QED BY <1>8, <1>9 DEF CacheOK, In1, Noted

LEMMA DiskFrame ==
  ASSUME WatchTypeOK, TreeInv, DiskStep, busy, NEW F \in Frame, FrameOK(F) PROVE FrameOK(F)'
<1>1. /\ cache' = cache /\ clock' = clock /\ fresh' = fresh /\ now' = now /\ listed' = listed
  BY DEF DiskStep, walkVars
<1>2. F.dir \in Dirs /\ F.mtime \in Nat /\ F.mtime # 0 BY WatchAssumption DEF Frame
<1>3. clock \in Nat /\ mtime[F.dir] \in Nat /\ mtime[F.dir] <= clock BY <1>2, DirTime DEF TreeInv
<1>4. F.mtime <= mtime'[F.dir] BY <1>2, <1>3 DEF FrameOK, DiskStep
<1>5. \A x \in F.left \cup F.subdirs : In1(x, F.dir) /\ mtime'[x] # Absent
  BY DEF FrameOK, DiskStep, In1
<1>6. ASSUME F.step = "read", NEW x \in Nodes, In1(x, F.dir), Exists(x)', x \notin hidden',
             x \notin late' \/ mtime'[F.dir] = F.mtime
      PROVE  x \in F.left \/ Noted(x, F.subdirs, F.files)
  <2>1. F.mtime <= mtime[F.dir] /\ (F.mtime = clock => F.dir \in fresh) BY <1>6 DEF FrameOK
  <2>2. CASE x \notin late'
    <3>1. Exists(x) BY <1>6, <2>2 DEF DiskStep
    <3>2. x \notin hidden /\ x \notin late BY <1>6, <2>2 DEF DiskStep
    <3> QED BY <1>6, <3>1, <3>2 DEF FrameOK
  <2>3. CASE mtime'[F.dir] = F.mtime
    <3> DEFINE d == F.dir
               time == F.mtime
    <3>1. d \in Dirs /\ time \in Nat /\ time <= mtime[d] /\ (time = clock => d \in fresh)
          /\ mtime'[d] = time /\ In1(x, d)
      BY <1>2, <1>6, <2>1, <2>3
    <3> HIDE DEF d, time
    <3>2. Exists(x) /\ x \notin hidden /\ mtime[d] = time BY <1>6, <3>1, DiskChild
    <3> QED BY <1>6, <3>2 DEF FrameOK, d, time
  <2> QED BY <1>6, <2>2, <2>3
<1>7. /\ F.step = "stat" => F.left = {} /\ F.files = {} /\ cache'[F.dir].mtime < F.mtime
      /\ F.step = "hit" => F.left \subseteq Dirs
      /\ F.subdirs \subseteq Dirs
      /\ F.step = "read" => /\ F.mtime = clock' => F.dir \in fresh'
                            /\ \A e \in F.files : PassesAge(e.mtime, now') => e \in listed'
  BY <1>1 DEF FrameOK
<1> QED BY <1>4, <1>5, <1>6, <1>7 DEF FrameOK, In1, Noted

\* What has to be shown of the stack after a step.
LEMMA StackFrom ==
  ASSUME stack' \in Seq(Frame), stack' # << >> => busy', Shape(stack'),
         \A F \in Frame : (\E i \in 1 .. Len(stack') : stack'[i] = F) => FrameOK(F)'
  PROVE  StackInv'
<1>1. ASSUME NEW i \in 1 .. Len(stack') PROVE FrameOK(stack[i])'
  <2>1. PICK F \in Frame : F = stack'[i] BY ElementOfSeq
  <2>2. FrameOK(F)' BY <2>1
  <2> QED BY <2>1, <2>2 DEF FrameOK, In1, Noted
<1>2. Shape(stack)' BY DEF Shape, In1
<1> QED BY <1>1, <1>2, Zenon DEF StackInv

\* Calls of a stack that is left as it is.
LEMMA StackStays ==
  ASSUME WatchTypeOK, StackInv, UNCHANGED <<stack, busy>>,
         \A F \in Frame : busy /\ FrameOK(F) => FrameOK(F)'
  PROVE  StackInv'
<1>1. ASSUME NEW F \in Frame, NEW i \in 1 .. Len(stack'), stack'[i] = F PROVE FrameOK(F)'
  <2>1. FrameOK(F) BY <1>1 DEF StackInv
  <2>2. stack # << >>
    <3>1. Len(<< >>) = 0 /\ 1 .. 0 = {} OBVIOUS
    <3> QED BY <1>1, <3>1
  <2> QED BY <2>1, <2>2 DEF StackInv
<1>2. stack' \in Seq(Frame) /\ (stack' # << >> => busy') /\ Shape(stack')
  BY DEF WatchTypeOK, StackInv
<1> QED BY <1>1, <1>2, StackFrom

LEMMA DiskStack ==
  ASSUME WatchTypeOK, TreeInv, StackInv, DiskStep PROVE StackInv'
<1>1. \A F \in Frame : busy /\ FrameOK(F) => FrameOK(F)' BY DiskFrame
<1> QED BY <1>1, StackStays DEF DiskStep, walkVars

LEMMA DiskCover == ASSUME WatchTypeOK, CoverInv, DiskStep PROVE CoverInv'
<1>1. cache' = cache /\ now' = now /\ listed' = listed /\ stack' = stack /\ busy' = busy
  BY DEF DiskStep, walkVars
<1> SUFFICES ASSUME busy, NEW f \in Files, Exists(f)', Path(f) \cap (hidden' \cup late') = {}
             PROVE  Covered(f)'
  BY <1>1 DEF CoverInv
<1>2. f \in Nodes /\ f \in Path(f) BY PathSelf DEF Nodes
<1>3. Exists(f) BY <1>2 DEF DiskStep
<1>4. Path(f) \cap (hidden \cup late) = {} BY DEF DiskStep
<1>5. Covered(f) BY <1>3, <1>4 DEF CoverInv
<1> QED BY <1>1, <1>5 DEF Covered, Aged, Pending, In1

LEMMA TickKeeps ==
  ASSUME WatchTypeOK, WalkInv, Tick PROVE WalkInv'
<1>1. /\ clock' = clock + 1 /\ fresh' = {}
      /\ UNCHANGED <<mtime, hidden, late, busy, cache, now, stack, listed>>
  BY DEF Tick, walkVars
<1>2. TreeInv' BY <1>1 DEF WalkInv, TreeInv, Exists
<1>3. ASSUME NEW d \in Dirs PROVE CacheOK(d)'
  <2>1. CacheOK(d) BY DEF WalkInv, CacheInv
  <2>2. cache[d].mtime # clock'
    <3>1. clock \in Nat /\ mtime[d] \in Nat /\ mtime[d] <= clock /\ cache[d].mtime \in Nat
      BY DirTime DEF WalkInv, TreeInv
    <3> QED BY <1>1, <2>1, <3>1 DEF CacheOK
  <2>3. cache' = cache /\ mtime' = mtime /\ hidden' = hidden BY <1>1
  <2> QED BY <2>1, <2>2, <2>3 DEF CacheOK, Noted, In1, Exists
<1>4. ASSUME NEW F \in Frame, FrameOK(F) PROVE FrameOK(F)'
  <2>1. F.mtime # clock'
    <3>1. F.dir \in Dirs /\ F.mtime \in Nat BY WatchAssumption DEF Frame
    <3>2. clock \in Nat /\ mtime[F.dir] \in Nat /\ mtime[F.dir] <= clock
      BY <3>1, DirTime DEF WalkInv, TreeInv
    <3> QED BY <1>1, <1>4, <3>1, <3>2 DEF FrameOK
  <2> QED BY <1>1, <1>4, <2>1 DEF FrameOK, Noted, In1, Exists
<1>5. StackInv' BY <1>1, <1>4, StackStays DEF WalkInv
<1>6. CoverInv' BY <1>1 DEF WalkInv, CoverInv, Covered, Aged, Pending, In1, Exists
<1> QED BY <1>2, <1>3, <1>5, <1>6 DEF WalkInv, CacheInv

LEMMA DiskKeeps == ASSUME WatchTypeOK, WalkInv, DiskStep PROVE WalkInv'
BY DiskTree, DiskCache, DiskStack, DiskCover DEF WalkInv

-----------------------------------------------------------------------------
(* The shape of the stack *)

LEMMA ReplacedShape ==
  ASSUME NEW s \in Seq(Frame), s # << >>, NEW t, NEW F, Replaced(s, t, F), F.dir = s[1].dir
  PROVE  /\ Shape(s) => Shape(t)
         /\ \A i \in 1 .. Len(t) : t[i] = F \/ (i \in 2 .. Len(s) /\ t[i] = s[i])
<1>1. Len(s) \in Nat \ {0} BY Stack
<1>2. /\ Len(t) = Len(s) /\ t[1] = F
      /\ \A i \in 1 .. Len(s) : i = 1 \/ i \in 2 .. Len(s)
      /\ \A i \in 2 .. Len(s) : t[i] = s[i]
  BY <1>1 DEF Replaced
<1>3. \A i \in 1 .. Len(s) : t[i].dir = s[i].dir BY <1>2
<1>4. ASSUME Shape(s) PROVE Shape(t)
  <2>1. Len(s) \in 1 .. Len(s) BY <1>1
  <2>2. t[Len(t)].dir = Root BY <1>2, <1>3, <1>4, <2>1 DEF Shape
  <2>3. ASSUME NEW i \in 1 .. Len(t) - 1 PROVE In1(t[i].dir, t[i + 1].dir)
    <3>1. i \in 1 .. Len(s) - 1 /\ i \in 1 .. Len(s) /\ i + 1 \in 1 .. Len(s) BY <1>1, <1>2
    <3> QED BY <1>3, <1>4, <3>1 DEF Shape
  <2>4. \A i, j \in 1 .. Len(t) : t[i].dir = t[j].dir => i = j BY <1>2, <1>3, <1>4 DEF Shape
  <2> QED BY <2>2, <2>3, <2>4 DEF Shape
<1> QED BY <1>2, <1>4

LEMMA PushedShape ==
  ASSUME NEW s \in Seq(Frame), NEW t, NEW F, Pushed(s, t, F), Shape(s),
         IF s = << >> THEN F.dir = Root ELSE In1(F.dir, s[1].dir)
  PROVE  /\ Shape(t)
         /\ \A i \in 1 .. Len(t) : t[i] = F \/ \E j \in 1 .. Len(s) : t[i] = s[j]
<1>1. Len(s) \in Nat BY LenProperties
<1>2. Len(t) = Len(s) + 1 /\ t[1] = F /\ \A i \in 1 .. Len(s) : t[i + 1] = s[i] BY DEF Pushed
<1>3. ASSUME NEW i \in 1 .. Len(t), i # 1 PROVE i - 1 \in 1 .. Len(s) /\ t[i] = s[i - 1]
  <2>1. i - 1 \in 1 .. Len(s) /\ (i - 1) + 1 = i BY <1>1, <1>2, <1>3
  <2>2. t[(i - 1) + 1] = s[i - 1] BY <1>2, <2>1
  <2> QED BY <2>1, <2>2
<1>4. s # << >> => Len(s) # 0 BY EmptySeq, LenProperties
<1>5. s = << >> => Len(s) = 0 OBVIOUS
<1>6. t[Len(t)].dir = Root
  <2>1. CASE s = << >> BY <1>2, <1>5, <2>1
  <2>2. CASE s # << >>
    <3>1. Len(t) \in 1 .. Len(t) /\ Len(t) # 1 /\ Len(t) - 1 = Len(s) BY <1>1, <1>2, <1>4, <2>2
    <3>2. t[Len(t)] = s[Len(s)] BY <1>3, <3>1
    <3> QED BY <2>2, <3>2 DEF Shape
  <2> QED BY <2>1, <2>2
<1>7. ASSUME NEW i \in 1 .. Len(t) - 1 PROVE In1(t[i].dir, t[i + 1].dir)
  <2>1. i \in 1 .. Len(s) /\ t[i + 1] = s[i] BY <1>1, <1>2
  <2>2. CASE i = 1
    <3>1. s # << >> BY <1>1, <1>5, <2>1
    <3> QED BY <1>2, <2>1, <2>2, <3>1
  <2>3. CASE i # 1
    <3>1. i \in 1 .. Len(t) /\ i - 1 \in 1 .. Len(s) - 1 /\ (i - 1) + 1 = i BY <1>1, <1>2, <2>1, <2>3
    <3>2. t[i] = s[i - 1] BY <1>3, <2>3, <3>1
    <3>3. In1(s[i - 1].dir, s[(i - 1) + 1].dir) BY <3>1 DEF Shape
    <3> QED BY <2>1, <3>1, <3>2, <3>3
  <2> QED BY <2>2, <2>3
<1>8. ASSUME NEW j \in 1 .. Len(s) PROVE s[j].dir # F.dir
  <2>1. s # << >> BY <1>1, <1>5
  <2>2. F.dir # Root /\ In[F.dir] = s[1].dir BY <2>1 DEF In1
  <2>3. CASE j = Len(s) BY <2>1, <2>2, <2>3 DEF Shape
  <2>4. CASE j # Len(s)
    <3>1. j \in 1 .. Len(s) - 1 /\ j + 1 \in 1 .. Len(s) /\ 1 \in 1 .. Len(s) /\ j + 1 # 1
      BY <1>1, <2>4
    <3>2. In[s[j].dir] = s[j + 1].dir BY <3>1 DEF Shape, In1
    <3>3. s[1].dir # s[j + 1].dir BY <3>1 DEF Shape
    <3> QED BY <2>2, <3>2, <3>3
  <2> QED BY <2>3, <2>4
<1>9. ASSUME NEW i \in 1 .. Len(t), NEW j \in 1 .. Len(t), t[i].dir = t[j].dir PROVE i = j
  <2>1. CASE i = 1 /\ j # 1 BY <1>2, <1>3, <1>8, <1>9, <2>1
  <2>2. CASE i # 1 /\ j = 1 BY <1>2, <1>3, <1>8, <1>9, <2>2
  <2>3. CASE i # 1 /\ j # 1
    <3>1. i - 1 \in 1 .. Len(s) /\ j - 1 \in 1 .. Len(s) /\ s[i - 1].dir = s[j - 1].dir
      BY <1>3, <1>9, <2>3
    <3>2. i - 1 = j - 1 BY <3>1 DEF Shape
    <3> QED BY <3>2
  <2> QED BY <2>1, <2>2, <2>3
<1>10. Shape(t) BY <1>6, <1>7, <1>9 DEF Shape
<1> QED BY <1>2, <1>3, <1>10

LEMMA PoppedShape ==
  ASSUME NEW s \in Seq(Frame), s # << >>, Shape(s), NEW t, Popped(s, t)
  PROVE  /\ Shape(t)
         /\ \A i \in 1 .. Len(t) : i + 1 \in 2 .. Len(s) /\ t[i] = s[i + 1] /\ s[i + 1].dir # s[1].dir
<1>1. Len(s) \in Nat \ {0} BY Stack
<1>2. t \in Seq(Frame) /\ Len(t) = Len(s) - 1 /\ \A i \in 1 .. Len(s) - 1 : t[i] = s[i + 1]
  BY DEF Popped
<1>3. ASSUME NEW i \in 1 .. Len(t)
      PROVE  i + 1 \in 2 .. Len(s) /\ t[i] = s[i + 1] /\ s[i + 1].dir # s[1].dir
  <2>1. i + 1 \in 2 .. Len(s) /\ i + 1 \in 1 .. Len(s) /\ 1 \in 1 .. Len(s) /\ i + 1 # 1
    BY <1>1, <1>2
  <2> QED BY <1>2, <2>1 DEF Shape
<1>4. ASSUME t # << >> PROVE t[Len(t)].dir = Root
  <2>1. Len(t) \in Nat /\ Len(t) # 0 BY <1>2, <1>4, EmptySeq, LenProperties
  <2>2. Len(t) \in 1 .. Len(t) /\ Len(t) + 1 = Len(s) BY <1>1, <1>2, <2>1
  <2>3. t[Len(t)] = s[Len(t) + 1] BY <1>3, <2>2
  <2> QED BY <2>2, <2>3 DEF Shape
<1>5. ASSUME NEW i \in 1 .. Len(t) - 1 PROVE In1(t[i].dir, t[i + 1].dir)
  <2>1. i \in 1 .. Len(t) /\ i + 1 \in 1 .. Len(t) /\ i + 1 \in 1 .. Len(s) - 1 BY <1>1, <1>2
  <2>2. In1(s[i + 1].dir, s[(i + 1) + 1].dir) BY <2>1 DEF Shape
  <2> QED BY <1>3, <2>1, <2>2
<1>6. ASSUME NEW i \in 1 .. Len(t), NEW j \in 1 .. Len(t), t[i].dir = t[j].dir PROVE i = j
  <2>1. i + 1 \in 1 .. Len(s) /\ j + 1 \in 1 .. Len(s) /\ s[i + 1].dir = s[j + 1].dir
    BY <1>1, <1>2, <1>3, <1>6
  <2>2. i + 1 = j + 1 BY <2>1 DEF Shape
  <2> QED BY <2>2
<1> QED BY <1>3, <1>4, <1>5, <1>6 DEF Shape

-----------------------------------------------------------------------------
(* The steps of a walk *)

LEMMA PathExists ==
  ASSUME TreeInv, NEW x \in Nodes, Exists(x)
  PROVE  Root \in Path(x) /\ \A y \in Path(x) : y \in Nodes /\ Exists(y)
<1> DEFINE S == {y \in Nodes : Exists(y)}
<1>1. x \in S /\ S \subseteq Nodes OBVIOUS
<1>2. ASSUME NEW z \in S \ {Root} PROVE In[z] \in S
  <2>1. In[z] \in Nodes BY WatchAssumption DEF Nodes
  <2> QED BY <2>1 DEF TreeInv
<1>3. Path(x) \subseteq S
  <2> HIDE DEF S
  <2> QED BY <1>1, <1>2, PathLeast
<1> QED BY <1>3 DEF TreeInv

\* A call of walkDir begins in order.
LEMMA CallOK ==
  ASSUME WatchTypeOK, TreeInv, CacheInv, NEW d \in Dirs, Exists(d)
  PROVE  /\ Cached(d) => FrameOK(Call(d, "hit", CachedSubdirs(d)))
         /\ ~Cached(d) => FrameOK(Call(d, "stat", {}))
<1>1. CacheOK(d) BY DEF CacheInv
<1>2. mtime[d] \in Nat /\ cache[d].mtime \in Nat BY DirTime DEF TreeInv
<1>3. cache[d].subdirs \subseteq Dirs BY DEF WatchTypeOK, Snapshot
<1>4. ASSUME Cached(d) PROVE FrameOK(Call(d, "hit", CachedSubdirs(d)))
  <2> DEFINE C == Call(d, "hit", CachedSubdirs(d))
  <2>1. C.dir = d /\ C.mtime = mtime[d] /\ C.step = "hit" /\ C.left = cache[d].subdirs /\ C.subdirs = {}
    BY DEF Call, CachedSubdirs
  <2> HIDE DEF C
  <2>2. FrameOK(C) BY <1>1, <1>2, <1>3, <2>1 DEF FrameOK, CacheOK
  <2> QED BY <2>2 DEF C
<1>5. ASSUME ~Cached(d) PROVE FrameOK(Call(d, "stat", {}))
  <2> DEFINE C == Call(d, "stat", {})
  <2>1. C.dir = d /\ C.mtime = mtime[d] /\ C.step = "stat" /\ C.left = {} /\ C.files = {} /\ C.subdirs = {}
    BY DEF Call
  <2>2. cache[d].mtime < mtime[d] BY <1>1, <1>2, <1>5 DEF Cached, CacheOK
  <2> HIDE DEF C
  <2>3. FrameOK(C) BY <1>2, <2>1, <2>2 DEF FrameOK
  <2> QED BY <2>3 DEF C
<1> QED BY <1>4, <1>5

\* And comes to every file whose path leads through the directory.
LEMMA CallCovers ==
  ASSUME WatchTypeOK, TreeInv, CacheInv, NEW f \in Files, Exists(f), Path(f) \cap hidden = {},
         NEW d \in Dirs, d \in Path(f), NEW at
  PROVE  /\ Exists(d)
         /\ Cached(d) => \/ Pending(f, Call(d, "hit", CachedSubdirs(d)))
                         \/ \E e \in Listed(d, at) : e.path = f
                         \/ Aged(f, at)
         /\ ~Cached(d) => Pending(f, Call(d, "stat", {}))
<1>1. f \in Nodes /\ f # d BY WatchAssumption DEF Nodes
<1>2. PICK y \in Path(f) : y # Root /\ In[y] = d BY <1>1, PathDown
<1>3. y \in Nodes /\ Exists(y) /\ Exists(d) BY <1>1, PathExists
<1>4. In1(y, d) BY <1>2, <1>3 DEF In1
<1>5. ASSUME ~Cached(d) PROVE Pending(f, Call(d, "stat", {}))
  BY <1>2, <1>4 DEF Pending, Call
<1>6. ASSUME Cached(d)
      PROVE  \/ Pending(f, Call(d, "hit", CachedSubdirs(d)))
             \/ \E e \in Listed(d, at) : e.path = f
             \/ Aged(f, at)
  <2>1. Noted(y, cache[d].subdirs, cache[d].files)
    BY <1>2, <1>3, <1>4, <1>6 DEF CacheInv, CacheOK, Cached
  <2>2. CASE y \in cache[d].subdirs BY <1>2, <2>2 DEF Pending, Call, CachedSubdirs
  <2>3. CASE \E e \in cache[d].files : e.path = y
    <3>1. PICK e \in cache[d].files : e.path = y BY <2>3
    <3>2. e \in Entry BY DEF WatchTypeOK, Snapshot
    <3>3. y = f BY <1>2, <3>1, <3>2, PathOfFile, WatchAssumption DEF Entry
    <3>4. CASE PassesAge(e.mtime, at) BY <1>3, <1>6, <3>1, <3>3, <3>4 DEF Listed
    <3>5. CASE ~PassesAge(e.mtime, at) BY <1>2, <3>1, <3>3, <3>5 DEF Aged
    <3> QED BY <3>4, <3>5
  <2> QED BY <2>1, <2>2, <2>3 DEF Noted
<1> QED BY <1>3, <1>5, <1>6

LEMMA DiscoverKeeps ==
  ASSUME WatchTypeOK, WalkInv, Discover PROVE WalkInv'
<1>1. /\ busy' /\ now' = clock /\ late' = {} /\ WalkDir(Root, << >>, {}, clock)
      /\ UNCHANGED <<clock, mtime, fresh, hidden, cache>>
  BY DEF Discover
<1>2. << >> \in Seq(Frame) /\ {} \in SUBSET Entry /\ Root \in Dirs /\ Root \in Nodes
  BY EmptySeq, WatchAssumption DEF Nodes
<1>3. Called(<< >>, Root) /\ listed' = Listed(Root, clock)
  <2>1. Called(<< >>, Root) /\ listed' = {} \cup Listed(Root, clock)
    BY <1>1, <1>2, WalkDirIs, Zenon
  <2> QED BY <2>1
<1>4. TreeInv' /\ CacheInv'
  BY <1>1 DEF WalkInv, TreeInv, CacheInv, CacheOK, Exists, Noted, In1
<1>5. StackInv'
  <2>1. ASSUME NEW C \in Frame, FrameOK(C), C.step # "read" PROVE FrameOK(C)'
    BY <1>1, <2>1 DEF FrameOK, In1
  <2>2. ASSUME NEW C \in Frame, FrameOK(C), C.step # "read", C.dir = Root, Pushed(<< >>, stack', C)
        PROVE  StackInv'
    <3>1. Shape(<< >>)
      <4>1. Len(<< >>) = 0 /\ 1 .. 0 = {} /\ 1 .. 0 - 1 = {} OBVIOUS
      <4> QED BY <4>1 DEF Shape
    <3>2. Shape(stack') /\ \A i \in 1 .. Len(stack') : stack'[i] = C
      <4>1. Len(<< >>) = 0 /\ 1 .. 0 = {} OBVIOUS
      <4> QED BY <1>2, <2>2, <3>1, <4>1, PushedShape
    <3>3. stack' \in Seq(Frame) BY <2>2 DEF Pushed
    <3> QED BY <1>1, <2>1, <2>2, <3>2, <3>3, StackFrom
  <2>3. CASE ~Exists(Root)
    <3>1. stack' = << >> BY <1>3, <2>3 DEF Called
    <3>2. Shape(stack') /\ ~\E i \in 1 .. Len(stack') : TRUE
      <4>1. Len(<< >>) = 0 /\ 1 .. 0 = {} /\ 1 .. 0 - 1 = {} OBVIOUS
      <4> QED BY <3>1, <4>1 DEF Shape
    <3> QED BY <1>1, <1>2, <3>1, <3>2, StackFrom
  <2>4. CASE Exists(Root)
    <3>1. PICK step \in {"hit", "stat"}, left \in SUBSET Nodes :
            /\ Call(Root, step, left) \in Frame /\ FrameOK(Call(Root, step, left))
            /\ Pushed(<< >>, stack', Call(Root, step, left))
      <4>1. CachedSubdirs(Root) \in SUBSET Nodes
        BY <1>2 DEF CachedSubdirs, WatchTypeOK, Snapshot, Nodes
      <4>2. CASE Cached(Root)
        BY <1>2, <1>3, <2>4, <4>1, <4>2, CallType, CallOK DEF WalkInv, Called
      <4>3. CASE ~Cached(Root)
        BY <1>2, <1>3, <2>4, <4>3, CallType, CallOK DEF WalkInv, Called
      <4> QED BY <4>2, <4>3
    <3>2. PICK C \in Frame : C = Call(Root, step, left) BY <3>1
    <3>3. C.step # "read" /\ C.dir = Root BY <3>2 DEF Call
    <3> QED BY <2>2, <3>1, <3>2, <3>3
  <2> QED BY <2>3, <2>4
<1>6. CoverInv'
  <2> SUFFICES ASSUME NEW f \in Files, Exists(f), Path(f) \cap hidden = {} PROVE Covered(f)'
    BY <1>1 DEF CoverInv, Exists
  <2>1. f \in Nodes /\ Root \in Path(f) BY PathExists DEF WalkInv, Nodes
  <2>2. /\ Exists(Root)
        /\ Cached(Root) => \/ Pending(f, Call(Root, "hit", CachedSubdirs(Root)))
                           \/ \E e \in Listed(Root, clock) : e.path = f
                           \/ Aged(f, clock)
        /\ ~Cached(Root) => Pending(f, Call(Root, "stat", {}))
    BY <1>2, <2>1, CallCovers DEF WalkInv
  <2>3. ASSUME NEW C, Pushed(<< >>, stack', C), Pending(f, C) PROVE Covered(f)'
    <3>1. Len(stack') = 1 /\ stack'[1] = C /\ 1 \in 1 .. 1 BY <2>3 DEF Pushed
    <3> QED BY <2>3, <3>1 DEF Covered, Pending, In1
  <2>4. ASSUME Aged(f, clock) PROVE Covered(f)'
    <3>1. Aged(f, now)' BY <1>1, <2>4 DEF Aged, PassesAge
    <3> QED BY <3>1 DEF Covered
  <2>5. ASSUME \E e \in listed' : e.path = f PROVE Covered(f)' BY <2>5 DEF Covered
  <2> QED BY <1>3, <2>2, <2>3, <2>4, <2>5 DEF Called
<1> QED BY <1>4, <1>5, <1>6 DEF WalkInv

\* A call that is further out is in order still, when nothing it depends on changes.
LEMMA OuterFrame ==
  ASSUME NEW F \in Frame, FrameOK(F),
         UNCHANGED <<clock, mtime, late, now>>, fresh \subseteq fresh', listed \subseteq listed',
         cache'[F.dir] = cache[F.dir],
         \A x \in Nodes : In1(x, F.dir) /\ x \in hidden => x \in hidden'
  PROVE  FrameOK(F)'
<1>1. F.dir \in Dirs BY DEF Frame
<1> QED BY <1>1 DEF FrameOK, Exists, In1, Noted

LEMMA ReadDirKeeps ==
  ASSUME WatchTypeOK, WalkInv, ReadDir PROVE WalkInv'
<1>1. /\ Top.step = "stat" /\ fresh' = fresh \cup {Top.dir}
      /\ hidden' = {x \in hidden : In[x] # Top.dir}
      /\ UNCHANGED <<clock, mtime, late, busy, cache, now, listed>>
  BY DEF ReadDir
<1>2. /\ stack # << >> /\ Top = stack[1] /\ Top \in Frame /\ stack \in Seq(Frame)
      /\ ReadFrame \in Frame /\ Replaced(stack, stack', ReadFrame)
  BY ReadDirIs DEF WatchTypeOK
<1>3. Len(stack) \in Nat \ {0} BY <1>2, Stack
<1>4. FrameOK(Top) BY <1>2, <1>3 DEF WalkInv, StackInv
<1>5. /\ ReadFrame.dir = Top.dir /\ ReadFrame.mtime = Top.mtime /\ ReadFrame.step = "read"
      /\ ReadFrame.left = {x \in Nodes \ {Root} : In[x] = Top.dir /\ Exists(x)}
      /\ ReadFrame.files = Top.files /\ ReadFrame.subdirs = Top.subdirs
  BY <1>2 DEF ReadFrame, Frame
<1>6. Top.dir \in Dirs /\ Top.mtime \in Nat /\ Top.mtime <= mtime[Top.dir]
      /\ cache[Top.dir].mtime < Top.mtime /\ Top.files = {}
  BY <1>1, <1>2, <1>4, WatchAssumption DEF Frame, FrameOK
<1>7. TreeInv' BY <1>1 DEF WalkInv, TreeInv, Exists
<1>8. ASSUME NEW d \in Dirs PROVE CacheOK(d)'
  <2>1. CacheOK(d) BY DEF WalkInv, CacheInv
  <2>2. CASE d = Top.dir
    <3>1. mtime[d] \in Nat /\ cache[d].mtime \in Nat BY DirTime DEF WalkInv, TreeInv
    <3>2. cache[d].mtime # mtime[d] BY <1>6, <2>2, <3>1
    <3> QED BY <1>1, <2>1, <3>2 DEF CacheOK, In1
  <2>3. CASE d # Top.dir
    <3>1. \A x \in Nodes : In1(x, d) /\ x \notin hidden' => x \notin hidden BY <1>1, <2>3 DEF In1
    <3> QED BY <1>1, <2>1, <3>1 DEF CacheOK, In1, Noted, Exists
  <2> QED BY <2>2, <2>3
<1>9. StackInv'
  <2>1. PICK R \in Frame : R = ReadFrame BY <1>2
  <2>2. FrameOK(R)'
    <3>1. ASSUME NEW x \in R.left \cup R.subdirs PROVE In1(x, R.dir) /\ mtime[x] # Absent
      BY <1>4, <1>5, <2>1 DEF FrameOK, In1, Exists
    <3>2. R.files = {} /\ R.dir = Top.dir /\ R.mtime = Top.mtime /\ R.step = "read" /\ R.subdirs \subseteq Dirs
      BY <1>4, <1>5, <1>6, <2>1 DEF FrameOK
    <3>3. \A x \in Nodes : In1(x, R.dir) /\ Exists(x) => x \in R.left
      BY <1>5, <2>1 DEF In1
    <3> QED BY <1>1, <1>6, <3>1, <3>2, <3>3 DEF FrameOK, In1, Exists
  <2>3. /\ Shape(stack')
        /\ \A i \in 1 .. Len(stack') : stack'[i] = R \/ (i \in 2 .. Len(stack) /\ stack'[i] = stack[i])
    BY <1>2, <1>5, <2>1, ReplacedShape DEF WalkInv, StackInv
  <2>4. ASSUME NEW F \in Frame, NEW i \in 1 .. Len(stack'), stack'[i] = F PROVE FrameOK(F)'
    <3>1. CASE F = R BY <2>2, <3>1
    <3>2. CASE i \in 2 .. Len(stack) /\ stack'[i] = stack[i]
      <4>1. i \in 1 .. Len(stack) /\ 1 \in 1 .. Len(stack) /\ i # 1 BY <1>3, <3>2
      <4>2. FrameOK(F) /\ F.dir # Top.dir
        BY <1>2, <2>4, <3>2, <4>1 DEF WalkInv, StackInv, Shape
      <4>3. \A x \in Nodes : In1(x, F.dir) /\ x \in hidden => x \in hidden' BY <1>1, <4>2 DEF In1
      <4> QED BY <1>1, <4>2, <4>3, OuterFrame
    <3> QED BY <2>3, <2>4, <3>1, <3>2
  <2>5. stack' \in Seq(Frame) /\ busy' BY <1>1, <1>2 DEF Replaced, WalkInv, StackInv
  <2> QED BY <2>3, <2>4, <2>5, StackFrom
<1>10. CoverInv'
  <2> SUFFICES ASSUME busy, NEW f \in Files, Exists(f), Path(f) \cap (hidden' \cup late) = {}
               PROVE  Covered(f)'
    BY <1>1 DEF CoverInv, Exists
  <2>1. Len(stack') = Len(stack) /\ stack'[1] = ReadFrame /\ \A i \in 2 .. Len(stack) : stack'[i] = stack[i]
    BY <1>2 DEF Replaced
  <2>2. ASSUME NEW y \in Path(f), In1(y, Top.dir) PROVE Covered(f)'
    <3>1. y \in ReadFrame.left BY <1>5, <2>2, PathExists DEF WalkInv, In1, Nodes
    <3>2. 1 \in 1 .. Len(stack') /\ y \in stack'[1].left BY <1>3, <2>1, <3>1
    <3> QED BY <3>2 DEF Covered, Pending
  <2>3. CASE Path(f) \cap hidden # {}
    <3>1. PICK y \in Path(f) : y \in hidden BY <2>3
    <3>2. y \in Nodes \ {Root} BY <3>1 DEF WalkInv, TreeInv
    <3>3. In[y] = Top.dir BY <1>1, <3>1
    <3> QED BY <2>2, <3>2, <3>3 DEF In1
  <2>4. CASE Path(f) \cap hidden = {}
    <3>1. Covered(f) BY <2>4 DEF WalkInv, CoverInv
    <3>2. CASE (\E e \in listed : e.path = f) \/ Aged(f, now)
      BY <1>1, <3>2 DEF Covered, Aged
    <3>3. ASSUME NEW i \in 1 .. Len(stack), Pending(f, stack[i]) PROVE Covered(f)'
      <4>1. CASE i = 1
        <5>1. Top.left = {} BY <1>1, <1>4 DEF FrameOK
        <5>2. \E y \in Path(f) : In1(y, Top.dir) BY <1>1, <1>2, <3>3, <4>1, <5>1 DEF Pending
        <5> QED BY <2>2, <5>2
      <4>2. CASE i # 1
        <5>1. i \in 1 .. Len(stack') /\ stack'[i] = stack[i] BY <1>3, <2>1, <4>2
        <5> QED BY <3>3, <5>1 DEF Covered, Pending, In1
      <4> QED BY <4>1, <4>2
    <3> QED BY <3>1, <3>2, <3>3 DEF Covered
  <2> QED BY <2>3, <2>4
<1> QED BY <1>7, <1>8, <1>9, <1>10 DEF WalkInv, CacheInv

LEMMA DescendKeeps ==
  ASSUME WatchTypeOK, WalkInv, NEW d, Descend(d) PROVE WalkInv'
<1>1. UNCHANGED <<clock, mtime, fresh, hidden, late, busy, cache, now>>
  BY DEF Descend, seenVars
<1>2. /\ stack # << >> /\ Top = stack[1] /\ Top \in Frame /\ d \in Dirs /\ d \in Top.left
      /\ Caller(d) \in Frame /\ stack \in Seq(Frame)
      /\ listed' = listed \cup Listed(d, now)
  BY DescendIs DEF WatchTypeOK
<1>3. PICK c \in Seq(Frame) : Replaced(stack, c, Caller(d)) /\ Called(c, d) BY DescendIs
<1>4. Len(stack) \in Nat \ {0} BY <1>2, Stack
<1>5. FrameOK(Top) BY <1>2, <1>4 DEF WalkInv, StackInv
<1>6. In1(d, Top.dir) /\ mtime[d] # Absent /\ Exists(d) /\ Top.step # "stat"
  BY <1>2, <1>5 DEF FrameOK, WalkInv, TreeInv, Exists
<1>7. /\ Caller(d).dir = Top.dir /\ Caller(d).mtime = Top.mtime /\ Caller(d).step = Top.step
      /\ Caller(d).left = Top.left \ {d} /\ Caller(d).files = Top.files
      /\ Caller(d).subdirs = IF Top.step = "read" THEN Top.subdirs \cup {d} ELSE Top.subdirs
  BY <1>2 DEF Caller, Frame
<1>8. PICK step \in {"hit", "stat"}, left \in SUBSET Nodes :
        /\ Call(d, step, left) \in Frame /\ FrameOK(Call(d, step, left))
        /\ Pushed(c, stack', Call(d, step, left))
        /\ Cached(d) => step = "hit" /\ left = CachedSubdirs(d)
        /\ ~Cached(d) => step = "stat" /\ left = {}
  <2>1. CachedSubdirs(d) \in SUBSET Nodes
    BY <1>2 DEF CachedSubdirs, WatchTypeOK, Snapshot, Nodes
  <2>2. CASE Cached(d)
    BY <1>2, <1>3, <1>6, <2>1, <2>2, CallType, CallOK DEF WalkInv, Called
  <2>3. CASE ~Cached(d)
    BY <1>2, <1>3, <1>6, <2>3, CallType, CallOK DEF WalkInv, Called
  <2> QED BY <2>2, <2>3
<1>9. PICK C \in Frame : C = Call(d, step, left) BY <1>8
<1>10. PICK K \in Frame : K = Caller(d) BY <1>2
<1>11. FrameOK(C) /\ Pushed(c, stack', C) /\ C.dir = d BY <1>8, <1>9 DEF Call
<1>12. FrameOK(K)
  <2>1. /\ K.dir = Top.dir /\ K.mtime = Top.mtime /\ K.step = Top.step /\ K.left = Top.left \ {d}
        /\ K.files = Top.files
        /\ K.subdirs = IF Top.step = "read" THEN Top.subdirs \cup {d} ELSE Top.subdirs
    BY <1>7, <1>10
  <2>2. \A x \in K.left \cup K.subdirs : In1(x, K.dir) /\ mtime[x] # Absent
    BY <1>5, <1>6, <2>1 DEF FrameOK
  <2>3. K.subdirs \subseteq Dirs /\ (K.step = "hit" => K.left \subseteq Dirs)
    BY <1>2, <1>5, <2>1 DEF FrameOK
  <2>4. ASSUME K.step = "read", NEW x \in Nodes, In1(x, K.dir), Exists(x), x \notin hidden,
               x \notin late \/ mtime[K.dir] = K.mtime
        PROVE  x \in K.left \/ Noted(x, K.subdirs, K.files)
    <3>1. x \in Top.left \/ Noted(x, Top.subdirs, Top.files)
      BY <1>5, <2>1, <2>4 DEF FrameOK
    <3> QED BY <2>1, <2>4, <3>1 DEF Noted
  <2> QED BY <1>5, <1>6, <2>1, <2>2, <2>3, <2>4 DEF FrameOK
<1>13. TreeInv' /\ CacheInv'
  BY <1>1 DEF WalkInv, TreeInv, CacheInv, CacheOK, Exists, Noted, In1
<1>14. listed \subseteq listed' BY <1>2
<1>15. /\ Len(c) = Len(stack) /\ c[1] = K /\ \A i \in 2 .. Len(stack) : c[i] = stack[i]
       /\ Len(stack') = Len(c) + 1 /\ stack'[1] = C /\ \A i \in 1 .. Len(c) : stack'[i + 1] = c[i]
  BY <1>3, <1>10, <1>11 DEF Replaced, Pushed
<1>16. StackInv'
  <2>1. ASSUME NEW F \in Frame, FrameOK(F) PROVE FrameOK(F)'
    BY <1>1, <1>14, <2>1, OuterFrame
  <2>2. Shape(c) /\ \A i \in 1 .. Len(c) : c[i] = K \/ (i \in 2 .. Len(stack) /\ c[i] = stack[i])
    BY <1>2, <1>3, <1>7, <1>10, ReplacedShape DEF WalkInv, StackInv
  <2>3. /\ Shape(stack')
        /\ \A i \in 1 .. Len(stack') : stack'[i] = C \/ \E j \in 1 .. Len(c) : stack'[i] = c[j]
    <3>1. c # << >> /\ In1(C.dir, c[1].dir) BY <1>3, <1>6, <1>7, <1>10, <1>11, <1>15 DEF Replaced
    <3> QED BY <1>11, <2>2, <3>1, PushedShape
  <2>4. ASSUME NEW F \in Frame, NEW i \in 1 .. Len(stack'), stack'[i] = F PROVE FrameOK(F)
    <3>1. CASE F = C \/ F = K BY <1>11, <1>12, <3>1
    <3>2. ASSUME NEW j \in 2 .. Len(stack), F = stack[j] PROVE FrameOK(F)
      BY <1>4, <3>2 DEF WalkInv, StackInv
    <3> QED BY <2>2, <2>3, <2>4, <3>1, <3>2
  <2>5. stack' \in Seq(Frame) /\ busy'
    BY <1>1, <1>2, <1>11 DEF Pushed, WalkInv, StackInv
  <2> QED BY <2>1, <2>3, <2>4, <2>5, StackFrom
<1>17. CoverInv'
  <2> SUFFICES ASSUME busy, NEW f \in Files, Exists(f), Path(f) \cap (hidden \cup late) = {}
               PROVE  Covered(f)'
    BY <1>1 DEF CoverInv, Exists
  <2>1. Covered(f) BY DEF WalkInv, CoverInv
  <2>2. CASE (\E e \in listed : e.path = f) \/ Aged(f, now)
    BY <1>1, <1>14, <2>2 DEF Covered, Aged
  <2>3. ASSUME NEW i \in 1 .. Len(stack'), Pending(f, stack'[i]) PROVE Covered(f)'
    BY <2>3 DEF Covered, Pending, In1
  <2>4. ASSUME d \in Path(f) PROVE Covered(f)'
    <3>1. /\ Cached(d) => \/ Pending(f, Call(d, "hit", CachedSubdirs(d)))
                          \/ \E e \in Listed(d, now) : e.path = f
                          \/ Aged(f, now)
          /\ ~Cached(d) => Pending(f, Call(d, "stat", {}))
      <4>1. Path(f) \cap hidden = {} OBVIOUS
      <4> QED BY <1>2, <2>4, <4>1, CallCovers DEF WalkInv
    <3>2. Pending(f, C) \/ (\E e \in Listed(d, now) : e.path = f) \/ Aged(f, now)
      BY <1>8, <1>9, <3>1
    <3>3. CASE Pending(f, C)
      <4>1. 1 \in 1 .. Len(stack') BY <1>4, <1>15
      <4> QED BY <1>15, <2>3, <3>3, <4>1
    <3>4. CASE \E e \in Listed(d, now) : e.path = f BY <1>2, <3>4 DEF Covered
    <3> QED BY <2>2, <3>2, <3>3, <3>4
  <2>5. ASSUME NEW i \in 1 .. Len(stack), Pending(f, stack[i]) PROVE Covered(f)'
    <3>1. i \in 1 .. Len(c) /\ i + 1 \in 1 .. Len(stack') BY <1>4, <1>15
    <3>2. stack'[i + 1] = c[i] BY <1>15, <3>1
    <3>3. CASE i = 1
      <4>1. Pending(f, Top) BY <1>2, <2>5, <3>3
      <4>2. d \in Path(f) \/ Pending(f, K) BY <1>6, <1>7, <1>10, <4>1 DEF Pending
      <4>3. stack'[i + 1] = K BY <1>15, <3>2, <3>3
      <4> QED BY <2>3, <2>4, <3>1, <4>2, <4>3
    <3>4. CASE i # 1
      <4>1. i \in 2 .. Len(stack) BY <1>4, <3>4
      <4>2. c[i] = stack[i] BY <1>15, <4>1
      <4> QED BY <2>3, <2>5, <3>1, <3>2, <4>2
    <3> QED BY <3>3, <3>4
  <2> QED BY <2>1, <2>2, <2>5 DEF Covered
<1> QED BY <1>13, <1>16, <1>17 DEF WalkInv

LEMMA CollectKeeps ==
  ASSUME WatchTypeOK, WalkInv, NEW f, CollectFile(f) PROVE WalkInv'
<1>1. UNCHANGED <<clock, mtime, fresh, hidden, late, busy, cache, now>>
  BY DEF CollectFile, seenVars
<1>2. /\ stack # << >> /\ Top = stack[1] /\ Top \in Frame /\ f \in Files /\ f \in Top.left
      /\ CollectFrame(f) \in Frame /\ stack \in Seq(Frame)
      /\ Replaced(stack, stack', CollectFrame(f))
      /\ listed' = listed \cup {e \in Found(f) : PassesAge(e.mtime, now)}
  BY CollectFileIs DEF WatchTypeOK
<1>3. Len(stack) \in Nat \ {0} BY <1>2, Stack
<1>4. FrameOK(Top) BY <1>2, <1>3 DEF WalkInv, StackInv
<1>5. In1(f, Top.dir) /\ Top.step = "read"
  <2>1. Top.step \in {"hit", "stat", "read"} BY <1>2 DEF Frame
  <2> QED BY <1>2, <1>4, <2>1, WatchAssumption DEF FrameOK
<1>6. /\ CollectFrame(f).dir = Top.dir /\ CollectFrame(f).mtime = Top.mtime
      /\ CollectFrame(f).step = "read" /\ CollectFrame(f).left = Top.left \ {f}
      /\ CollectFrame(f).files = Top.files \cup Found(f) /\ CollectFrame(f).subdirs = Top.subdirs
  BY <1>2, <1>5 DEF CollectFrame, Frame
<1>7. PICK K \in Frame : K = CollectFrame(f) BY <1>2
<1>8. Exists(f) => \E e \in K.files : e.path = f
  <2>1. Exists(f) => [path |-> f, mtime |-> mtime[f]] \in Found(f) BY DEF Found
  <2> QED BY <1>6, <1>7, <2>1
<1>9. TreeInv' /\ CacheInv'
  BY <1>1 DEF WalkInv, TreeInv, CacheInv, CacheOK, Exists, Noted, In1
<1>10. listed \subseteq listed' BY <1>2
<1>11. FrameOK(K)'
  <2>1. /\ K.dir = Top.dir /\ K.mtime = Top.mtime /\ K.step = "read" /\ K.left = Top.left \ {f}
        /\ K.files = Top.files \cup Found(f) /\ K.subdirs = Top.subdirs
    BY <1>6, <1>7
  <2>2. ASSUME NEW x \in Nodes, In1(x, K.dir), Exists(x), x \notin hidden,
               x \notin late \/ mtime[K.dir] = K.mtime
        PROVE  x \in K.left \/ Noted(x, K.subdirs, K.files)
    <3>1. x \in Top.left \/ Noted(x, Top.subdirs, Top.files)
      BY <1>4, <1>5, <2>1, <2>2 DEF FrameOK
    <3> QED BY <1>8, <2>1, <2>2, <3>1 DEF Noted
  <2>3. ASSUME NEW e \in K.files, PassesAge(e.mtime, now) PROVE e \in listed'
    BY <1>2, <1>4, <1>5, <2>1, <2>3 DEF FrameOK
  <2>4. (\A x \in K.left \cup K.subdirs : In1(x, K.dir) /\ mtime[x] # Absent) /\ K.subdirs \subseteq Dirs
        /\ K.mtime <= mtime[K.dir] /\ (K.mtime = clock => K.dir \in fresh)
    BY <1>4, <1>5, <2>1 DEF FrameOK
  <2> QED BY <1>1, <2>1, <2>2, <2>3, <2>4 DEF FrameOK, In1, Exists, Noted
<1>12. /\ Len(stack') = Len(stack) /\ stack'[1] = K
       /\ \A i \in 2 .. Len(stack) : stack'[i] = stack[i]
  BY <1>2, <1>7 DEF Replaced
<1>13. StackInv'
  <2>1. /\ Shape(stack')
        /\ \A i \in 1 .. Len(stack') : stack'[i] = K \/ (i \in 2 .. Len(stack) /\ stack'[i] = stack[i])
    BY <1>2, <1>6, <1>7, ReplacedShape DEF WalkInv, StackInv
  <2>2. ASSUME NEW F \in Frame, NEW i \in 1 .. Len(stack'), stack'[i] = F PROVE FrameOK(F)'
    <3>1. CASE F = K BY <1>11, <3>1
    <3>2. CASE i \in 2 .. Len(stack) /\ stack'[i] = stack[i]
      <4>1. i \in 1 .. Len(stack) BY <1>3, <3>2
      <4>2. FrameOK(F) BY <2>2, <3>2, <4>1 DEF WalkInv, StackInv
      <4> QED BY <1>1, <1>10, <4>2, OuterFrame
    <3> QED BY <2>1, <2>2, <3>1, <3>2
  <2>3. stack' \in Seq(Frame) /\ busy' BY <1>1, <1>2 DEF Replaced, WalkInv, StackInv
  <2> QED BY <2>1, <2>2, <2>3, StackFrom
<1>14. CoverInv'
  <2> SUFFICES ASSUME busy, NEW g \in Files, Exists(g), Path(g) \cap (hidden \cup late) = {}
               PROVE  Covered(g)'
    BY <1>1 DEF CoverInv, Exists
  <2>1. Covered(g) BY DEF WalkInv, CoverInv
  <2>2. CASE (\E e \in listed : e.path = g) \/ Aged(g, now)
    BY <1>1, <1>10, <2>2 DEF Covered, Aged
  <2>3. ASSUME NEW i \in 1 .. Len(stack), Pending(g, stack[i]) PROVE Covered(g)'
    <3>1. i \in 1 .. Len(stack') BY <1>12
    <3>2. CASE i = 1
      <4>1. Pending(g, Top) BY <1>2, <2>3, <3>2
      <4>2. CASE g = f
        <5>1. K.step = "read" /\ K.dir = In[g] /\ \E e \in K.files : e.path = g
          BY <1>5, <1>6, <1>7, <1>8, <4>2 DEF In1
        <5> QED BY <1>12, <3>1, <3>2, <5>1 DEF Covered, Pending
      <4>3. CASE g # f
        <5>1. f \notin Path(g) BY <1>2, <4>3, PathOfFile, WatchAssumption
        <5>2. Pending(g, K) BY <1>5, <1>6, <1>7, <4>1, <5>1 DEF Pending
        <5> QED BY <1>12, <3>1, <3>2, <5>2 DEF Covered, Pending, In1
      <4> QED BY <4>2, <4>3
    <3>3. CASE i # 1
      <4>1. stack'[i] = stack[i] BY <1>3, <1>12, <3>3
      <4> QED BY <2>3, <3>1, <4>1 DEF Covered, Pending, In1
    <3> QED BY <3>2, <3>3
  <2> QED BY <2>1, <2>2, <2>3 DEF Covered
<1> QED BY <1>9, <1>13, <1>14 DEF WalkInv

LEMMA ReturnKeeps ==
  ASSUME WatchTypeOK, WalkInv, Return PROVE WalkInv'
<1>1. /\ stack # << >> /\ Top.step # "stat" /\ Top.left = {} /\ stack' = Tail(stack)
      /\ cache' = (IF Top.step = "read" THEN [cache EXCEPT ![Top.dir] = SnapshotOf(Top)] ELSE cache)
      /\ UNCHANGED <<clock, mtime, fresh, hidden, late, busy, now, listed>>
  BY DEF Return, seenVars
<1>2. /\ Top = stack[1] /\ Top \in Frame /\ stack \in Seq(Frame) /\ Len(stack) \in Nat \ {0}
      /\ Popped(stack, stack')
  BY <1>1, Stack DEF WatchTypeOK, Top
<1>3. FrameOK(Top) /\ Top.dir \in Dirs BY <1>2 DEF WalkInv, StackInv, Frame
<1>4. \A d \in Dirs : cache'[d] = IF Top.step = "read" /\ d = Top.dir THEN SnapshotOf(Top) ELSE cache[d]
  BY <1>1, <1>3 DEF WatchTypeOK
<1>5. SnapshotOf(Top).mtime = Top.mtime /\ SnapshotOf(Top).files = Top.files
      /\ SnapshotOf(Top).subdirs = Top.subdirs
  BY DEF SnapshotOf
<1>6. TreeInv' BY <1>1 DEF WalkInv, TreeInv, Exists
<1>7. ASSUME NEW d \in Dirs PROVE CacheOK(d)'
  <2>1. CASE Top.step = "read" /\ d = Top.dir
    <3>1. cache'[d].mtime = Top.mtime /\ cache'[d].files = Top.files /\ cache'[d].subdirs = Top.subdirs
      BY <1>4, <1>5, <2>1
    <3>2. ASSUME Top.mtime = mtime[d], NEW x \in Nodes, In1(x, d), Exists(x), x \notin hidden
          PROVE  Noted(x, Top.subdirs, Top.files)
      BY <1>1, <1>3, <2>1, <3>2 DEF FrameOK
    <3>3. /\ Top.mtime <= mtime[d] /\ (Top.mtime = clock => d \in fresh)
          /\ \A x \in Top.subdirs : In1(x, d) /\ mtime[x] # Absent
      BY <1>3, <2>1 DEF FrameOK
    <3> QED BY <1>1, <3>1, <3>2, <3>3 DEF CacheOK, In1, Noted, Exists
  <2>2. CASE ~(Top.step = "read" /\ d = Top.dir)
    <3>1. cache'[d] = cache[d] BY <1>4, <2>2
    <3>2. CacheOK(d) BY DEF WalkInv, CacheInv
    <3> QED BY <1>1, <3>1, <3>2 DEF CacheOK, In1, Noted, Exists
  <2> QED BY <2>1, <2>2
<1>8. /\ Shape(stack')
      /\ \A i \in 1 .. Len(stack') :
           i + 1 \in 2 .. Len(stack) /\ stack'[i] = stack[i + 1] /\ stack[i + 1].dir # stack[1].dir
  BY <1>1, <1>2, PoppedShape DEF WalkInv, StackInv
<1>9. StackInv'
  <2>1. ASSUME NEW F \in Frame, NEW i \in 1 .. Len(stack'), stack'[i] = F PROVE FrameOK(F)'
    <3>1. i + 1 \in 1 .. Len(stack) BY <1>2, <1>8
    <3>2. FrameOK(F) /\ F.dir # Top.dir BY <1>2, <1>8, <2>1, <3>1 DEF WalkInv, StackInv
    <3>3. cache'[F.dir] = cache[F.dir] BY <1>4, <3>2 DEF Frame
    <3> QED BY <1>1, <3>2, <3>3, OuterFrame
  <2>2. stack' \in Seq(Frame) /\ busy' BY <1>1, <1>2 DEF Popped, WalkInv, StackInv
  <2> QED BY <1>8, <2>1, <2>2, StackFrom
<1>10. CoverInv'
  <2> SUFFICES ASSUME busy, NEW f \in Files, Exists(f), Path(f) \cap (hidden \cup late) = {}
               PROVE  Covered(f)'
    BY <1>1 DEF CoverInv, Exists
  <2>1. f \in Nodes \ {Root} /\ f \notin Dirs /\ In[f] \in Dirs /\ f \notin hidden /\ f \notin late
    BY PathSelf, WatchAssumption DEF Nodes
  <2>2. ASSUME Top.step = "read", In[f] = Top.dir PROVE Covered(f)'
    <3>1. Noted(f, Top.subdirs, Top.files)
      BY <1>1, <1>3, <2>1, <2>2 DEF FrameOK, In1
    <3>2. PICK e \in Top.files : e.path = f BY <1>3, <2>1, <3>1 DEF Noted, FrameOK
    <3>3. CASE PassesAge(e.mtime, now)
      BY <1>1, <1>3, <2>2, <3>2, <3>3 DEF FrameOK, Covered
    <3>4. CASE ~PassesAge(e.mtime, now)
      <4>1. cache'[In[f]].files = Top.files BY <1>4, <1>5, <2>1, <2>2
      <4>2. Aged(f, now)' BY <1>1, <3>2, <3>4, <4>1 DEF Aged, PassesAge
      <4> QED BY <4>2 DEF Covered
    <3> QED BY <3>3, <3>4
  <2>3. ASSUME ~(Top.step = "read" /\ In[f] = Top.dir) PROVE Covered(f)'
    <3>1. Covered(f) BY DEF WalkInv, CoverInv
    <3>2. CASE \E e \in listed : e.path = f BY <1>1, <3>2 DEF Covered
    <3>3. CASE Aged(f, now)
      <4>1. cache'[In[f]] = cache[In[f]] BY <1>4, <2>1, <2>3
      <4> QED BY <1>1, <3>3, <4>1 DEF Covered, Aged
    <3>4. ASSUME NEW i \in 1 .. Len(stack), Pending(f, stack[i]) PROVE Covered(f)'
      <4>1. i # 1 BY <1>1, <1>2, <2>3, <3>4 DEF Pending
      <4>2. i - 1 \in 1 .. Len(stack') /\ (i - 1) + 1 = i BY <1>2, <4>1 DEF Popped
      <4>3. stack'[i - 1] = stack[(i - 1) + 1] BY <1>8, <4>2
      <4> QED BY <3>4, <4>2, <4>3 DEF Covered, Pending, In1
    <3> QED BY <3>1, <3>2, <3>3, <3>4 DEF Covered
  <2> QED BY <2>2, <2>3
<1> QED BY <1>6, <1>7, <1>9, <1>10 DEF WalkInv, CacheInv

\* The poll is done, or given up.
LEMMA EndKeeps ==
  ASSUME WatchTypeOK, WalkInv, SourceDone \/ PollCancelled \/ Cancelled PROVE WalkInv'
<1>1. ~busy' /\ stack' = << >> /\ UNCHANGED <<clock, mtime, fresh, hidden, cache>>
  BY DEF SourceDone, PollCancelled, Cancelled, Abandon, WalkDone
<1>2. TreeInv' /\ CacheInv'
  BY <1>1 DEF WalkInv, TreeInv, CacheInv, CacheOK, Exists, Noted, In1
<1>3. StackInv'
  <2>1. Len(<< >>) = 0 /\ 1 .. 0 = {} /\ 1 .. 0 - 1 = {} OBVIOUS
  <2> QED BY <1>1, <2>1 DEF StackInv, Shape
<1> QED BY <1>1, <1>2, <1>3 DEF WalkInv, CoverInv

LEMMA WalkNext ==
  ASSUME WatchTypeOK, WalkInv, [Next]_vars PROVE WalkInv'
<1>1. ASSUME UNCHANGED watchVars PROVE WalkInv'
  <2>1. UNCHANGED <<clock, mtime, fresh, hidden, late, busy, cache, now, stack, listed>>
    BY <1>1 DEF watchVars, seenVars, walkVars
  <2>2. TreeInv' /\ CacheInv'
    BY <2>1 DEF WalkInv, TreeInv, CacheInv, CacheOK, Exists, Noted, In1
  <2>3. StackInv'
    <3>1. \A F \in Frame : FrameOK(F) => FrameOK(F)' BY <2>1 DEF FrameOK, Exists, Noted, In1
    <3> QED BY <2>1, <3>1, StackStays DEF WalkInv
  <2>4. CoverInv' BY <2>1 DEF WalkInv, CoverInv, Covered, Aged, Pending, In1, Exists
  <2> QED BY <2>2, <2>3, <2>4 DEF WalkInv
<1>2. CASE Next
  <2>1. TreeInv BY DEF WalkInv
  <2> QED BY <1>1, <1>2, <2>1, StepsOfTheWalk, DiskKeeps, TickKeeps, DiscoverKeeps, ReadDirKeeps,
             ReturnKeeps, DescendKeeps, CollectKeeps, EndKeeps, Zenon
<1>3. CASE UNCHANGED vars BY <1>1, <1>3 DEF vars
<1> QED BY <1>2, <1>3

-----------------------------------------------------------------------------
(* What a walk leaves out *)

LEMMA WalkSays == WalkInv => OmissionsExplained
<1> SUFFICES ASSUME WalkInv, WalkDone, NEW f \in Files, Exists(f), Path(f) \cap (hidden \cup late) = {}
             PROVE  (\E e \in listed : e.path = f) \/ Aged(f, now)
  BY DEF OmissionsExplained
<1>1. busy /\ stack = << >> BY DEF WalkDone
<1>2. Covered(f) BY <1>1 DEF WalkInv, CoverInv
<1>3. Len(<< >>) = 0 /\ 1 .. 0 = {} OBVIOUS
<1> QED BY <1>1, <1>2, <1>3 DEF Covered

Inv == WatchTypeOK /\ TailTypes /\ WalkInv

LEMMA InvAlways == Spec => []Inv
<1>1. Init => Inv BY InitTypes, WalkInit DEF Inv
<1>2. Inv /\ [Next]_vars => Inv'
  <2> SUFFICES ASSUME Inv, [Next]_vars PROVE Inv' OBVIOUS
  <2>1. WatchTypeOK /\ TailTypes /\ WalkInv /\ TreeInv BY DEF Inv, WalkInv
  <2> QED BY <2>1, TypesNext, WalkNext DEF Inv
<1> QED BY <1>1, <1>2, PTL DEF Spec

\* Every variable keeps its type: the stack is one of calls, what is cached is a
\* listing, and no cursor is past the last complete line, whatever is created,
\* removed or written between two steps of a walk (filewatch.go:94-211).
THEOREM TypeCorrect == Spec => []TypeOK
<1>1. Inv => TypeOK BY TypesSay DEF Inv
<1> QED BY <1>1, InvAlways, PTL

\* In every tree, a walk misses a file that is there only because the listing in
\* the cache has a time of it that was too old, or because it or a directory
\* above it was created while the walk was on, or in the tick in which the
\* directory around it was read.  Nothing else is lost to the cache, to what is
\* written, removed or created between two steps, to a walk that was cancelled, or
\* to a listing that is stored late (filewatch.go:105-211).
THEOREM EveryOmissionIsExplained == Spec => []OmissionsExplained
<1>1. Inv => OmissionsExplained BY WalkSays DEF Inv
<1> QED BY <1>1, InvAlways, PTL

-----------------------------------------------------------------------------
(* Lines are counted once *)

\* The count of a prefix, as CountsAddUp names it.
LEMMA PrefixCount ==
  ASSUME NEW s \in Seq(LineKinds), NEW k \in 0 .. Len(s), NEW n \in k .. Len(s)
  PROVE  Messages(SubSeq(s, 1, n)) = Messages(SubSeq(s, 1, k)) + Messages(SubSeq(s, k + 1, n))
<1>1. \A b : Messages(b) = Cardinality(Positions(b, {"msg"}))
  <2>1. \A b : Positions(b, {"msg"}) = {i \in DOMAIN b : b[i] = "msg"} BY DEF Positions
  <2> QED BY <2>1, Zenon DEF Messages
<1>2. Cardinality(Positions(SubSeq(s, 1, n), {"msg"}))
        = Cardinality(Positions(SubSeq(s, 1, k), {"msg"}))
            + Cardinality(Positions(SubSeq(s, k + 1, n), {"msg"}))
  BY CountsAddUp
<1> QED BY <1>1, <1>2

LEMMA CountedUpdate ==
  ASSUME TailTypes, CountedOnce, NEW g \in Files, ParseUpdate(g) PROVE CountedOnce'
<1>1. /\ counted' = [counted EXCEPT ![g] = @ + Messages(Unread(g))]
      /\ cursor' = [cursor EXCEPT ![g] = Len(lines[g])] /\ lines' = lines
  BY DEF ParseUpdate, NextOffset
<1>2. counted \in [Files -> Nat] /\ cursor \in [Files -> Nat] BY DEF TailTypes
<1> SUFFICES ASSUME NEW f \in Files
             PROVE  counted'[f] = Messages(SubSeq(lines'[f], 1, cursor'[f]))
  BY DEF CountedOnce, Messages
<1>3. counted[f] = Messages(SubSeq(lines[f], 1, cursor[f])) BY DEF CountedOnce
<1>4. CASE f = g
  <2> DEFINE s == lines[f]
             k == cursor[f]
             n == Len(lines[f])
  <2>1. s \in Seq(LineKinds) /\ k \in 0 .. Len(s) /\ n \in k .. Len(s) BY UnreadType
  <2>2. counted'[f] = Messages(SubSeq(s, 1, k)) + Messages(SubSeq(s, k + 1, n))
    BY <1>1, <1>2, <1>3, <1>4 DEF Unread
  <2>3. lines'[f] = s /\ cursor'[f] = n BY <1>1, <1>2, <1>4
  <2> HIDE DEF s, k, n
  <2> QED BY <2>1, <2>2, <2>3, PrefixCount
<1>5. CASE f # g
  <2>1. cursor'[f] = cursor[f] /\ counted'[f] = counted[f] BY <1>1, <1>2, <1>5
  <2> QED BY <1>1, <1>3, <2>1
<1> QED BY <1>4, <1>5

LEMMA CountedAppend ==
  ASSUME TailTypes, CountedOnce, NEW g \in Files, NEW k \in LineKinds, AppendLine(g, k)
  PROVE  CountedOnce'
<1>1. lines' = [lines EXCEPT ![g] = Append(@, k)] /\ cursor' = cursor /\ counted' = counted
  BY DEF AppendLine
<1> SUFFICES ASSUME NEW f \in Files
             PROVE  counted'[f] = Messages(SubSeq(lines'[f], 1, cursor'[f]))
  BY DEF CountedOnce, Messages
<1>2. counted[f] = Messages(SubSeq(lines[f], 1, cursor[f])) BY DEF CountedOnce
<1>3. lines[f] \in Seq(LineKinds) /\ cursor[f] \in 0 .. Len(lines[f]) BY UnreadType
<1>4. SubSeq(lines'[f], 1, cursor[f]) = SubSeq(lines[f], 1, cursor[f])
  <2>1. CASE f = g
    <3>1. lines'[f] = Append(lines[f], k) BY <1>1, <2>1 DEF TailTypes
    <3>2. Len(lines[f]) \in Nat BY <1>3, LenProperties
    <3>3. 0 \in 0 .. Len(lines[f]) /\ 0 + 1 = 1 BY <3>2
    <3>4. SubSeq(Append(lines[f], k), 0 + 1, cursor[f]) = SubSeq(lines[f], 0 + 1, cursor[f])
      BY <1>3, <3>3, PartOfAppend
    <3> QED BY <3>1, <3>3, <3>4
  <2>2. CASE f # g BY <1>1, <2>2 DEF TailTypes
  <2> QED BY <2>1, <2>2
<1> QED BY <1>1, <1>2, <1>4

LEMMA CountedNext ==
  ASSUME WatchTypeOK, TailTypes, CountedOnce, [Next]_vars PROVE CountedOnce'
<1>1. ASSUME UNCHANGED <<source, lines, cursor, counted>> PROVE CountedOnce'
  BY <1>1 DEF CountedOnce, Messages
<1>2. CASE Next BY <1>1, <1>2, StepsOfTheSources, CountedUpdate, CountedAppend
<1>3. CASE UNCHANGED vars BY <1>1, <1>3 DEF vars, tailVars
<1> QED BY <1>2, <1>3

LEMMA CountedInit == Init => CountedOnce
<1> SUFFICES ASSUME Init, NEW f \in Files
             PROVE  counted[f] = Messages(SubSeq(lines[f], 1, cursor[f]))
  BY DEF CountedOnce
<1>1. counted[f] = 0 /\ cursor[f] = 0 /\ lines[f] = << >> BY DEF Init
<1>2. SubSeq(<< >>, 1, 0) = << >> BY SubSeqEmpty
<1>3. {i \in DOMAIN << >> : << >>[i] = "msg"} = {} OBVIOUS
<1>4. Cardinality({}) = 0 BY FS_EmptySet
<1> QED BY <1>1, <1>2, <1>3, <1>4 DEF Messages

\* The messages of a session are those of the lines before its cursor, each
\* counted once: however the transcript is cut into batches, when a batch is read
\* again after an update that was not committed, and whatever is appended
\* between two polls (codex/source.go:129-153, monitor.go:102-123).
THEOREM EachLineIsCountedOnce == Spec => []CountedOnce
<1>1. Inv /\ CountedOnce /\ [Next]_vars => CountedOnce' BY CountedNext DEF Inv
<1> QED BY <1>1, InvAlways, CountedInit, PTL DEF Spec

=============================================================================
