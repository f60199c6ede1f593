--------------------------- MODULE CountingProofs ---------------------------
(***************************************************************************)
(* Proofs about module CountingSources, for any bounds: type correctness,  *)
(* and that the monitor has counted what was written, at most once.        *)
(***************************************************************************)
EXTENDS CountingSources, TLAPS

-----------------------------------------------------------------------------
(* The inductive invariant *)

Records == [exists : BOOLEAN, whole : BOOLEAN, mtime : 0 .. clock,
            archived : BOOLEAN, totals : Totals]

\* TypeOK, with what is counted and written left unbounded.
TypeInv ==
  /\ source \in Sources /\ clock \in 1 .. MaxTime
  /\ record \in Records
  /\ dir \in [changed : BOOLEAN, mtime : 0 .. clock]
  /\ cursor \in [mtime : 0 .. clock, totals : Totals]
  /\ counted \in [Kinds -> Nat]
  /\ shown \in {"none", "active", "terminal"}
  /\ pc \in {"idle", "stat", "read", "session", "messages", "tools", "commit"}
  /\ seen \in [mtime : 0 .. clock, archived : BOOLEAN, totals : Totals]
  /\ writes \in 0 .. MaxWrites /\ failures \in 0 .. MaxFailures
  /\ written \in [Kinds -> Nat] /\ lost \in BOOLEAN

\* One write adds at most MaxTotal messages or tool calls.
WrittenBounded == \A k \in Kinds : written[k] <= MaxTotal * writes

\* The total of kind k that Parse holds was read since the last commit.
HasRead(k) == pc = "commit" \/ (pc = "tools" /\ k = "msg")

\* What the monitor has counted and what it would still count if it read the
\* record now was written; so was what it is about to count, together with what
\* the record has gained since Parse read it.
Account(k) ==
  /\ cursor.totals[k] <= counted[k]
  /\ counted[k] + PositivePart(record.totals[k] - cursor.totals[k]) <= written[k]
  /\ HasRead(k) => counted[k] + PositivePart(seen.totals[k] - cursor.totals[k])
                     + PositivePart(record.totals[k] - seen.totals[k]) <= written[k]

Accounted == \A k \in Kinds : Account(k)

IInv == TypeInv /\ WrittenBounded /\ Accounted

-----------------------------------------------------------------------------
(* Totals *)

LEMMA TotalsType ==
  /\ Zero \in Totals /\ Zero \in [Kinds -> Nat]
  /\ \A t \in Totals, k \in Kinds : t[k] \in Nat /\ t[k] <= MaxTotal
  /\ \A k \in Kinds : Zero[k] = 0
BY CountingAssumption DEF Totals, Zero

\* How far a total rises from a to c is at most how far it rises by way of b.
LEMMA Rises ==
  ASSUME NEW a \in Nat, NEW b \in Nat, NEW c \in Nat
  PROVE  /\ PositivePart(b - a) \in Nat
         /\ PositivePart(b - a) <= b
         /\ PositivePart(a - a) = 0
         /\ PositivePart(c - a) <= PositivePart(b - a) + PositivePart(c - b)
         /\ b <= a + PositivePart(b - a)
BY DEF PositivePart

LEMMA Products ==
  /\ \A w \in Nat : MaxTotal * w \in Nat /\ MaxTotal * (w + 1) = MaxTotal * w + MaxTotal
  /\ \A w \in 0 .. MaxWrites : MaxTotal * w <= MaxTotal * MaxWrites
  /\ MaxTotal * MaxWrites \in Nat
<1>1. MaxTotal \in Nat /\ MaxWrites \in Nat
  BY CountingAssumption
<1>2. \A w \in Nat : MaxTotal * w \in Nat /\ MaxTotal * (w + 1) = MaxTotal * w + MaxTotal
  BY <1>1
<1>3. ASSUME NEW w \in 0 .. MaxWrites
      PROVE  MaxTotal * w <= MaxTotal * MaxWrites
  <2>1. PICK d \in Nat : MaxWrites = w + d
    <3>1. MaxWrites - w \in Nat /\ MaxWrites = w + (MaxWrites - w)
      BY <1>1
    <3> QED
      BY <3>1
  <2>2. MaxTotal * (w + d) = MaxTotal * w + MaxTotal * d
    BY <1>1, <2>1
  <2>3. MaxTotal * d >= 0 /\ MaxTotal * w \in Int /\ MaxTotal * d \in Int
    BY <1>1, <2>1
  <2> QED
    BY <2>1, <2>2, <2>3
<1> QED
  BY <1>1, <1>2, <1>3

-----------------------------------------------------------------------------
(* Type correctness *)

LEMMA InitTypes == Init => TypeInv
<1> SUFFICES ASSUME Init PROVE TypeInv
  OBVIOUS
<1> USE DEF Init
<1>1. Zero \in Totals /\ Zero \in [Kinds -> Nat]
  BY TotalsType
<1>2. 0 \in 0 .. clock /\ clock \in 1 .. MaxTime /\ writes \in 0 .. MaxWrites
      /\ failures \in 0 .. MaxFailures
  BY CountingAssumption
<1>3. record \in Records /\ cursor \in [mtime : 0 .. clock, totals : Totals]
      /\ dir \in [changed : BOOLEAN, mtime : 0 .. clock]
      /\ seen \in [mtime : 0 .. clock, archived : BOOLEAN, totals : Totals]
  BY <1>1, <1>2 DEF Records
<1> QED
  BY <1>1, <1>2, <1>3 DEF TypeInv

\* SetTotals keeps what was written a function to the natural numbers.
LEMMA WrittenType ==
  ASSUME NEW new \in Totals, TypeInv, SetTotals(new)
  PROVE  /\ written' \in [Kinds -> Nat]
         /\ \A k \in Kinds :
              written'[k] = written[k] + PositivePart(new[k] - record.totals[k])
<1>1. ASSUME NEW k \in Kinds
      PROVE  written[k] + PositivePart(new[k] - record.totals[k]) \in Nat
  <2>1. new[k] \in Nat /\ record.totals[k] \in Nat /\ written[k] \in Nat
    BY TotalsType DEF TypeInv, Records
  <2> QED
    BY <2>1, Rises
<1> QED
  BY <1>1 DEF SetTotals

\* The agent leaves the monitor and Parse alone.
LEMMA AgentFrame ==
  ASSUME Agent
  PROVE  /\ UNCHANGED <<source, clock, monitorVars, pc, seen, failures>>
         /\ writes < MaxWrites /\ writes' = writes + 1
BY DEF Agent, BeginRewrite, EndRewrite, OtherFile, CreateSession, ChangeTotal, Archive, Remove, Write

\* What the agent does leaves a record, and written grows by what it gains; a
\* total only grows where written says so.
LEMMA AgentWrites ==
  ASSUME TypeInv, Agent
  PROVE  /\ record' \in Records
         /\ dir' \in [changed : BOOLEAN, mtime : 0 .. clock]
         /\ lost' \in BOOLEAN
         /\ written' \in [Kinds -> Nat]
         /\ \A k \in Kinds :
              written'[k] - written[k] = PositivePart(record'.totals[k] - record.totals[k])
<1>1. /\ record \in Records /\ lost \in BOOLEAN /\ clock \in 0 .. clock
      /\ written \in [Kinds -> Nat]
      /\ \A updated \in {record.mtime, clock} : updated \in 0 .. clock
  BY DEF TypeInv, Records
<1>2. dir' \in [changed : BOOLEAN, mtime : 0 .. clock]
  <2>1. dir' = dir \/ dir' = [changed |-> TRUE, mtime |-> 0]
    BY DEF Agent, BeginRewrite, EndRewrite, OtherFile, CreateSession, ChangeTotal, Archive, Remove,
       ChangeDir
  <2>2. 0 \in 0 .. clock /\ dir \in [changed : BOOLEAN, mtime : 0 .. clock]
    BY CountingAssumption DEF TypeInv
  <2>3. [changed |-> TRUE, mtime |-> 0] \in [changed : BOOLEAN, mtime : 0 .. clock]
    BY <2>2
  <2> QED
    BY <2>1, <2>2, <2>3
<1>3. ASSUME record'.totals = record.totals, written' = written
      PROVE  \A k \in Kinds :
               written'[k] - written[k] = PositivePart(record'.totals[k] - record.totals[k])
  <2> SUFFICES ASSUME NEW k \in Kinds
               PROVE  written[k] - written[k] = PositivePart(record.totals[k] - record.totals[k])
    BY <1>3
  <2>1. record.totals[k] \in Nat /\ written[k] \in Nat
    BY <1>1, TotalsType DEF Records
  <2> QED
    BY <2>1 DEF PositivePart
<1>4. ASSUME NEW new \in Totals, SetTotals(new), record'.totals = new
      PROVE  /\ written' \in [Kinds -> Nat]
             /\ \A k \in Kinds :
                  written'[k] - written[k] = PositivePart(record'.totals[k] - record.totals[k])
  <2>1. ASSUME NEW k \in Kinds
        PROVE  written'[k] - written[k] = PositivePart(new[k] - record.totals[k])
    <3>1. new[k] \in Nat /\ record.totals[k] \in Nat /\ written[k] \in Nat
      BY <1>1, TotalsType DEF Records
    <3>2. written'[k] = written[k] + PositivePart(new[k] - record.totals[k])
      BY <1>4, WrittenType
    <3> QED
      BY <3>1, <3>2, Rises
  <2> QED
    BY <1>4, <2>1, WrittenType
<1>5. CASE BeginRewrite \/ OtherFile \/ CreateSession
  <2>1. record' \in Records /\ record'.totals = record.totals /\ lost' = lost /\ written' = written
    BY <1>1, <1>5 DEF BeginRewrite, OtherFile, CreateSession, Records
  <2> QED
    BY <1>1, <1>2, <1>3, <2>1
<1>6. CASE \E updated \in 0 .. clock : Archive(updated)
  <2>1. record' \in Records /\ record'.totals = record.totals /\ lost' = lost /\ written' = written
    BY <1>1, <1>6 DEF Archive, Records
  <2> QED
    BY <1>1, <1>2, <1>3, <2>1
<1>7. CASE Remove
  <2>1. record' = [record EXCEPT !.exists = FALSE, !.archived = FALSE, !.totals = Zero]
        /\ lost' = lost /\ written' = written
    BY <1>7 DEF Remove
  <2>2. record' \in Records /\ record'.totals = Zero
    BY <1>1, <2>1, TotalsType DEF Records
  <2>3. ASSUME NEW k \in Kinds
        PROVE  written[k] - written[k] = PositivePart(Zero[k] - record.totals[k])
    <3>1. record.totals[k] \in Nat /\ written[k] \in Nat /\ Zero[k] = 0
      BY <1>1, TotalsType DEF Records
    <3> QED
      BY <3>1 DEF PositivePart
  <2> QED
    BY <1>1, <1>2, <2>1, <2>2, <2>3
<1>8. ASSUME NEW new \in Totals, EndRewrite(new)
      PROVE  /\ record' \in Records /\ lost' \in BOOLEAN
             /\ SetTotals(new) /\ record'.totals = new
  BY <1>1, <1>8 DEF EndRewrite, Records
<1>9. ASSUME NEW k \in Kinds, NEW n \in 0 .. MaxTotal,
             NEW updated \in 0 .. clock, ChangeTotal(k, n, updated)
      PROVE  LET new == [record.totals EXCEPT ![k] = n]
             IN  /\ new \in Totals /\ record' \in Records /\ lost' \in BOOLEAN
                 /\ SetTotals(new) /\ record'.totals = new
  BY <1>1, <1>9 DEF ChangeTotal, Records, Totals
<1>10. ASSUME NEW new \in Totals, EndRewrite(new)
      PROVE  /\ record' \in Records /\ lost' \in BOOLEAN /\ written' \in [Kinds -> Nat]
             /\ \A k \in Kinds :
                  written'[k] - written[k] = PositivePart(record'.totals[k] - record.totals[k])
  BY <1>4, <1>8, <1>10
<1>11. ASSUME NEW k \in Kinds, NEW n \in 0 .. MaxTotal,
             NEW updated \in 0 .. clock, ChangeTotal(k, n, updated)
      PROVE  /\ record' \in Records /\ lost' \in BOOLEAN /\ written' \in [Kinds -> Nat]
             /\ \A j \in Kinds :
                  written'[j] - written[j] = PositivePart(record'.totals[j] - record.totals[j])
  BY <1>4, <1>9, <1>11
<1> QED
  BY <1>2, <1>5, <1>6, <1>7, <1>10, <1>11 DEF Agent

\* What the monitor and Parse do leaves what the agent has written alone.
LEMMA PollerFrame ==
  ASSUME Poller \/ QueryFails
  PROVE  UNCHANGED <<source, clock, record, writes, written, lost>>
BY DEF Poller, QueryFails, DiscoverFile, DiscoverSession, Commit, Unchanged, Stat, ReadFails,
   ReadFile, NoSession, QuerySession, CountMessages, CountTools, Reads, agentVars

\* A commit counts the deltas; no other step counts or moves the cursor.
LEMMA CommitTypes ==
  ASSUME TypeInv, Commit
  PROVE  /\ counted' \in [Kinds -> Nat]
         /\ \A k \in Kinds : counted'[k] = counted[k] + PositivePart(seen.totals[k] - cursor.totals[k])
         /\ cursor' = [mtime |-> seen.mtime, totals |-> seen.totals]
         /\ shown' \in {"none", "active", "terminal"}
         /\ pc = "commit" /\ pc' = "idle" /\ UNCHANGED <<seen, dir, failures>>
<1>1. ASSUME NEW k \in Kinds
      PROVE  counted[k] + PositivePart(seen.totals[k] - cursor.totals[k]) \in Nat
  <2>1. seen.totals[k] \in Nat /\ cursor.totals[k] \in Nat /\ counted[k] \in Nat
    BY TotalsType DEF TypeInv
  <2> QED
    BY <2>1, Rises
<1> QED
  BY <1>1 DEF Commit, Delta, NextCursor, After, Step

\* A step of Parse before the commit: what it has read is of the right type, and
\* what it has newly read of a kind is the record's, or the cursor's if there is
\* no record.
LEMMA ReadSteps ==
  ASSUME TypeInv, Poller \/ QueryFails, ~Commit
  PROVE  /\ seen' \in [mtime : 0 .. clock, archived : BOOLEAN, totals : Totals]
         /\ dir' \in [changed : BOOLEAN, mtime : 0 .. clock]
         /\ pc' \in {"idle", "stat", "read", "session", "messages", "tools", "commit"}
         /\ failures' \in 0 .. MaxFailures
         /\ UNCHANGED monitorVars
         /\ \A k \in Kinds : HasRead(k)' =>
              \/ seen'.totals[k] = record.totals[k]
              \/ seen'.totals[k] = cursor.totals[k]
              \/ HasRead(k) /\ seen'.totals[k] = seen.totals[k]
<1> USE DEF Step, Reads
<1>1. /\ record \in Records /\ clock \in 1 .. MaxTime /\ failures \in 0 .. MaxFailures
      /\ dir \in [changed : BOOLEAN, mtime : 0 .. clock]
      /\ cursor \in [mtime : 0 .. clock, totals : Totals]
      /\ seen \in [mtime : 0 .. clock, archived : BOOLEAN, totals : Totals]
  BY DEF TypeInv
<1>2. record.totals \in Totals /\ cursor.totals \in Totals /\ seen.totals \in Totals
      /\ record.mtime \in 0 .. clock /\ record.archived \in BOOLEAN
  BY <1>1 DEF Records
<1>3. CASE Unchanged \/ ReadFails \/ DiscoverSession
  BY <1>1, <1>3 DEF Unchanged, ReadFails, DiscoverSession, HasRead
<1>4. CASE DiscoverFile
  <2>1. ListedTime \in 0 .. clock
    BY <1>1, <1>2 DEF ListedTime
  <2> QED
    BY <1>1, <1>4, <2>1 DEF DiscoverFile, HasRead
<1>5. CASE Stat \/ QuerySession
  BY <1>1, <1>2, <1>5 DEF Stat, QuerySession, HasRead
<1>6. CASE ReadFile
  BY <1>1, <1>2, <1>6 DEF ReadFile
<1>7. CASE NoSession
  BY <1>1, <1>2, <1>7 DEF NoSession
<1>8. CASE CountMessages
  BY <1>1, <1>2, <1>8 DEF CountMessages, HasRead, Totals, Kinds
<1>9. CASE CountTools
  BY <1>1, <1>2, <1>9 DEF CountTools, HasRead, Totals, Kinds
<1>10. CASE QueryFails
  BY <1>1, <1>10, CountingAssumption DEF QueryFails, HasRead
<1> QED
  BY <1>3, <1>4, <1>5, <1>6, <1>7, <1>8, <1>9, <1>10 DEF Poller

LEMMA TypeStep ==
  ASSUME TypeInv, [Next]_vars
  PROVE  TypeInv'
<1>1. CASE Agent
  <2>1. writes' \in 0 .. MaxWrites
    BY <1>1, AgentFrame, CountingAssumption DEF TypeInv
  <2> QED
    BY <1>1, <2>1, AgentFrame, AgentWrites DEF TypeInv, Records, monitorVars
<1>2. CASE Tick
  BY <1>2, CountingAssumption DEF Tick, TypeInv, Records, agentVars, monitorVars
<1>3. CASE Commit
  BY <1>3, PollerFrame, CommitTypes DEF TypeInv, Records, Poller
<1>4. CASE (Poller \/ QueryFails) /\ ~Commit
  BY <1>4, PollerFrame, ReadSteps DEF TypeInv, Records, monitorVars
<1>5. CASE UNCHANGED vars
  BY <1>5 DEF vars, agentVars, monitorVars, TypeInv, Records
<1> QED
  BY <1>1, <1>2, <1>3, <1>4, <1>5 DEF Next

-----------------------------------------------------------------------------
(* The count *)

LEMMA InitCount == Init => WrittenBounded /\ Accounted
<1> SUFFICES ASSUME Init, NEW k \in Kinds
             PROVE  /\ written[k] <= MaxTotal * writes
                    /\ cursor.totals[k] <= counted[k]
                    /\ counted[k] + PositivePart(record.totals[k] - cursor.totals[k]) <= written[k]
                    /\ ~HasRead(k)
  BY DEF WrittenBounded, Accounted, Account
<1>1. /\ written[k] = 0 /\ counted[k] = 0 /\ record.totals[k] = 0 /\ cursor.totals[k] = 0
      /\ writes = 0 /\ ~HasRead(k)
  BY TotalsType DEF Init, HasRead
<1>2. MaxTotal * 0 = 0
  BY CountingAssumption
<1> QED
  BY <1>1, <1>2 DEF PositivePart

LEMMA BoundStep ==
  ASSUME TypeInv, WrittenBounded, [Next]_vars
  PROVE  WrittenBounded'
<1>1. CASE Agent
  <2> SUFFICES ASSUME NEW k \in Kinds
               PROVE  written'[k] <= MaxTotal * writes'
    BY DEF WrittenBounded
  <2>1. /\ written'[k] - written[k] = PositivePart(record'.totals[k] - record.totals[k])
        /\ record'.totals \in Totals /\ record.totals \in Totals
        /\ written[k] \in Nat /\ written'[k] \in Nat
    BY <1>1, AgentWrites DEF Records, TypeInv
  <2>2. record'.totals[k] \in Nat /\ record'.totals[k] <= MaxTotal /\ record.totals[k] \in Nat
    BY <2>1, TotalsType
  <2>3. written'[k] - written[k] <= MaxTotal
    BY <2>1, <2>2, CountingAssumption DEF PositivePart
  <2>4. /\ writes \in Nat /\ writes' = writes + 1
        /\ MaxTotal * writes' = MaxTotal * writes + MaxTotal /\ MaxTotal * writes \in Nat
    BY <1>1, AgentFrame, Products, CountingAssumption DEF TypeInv
  <2>5. written[k] <= MaxTotal * writes
    BY DEF WrittenBounded
  <2> QED
    BY <2>1, <2>3, <2>4, <2>5, CountingAssumption
<1>2. CASE UNCHANGED <<written, writes>>
  BY <1>2 DEF WrittenBounded
<1>3. Tick => UNCHANGED <<written, writes>>
  BY DEF Tick, agentVars
<1>4. UNCHANGED vars => UNCHANGED <<written, writes>>
  BY DEF vars, agentVars
<1> QED
  BY <1>1, <1>2, <1>3, <1>4, PollerFrame DEF Next

LEMMA CountStep ==
  ASSUME TypeInv, TypeInv', Accounted, [Next]_vars
  PROVE  Accounted'
<1> SUFFICES ASSUME NEW k \in Kinds PROVE Account(k)'
  BY DEF Accounted
<1>1. Account(k)
  BY DEF Accounted
<1>2. /\ counted[k] \in Nat /\ cursor.totals[k] \in Nat /\ seen.totals[k] \in Nat
      /\ record.totals[k] \in Nat /\ written[k] \in Nat /\ HasRead(k) \in BOOLEAN
  BY TotalsType DEF TypeInv, Records, HasRead
<1>3. /\ counted'[k] \in Nat /\ cursor'.totals[k] \in Nat /\ seen'.totals[k] \in Nat
      /\ record'.totals[k] \in Nat /\ written'[k] \in Nat /\ HasRead(k)' \in BOOLEAN
  BY TotalsType DEF TypeInv, Records, HasRead
<1>4. CASE Agent
  <2>1. written'[k] - written[k] = PositivePart(record'.totals[k] - record.totals[k])
    BY <1>4, AgentWrites
  <2>2. /\ counted' = counted /\ cursor' = cursor /\ seen' = seen
        /\ HasRead(k)' = HasRead(k)
    BY <1>4, AgentFrame DEF monitorVars, HasRead
  <2> QED
    BY <1>1, <1>2, <1>3, <2>1, <2>2 DEF Account, PositivePart
<1>5. CASE UNCHANGED <<counted, cursor, seen, record, written, pc>>
  BY <1>1, <1>5 DEF Account, HasRead
<1>6. CASE Commit
  <2>1. /\ counted'[k] = counted[k] + PositivePart(seen.totals[k] - cursor.totals[k])
        /\ cursor'.totals = seen.totals /\ seen' = seen /\ record' = record /\ written' = written
        /\ HasRead(k) = TRUE /\ HasRead(k)' = FALSE
    BY <1>6, CommitTypes, PollerFrame DEF Poller, HasRead
  <2> QED
    BY <1>1, <1>2, <2>1 DEF Account, PositivePart
<1>7. CASE (Poller \/ QueryFails) /\ ~Commit
  <2>1. /\ counted' = counted /\ cursor' = cursor /\ record' = record /\ written' = written
        /\ HasRead(k)' =>
             \/ seen'.totals[k] = record.totals[k]
             \/ seen'.totals[k] = cursor.totals[k]
             \/ HasRead(k) /\ seen'.totals[k] = seen.totals[k]
    BY <1>7, ReadSteps, PollerFrame DEF monitorVars
  <2>2. CASE HasRead(k)' = FALSE
    BY <1>1, <1>2, <1>3, <2>1, <2>2 DEF Account, PositivePart
  <2>3. CASE HasRead(k)' = TRUE
    BY <1>1, <1>2, <1>3, <2>1, <2>3 DEF Account, PositivePart
  <2> QED
    BY <1>3, <2>2, <2>3
<1>8. Tick \/ UNCHANGED vars => UNCHANGED <<counted, cursor, seen, record, written, pc>>
  BY DEF Tick, vars, agentVars, monitorVars
<1> QED
  BY <1>4, <1>5, <1>6, <1>7, <1>8 DEF Next

-----------------------------------------------------------------------------
(* The theorems *)

LEMMA Inductive == Spec => []IInv
<1>1. Init => IInv
  BY InitTypes, InitCount DEF IInv
<1>2. IInv /\ [Next]_vars => IInv'
  BY TypeStep, BoundStep, CountStep DEF IInv
<1> QED
  BY <1>1, <1>2, PTL DEF Spec

\* The monitor has counted at least what its cursor says and at most what was
\* ever written, of messages and of tool calls, whatever the agent does between
\* the steps of Parse.
THEOREM NothingCountedTwice == Spec => []CountedAsWritten
<1>1. IInv => CountedAsWritten
  <2> SUFFICES ASSUME IInv, NEW k \in Kinds
               PROVE  cursor.totals[k] <= counted[k] /\ counted[k] <= written[k]
    BY DEF CountedAsWritten
  <2>1. /\ counted[k] \in Nat /\ cursor.totals[k] \in Nat
        /\ record.totals[k] \in Nat /\ written[k] \in Nat
    BY TotalsType DEF IInv, TypeInv, Records
  <2>2. /\ cursor.totals[k] <= counted[k]
        /\ counted[k] + PositivePart(record.totals[k] - cursor.totals[k]) <= written[k]
    BY DEF IInv, Accounted, Account
  <2> QED
    BY <2>1, <2>2 DEF PositivePart
<1> QED
  BY <1>1, Inductive, PTL

\* Every variable keeps its type; what is counted stays within the bound that
\* the number of writes sets.
THEOREM TypeCorrect == Spec => []TypeOK
<1>1. IInv /\ CountedAsWritten => TypeOK
  <2> SUFFICES ASSUME IInv, CountedAsWritten
               PROVE  TypeOK
    OBVIOUS
  <2>1. ASSUME NEW k \in Kinds
        PROVE  written[k] \in 0 .. MaxTotal * MaxWrites /\ counted[k] \in 0 .. MaxTotal * MaxWrites
    <3>1. written[k] \in Nat /\ counted[k] \in Nat /\ counted[k] <= written[k]
      BY DEF IInv, TypeInv, CountedAsWritten
    <3>2. written[k] <= MaxTotal * writes /\ writes \in 0 .. MaxWrites
      BY DEF IInv, TypeInv, WrittenBounded
    <3>3. /\ MaxTotal * writes <= MaxTotal * MaxWrites
          /\ MaxTotal * writes \in Nat /\ MaxTotal * MaxWrites \in Nat
      BY <3>2, Products, CountingAssumption
    <3> QED
      BY <3>1, <3>2, <3>3
  <2>2. written \in [Kinds -> 0 .. MaxTotal * MaxWrites]
        /\ counted \in [Kinds -> 0 .. MaxTotal * MaxWrites]
    BY <2>1 DEF IInv, TypeInv
  <2> QED
    BY <2>2 DEF IInv, TypeInv, TypeOK, Records
<1> QED
  BY <1>1, Inductive, NothingCountedTwice, PTL

=============================================================================
