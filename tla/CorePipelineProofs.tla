-------------------------- MODULE CorePipelineProofs --------------------------
(***************************************************************************)
(* Proofs about CorePipeline, for any kinds and numbers of commands and    *)
(* refreshes: type correctness, that commands keep their order and none is *)
(* lost or answered twice, that StopConcert leaves nothing behind, and     *)
(* that no poll follows the last offline call.                             *)
(***************************************************************************)
EXTENDS CorePipeline, SequenceTheorems, TLAPS

Loops == {"request", "response"}
Item == Messages \union {Quit}
Hands == {<<>>} \union {<<m>> : m \in Messages}

-----------------------------------------------------------------------------
(* Messages.                                                               *)
LEMMA ItemKeys ==
    /\ \A m \in Item : m.key \in Nat
    /\ \A m \in Messages : m.key \in Keys /\ m # Quit /\ m \in Item
    /\ Quit \in Item /\ Quit.key = 0
BY PipelineAssumption DEF Item, Messages, Quit, Keys, AllKinds

LEMMA HandFacts ==
    ASSUME NEW h \in Hands
    PROVE  /\ h \in Seq(Item)
           /\ h # <<>> => h[1] \in Messages /\ h = <<h[1]>>
<1>1. CASE h = <<>>
  BY <1>1
<1>2. CASE h # <<>>
  <2>1. PICK m \in Messages : h = <<m>>
    BY <1>2 DEF Hands
  <2>2. QED  BY <2>1, ItemKeys
<1>3. QED  BY <1>1, <1>2

(* The order of the keys, over 1 .. Len(s).                                *)
LEMMA OrderMeans ==
    ASSUME NEW s \in Seq(Item), NEW lo \in Nat, NEW hi \in Nat
    PROVE  KeysInOrder(s, lo, hi) <=>
             /\ \A i \in 1 .. Len(s) : s[i].key # 0 => s[i].key \in lo .. hi
             /\ \A k \in lo .. hi : k # 0 /\ \E i \in 1 .. Len(s) : s[i].key = k
             /\ \A i, j \in 1 .. Len(s) :
                  i < j /\ s[i].key # 0 /\ s[j].key # 0 => s[i].key < s[j].key
<1>1. DOMAIN s = 1 .. Len(s)
  OBVIOUS
<1>2. {s[i].key : i \in 1 .. Len(s)} \ {0} = lo .. hi <=>
        /\ \A i \in 1 .. Len(s) : s[i].key # 0 => s[i].key \in lo .. hi
        /\ \A k \in lo .. hi : k # 0 /\ \E i \in 1 .. Len(s) : s[i].key = k
  OBVIOUS
<1>3. QED  BY <1>1, <1>2 DEF KeysInOrder

LEMMA OrderGives ==
    ASSUME NEW s \in Seq(Item), NEW lo \in Nat, NEW hi \in Nat, KeysInOrder(s, lo, hi)
    PROVE  /\ \A i \in 1 .. Len(s) : s[i].key # 0 => s[i].key \in lo .. hi
           /\ \A k \in lo .. hi : k # 0 /\ \E i \in 1 .. Len(s) : s[i].key = k
           /\ \A i, j \in 1 .. Len(s) :
                i < j /\ s[i].key # 0 /\ s[j].key # 0 => s[i].key < s[j].key
BY OrderMeans

LEMMA OrderHolds ==
    ASSUME NEW s \in Seq(Item), NEW lo \in Nat, NEW hi \in Nat,
           \A i \in 1 .. Len(s) : s[i].key # 0 => s[i].key \in lo .. hi,
           \A k \in lo .. hi : k # 0 /\ \E i \in 1 .. Len(s) : s[i].key = k,
           \A i, j \in 1 .. Len(s) :
             i < j /\ s[i].key # 0 /\ s[j].key # 0 => s[i].key < s[j].key
    PROVE  KeysInOrder(s, lo, hi)
BY OrderMeans

(* An item without a key may come or go.                                   *)
LEMMA KeylessItem ==
    ASSUME NEW s \in Seq(Item), NEW t \in Seq(Item), NEW z \in Item, z.key = 0,
           NEW lo \in Nat, NEW hi \in Nat
    PROVE  KeysInOrder((s \o <<z>>) \o t, lo, hi) <=> KeysInOrder(s \o t, lo, hi)
<1> DEFINE a == s \o <<z>>
           c == a \o t
           b == s \o t
           n == Len(s)
           At(i) == IF i <= n THEN i ELSE i + 1
<1>1. /\ c \in Seq(Item) /\ b \in Seq(Item) /\ n \in Nat /\ Len(t) \in Nat
      /\ Len(c) = n + 1 + Len(t) /\ Len(b) = n + Len(t)
      /\ \A i \in 1 .. n : c[i] = s[i] /\ b[i] = s[i]
      /\ c[n + 1] = z
      /\ \A i \in 1 .. Len(t) : c[n + 1 + i] = t[i] /\ b[n + i] = t[i]
  <2>1. /\ a \in Seq(Item) /\ Len(a) = n + 1 /\ n \in Nat
        /\ a[n + 1] = z
        /\ \A i \in 1 .. n : a[i] = s[i]
    OBVIOUS
  <2>2. /\ b \in Seq(Item) /\ Len(b) = n + Len(t) /\ Len(t) \in Nat
        /\ \A i \in 1 .. n : b[i] = s[i]
        /\ \A i \in 1 .. Len(t) : b[n + i] = t[i]
    OBVIOUS
  <2> HIDE DEF a, b, n
  <2>3. /\ c \in Seq(Item) /\ Len(c) = Len(a) + Len(t)
        /\ \A i \in 1 .. Len(a) + Len(t) : c[i] = IF i <= Len(a) THEN a[i] ELSE t[i - Len(a)]
    <3>1. a \in Seq(Item)
      BY <2>1
    <3>2. QED  BY <3>1, ConcatProperties, Zenon
  <2> HIDE DEF c
  <2>4. /\ c \in Seq(Item) /\ Len(c) = Len(a) + Len(t)
        /\ \A i \in 1 .. Len(a) : c[i] = a[i]
        /\ \A i \in 1 .. Len(t) : c[Len(a) + i] = t[i]
    <3>1. Len(a) \in Nat /\ Len(t) \in Nat
      BY <2>1, <2>2
    <3>2. \A i \in 1 .. Len(a) : c[i] = a[i]
      BY <2>3, <3>1
    <3>3. ASSUME NEW i \in 1 .. Len(t) PROVE c[Len(a) + i] = t[i]
      <4>1. /\ Len(a) + i \in 1 .. Len(a) + Len(t) /\ ~(Len(a) + i <= Len(a))
            /\ (Len(a) + i) - Len(a) = i
        BY <3>1
      <4>2. QED  BY <2>3, <4>1
    <3>4. QED  BY <2>3, <3>2, <3>3
  <2>5. /\ \A i \in 1 .. n : c[i] = s[i]
        /\ c[n + 1] = z
        /\ \A i \in 1 .. Len(t) : c[n + 1 + i] = t[i]
    <3>1. \A i \in 1 .. n : i \in 1 .. Len(a) /\ c[i] = s[i]
      BY <2>1, <2>4
    <3>2. n + 1 \in 1 .. Len(a) /\ c[n + 1] = z
      BY <2>1, <2>4
    <3>3. \A i \in 1 .. Len(t) : c[n + 1 + i] = t[i]
      BY <2>1, <2>4
    <3>4. QED  BY <3>1, <3>2, <3>3
  <2>6. QED  BY <2>1, <2>2, <2>4, <2>5
<1> HIDE DEF a, c, b, n
<1>2. ASSUME NEW i \in 1 .. Len(b) PROVE At(i) \in 1 .. Len(c) /\ c[At(i)] = b[i]
  <2>1. CASE i <= n
    BY <1>1, <2>1
  <2>2. CASE i > n
    <3>1. i - n \in 1 .. Len(t) /\ n + (i - n) = i /\ n + 1 + (i - n) = i + 1
      BY <1>1, <2>2
    <3>2. b[i] = t[i - n] /\ c[i + 1] = t[i - n]
      BY <1>1, <3>1
    <3>3. QED  BY <1>1, <2>2, <3>2
  <2>3. QED  BY <1>1, <2>1, <2>2
<1>3. ASSUME NEW i \in 1 .. Len(c), i # n + 1
      PROVE  \E j \in 1 .. Len(b) : At(j) = i
  <2>1. CASE i <= n
    <3>1. i \in 1 .. Len(b) /\ At(i) = i
      BY <1>1, <2>1
    <3>2. QED  BY <3>1
  <2>2. CASE i > n + 1
    <3>1. i - 1 \in 1 .. Len(b) /\ At(i - 1) = i
      BY <1>1, <2>2
    <3>2. QED  BY <3>1
  <2>3. QED  BY <1>1, <1>3, <2>1, <2>2
<1>4. \A i, j \in 1 .. Len(b) : i < j <=> At(i) < At(j)
  BY <1>1
<1> HIDE DEF At
<1>5. ASSUME NEW i \in 1 .. Len(c), c[i].key # 0
      PROVE  \E j \in 1 .. Len(b) : At(j) = i /\ b[j] = c[i]
  <2>1. i # n + 1
    BY <1>1, <1>5
  <2>2. PICK j \in 1 .. Len(b) : At(j) = i
    BY <1>3, <2>1
  <2>3. QED  BY <1>2, <2>2
<1>6. ASSUME KeysInOrder(c, lo, hi) PROVE KeysInOrder(b, lo, hi)
  <2>1. /\ \A i \in 1 .. Len(c) : c[i].key # 0 => c[i].key \in lo .. hi
        /\ \A k \in lo .. hi : k # 0 /\ \E i \in 1 .. Len(c) : c[i].key = k
        /\ \A i, j \in 1 .. Len(c) :
             i < j /\ c[i].key # 0 /\ c[j].key # 0 => c[i].key < c[j].key
    BY <1>1, <1>6, OrderGives
  <2>2. \A i \in 1 .. Len(b) : b[i].key # 0 => b[i].key \in lo .. hi
    BY <1>2, <2>1
  <2>3. ASSUME NEW k \in lo .. hi PROVE k # 0 /\ \E i \in 1 .. Len(b) : b[i].key = k
    <3>1. PICK i \in 1 .. Len(c) : k # 0 /\ c[i].key = k
      BY <2>1
    <3>2. QED  BY <1>5, <3>1
  <2>4. ASSUME NEW i \in 1 .. Len(b), NEW j \in 1 .. Len(b),
               i < j, b[i].key # 0, b[j].key # 0
        PROVE  b[i].key < b[j].key
    <3>1. PICK p \in 1 .. Len(c) : p = At(i) /\ c[p] = b[i]
      BY <1>2
    <3>2. PICK q \in 1 .. Len(c) : q = At(j) /\ c[q] = b[j]
      BY <1>2
    <3>3. p < q
      BY <1>4, <2>4, <3>1, <3>2
    <3>4. c[p].key # 0 /\ c[q].key # 0
      BY <2>4, <3>1, <3>2
    <3>5. c[p].key < c[q].key
      BY <2>1, <3>3, <3>4
    <3>6. QED  BY <3>1, <3>2, <3>5
  <2>5. \A i, j \in 1 .. Len(b) :
          i < j /\ b[i].key # 0 /\ b[j].key # 0 => b[i].key < b[j].key
    BY <2>4
  <2>6. QED  BY <1>1, <2>2, <2>3, <2>5, OrderHolds
<1>7. ASSUME KeysInOrder(b, lo, hi) PROVE KeysInOrder(c, lo, hi)
  <2>1. /\ \A i \in 1 .. Len(b) : b[i].key # 0 => b[i].key \in lo .. hi
        /\ \A k \in lo .. hi : k # 0 /\ \E i \in 1 .. Len(b) : b[i].key = k
        /\ \A i, j \in 1 .. Len(b) :
             i < j /\ b[i].key # 0 /\ b[j].key # 0 => b[i].key < b[j].key
    BY <1>1, <1>7, OrderGives
  <2>2. \A i \in 1 .. Len(c) : c[i].key # 0 => c[i].key \in lo .. hi
    BY <1>5, <2>1
  <2>3. ASSUME NEW k \in lo .. hi PROVE k # 0 /\ \E i \in 1 .. Len(c) : c[i].key = k
    <3>1. PICK i \in 1 .. Len(b) : k # 0 /\ b[i].key = k
      BY <2>1
    <3>2. QED  BY <1>2, <3>1
  <2>4. ASSUME NEW i \in 1 .. Len(c), NEW j \in 1 .. Len(c),
               i < j, c[i].key # 0, c[j].key # 0
        PROVE  c[i].key < c[j].key
    <3>1. PICK p \in 1 .. Len(b) : At(p) = i /\ b[p] = c[i]
      BY <1>5, <2>4
    <3>2. PICK q \in 1 .. Len(b) : At(q) = j /\ b[q] = c[j]
      BY <1>5, <2>4
    <3>3. p < q
      BY <1>4, <2>4, <3>1, <3>2
    <3>4. b[p].key # 0 /\ b[q].key # 0
      BY <2>4, <3>1, <3>2
    <3>5. b[p].key < b[q].key
      BY <2>1, <3>3, <3>4
    <3>6. QED  BY <3>1, <3>2, <3>5
  <2>5. \A i, j \in 1 .. Len(c) :
          i < j /\ c[i].key # 0 /\ c[j].key # 0 => c[i].key < c[j].key
    BY <2>4
  <2>6. QED  BY <1>1, <2>2, <2>3, <2>5, OrderHolds
<1>8. QED  BY <1>6, <1>7 DEF a, b, c

(* The next key joins at the end.                                          *)
LEMMA NextKey ==
    ASSUME NEW s \in Seq(Item), NEW m \in Item, NEW lo \in Nat, NEW hi \in Nat,
           lo <= hi + 1, m.key = hi + 1, KeysInOrder(s, lo, hi)
    PROVE  KeysInOrder(s \o <<m>>, lo, hi + 1)
<1> DEFINE c == s \o <<m>>
           n == Len(s)
<1>1. /\ c \in Seq(Item) /\ Len(c) = n + 1 /\ n \in Nat /\ c[n + 1] = m
      /\ \A i \in 1 .. n : c[i] = s[i]
  OBVIOUS
<1>2. /\ \A i \in 1 .. n : s[i].key # 0 => s[i].key \in lo .. hi
      /\ \A k \in lo .. hi : k # 0 /\ \E i \in 1 .. n : s[i].key = k
      /\ \A i, j \in 1 .. n :
           i < j /\ s[i].key # 0 /\ s[j].key # 0 => s[i].key < s[j].key
  BY OrderGives
<1> HIDE DEF c, n
<1>3. ASSUME NEW i \in 1 .. Len(c), c[i].key # 0 PROVE c[i].key \in lo .. hi + 1
  <2>1. CASE i \in 1 .. n
    <3>1. c[i] = s[i]
      BY <1>1, <2>1
    <3>2. s[i].key \in lo .. hi
      BY <1>2, <1>3, <2>1, <3>1
    <3>3. lo .. hi \subseteq lo .. hi + 1
      OBVIOUS
    <3>4. QED  BY <3>1, <3>2, <3>3
  <2>2. CASE i = n + 1
    BY <1>1, <2>2
  <2>3. QED  BY <1>1, <2>1, <2>2
<1>4. ASSUME NEW k \in lo .. hi + 1 PROVE k # 0 /\ \E i \in 1 .. Len(c) : c[i].key = k
  <2>1. CASE k \in lo .. hi
    <3>1. PICK i \in 1 .. n : s[i].key = k
      BY <1>2, <2>1
    <3>2. i \in 1 .. Len(c) /\ c[i].key = k
      BY <1>1, <3>1
    <3>3. QED  BY <1>2, <2>1, <3>2
  <2>2. CASE k = hi + 1
    <3>1. n + 1 \in 1 .. Len(c) /\ c[n + 1].key = k
      BY <1>1, <2>2
    <3>2. QED  BY <2>2, <3>1
  <2>3. QED  BY <2>1, <2>2
<1>5. ASSUME NEW i \in 1 .. Len(c), NEW j \in 1 .. Len(c),
             i < j, c[i].key # 0, c[j].key # 0
      PROVE  c[i].key < c[j].key
  <2>1. i \in 1 .. n /\ c[i] = s[i]
    BY <1>1, <1>5
  <2>2. CASE j \in 1 .. n
    BY <1>1, <1>2, <1>5, <2>1, <2>2
  <2>3. CASE j = n + 1
    BY <1>1, <1>2, <1>5, <2>1, <2>3
  <2>4. QED  BY <1>1, <2>2, <2>3
<1>6. KeysInOrder(c, lo, hi + 1)
  <2>1. hi + 1 \in Nat
    OBVIOUS
  <2>2. \A i, j \in 1 .. Len(c) :
          i < j /\ c[i].key # 0 /\ c[j].key # 0 => c[i].key < c[j].key
    BY <1>5
  <2>3. QED  BY <1>1, <1>3, <1>4, <2>1, <2>2, OrderHolds
<1>7. QED  BY <1>6 DEF c

(* The first key leaves at the head.                                       *)
LEMMA FirstKey ==
    ASSUME NEW s \in Seq(Item), NEW m \in Item, NEW lo \in Nat, NEW hi \in Nat,
           m.key # 0, KeysInOrder(<<m>> \o s, lo, hi)
    PROVE  m.key = lo /\ lo <= hi /\ KeysInOrder(s, lo + 1, hi)
<1> DEFINE c == <<m>> \o s
           n == Len(s)
<1>1. /\ c \in Seq(Item) /\ Len(c) = n + 1 /\ n \in Nat /\ c[1] = m
      /\ \A i \in 1 .. n : c[i + 1] = s[i]
  OBVIOUS
<1> HIDE DEF c, n
<1>2. /\ \A i \in 1 .. Len(c) : c[i].key # 0 => c[i].key \in lo .. hi
      /\ \A k \in lo .. hi : k # 0 /\ \E i \in 1 .. Len(c) : c[i].key = k
      /\ \A i, j \in 1 .. Len(c) :
           i < j /\ c[i].key # 0 /\ c[j].key # 0 => c[i].key < c[j].key
  <2>1. KeysInOrder(c, lo, hi)
    BY DEF c
  <2>2. QED  BY <1>1, <2>1, OrderGives
<1>3. m.key \in lo .. hi
  BY <1>1, <1>2
<1>4. PICK i \in 1 .. Len(c) : c[i].key = lo /\ lo # 0
  BY <1>2, <1>3
<1>5. i = 1
  <2>1. ASSUME 1 < i PROVE m.key < lo
    <3>1. 1 \in 1 .. Len(c) /\ c[1].key # 0 /\ c[i].key # 0
      BY <1>1, <1>4
    <3>2. QED  BY <1>1, <1>2, <1>4, <2>1, <3>1
  <2>2. QED  BY <1>3, <2>1
<1>6. m.key = lo
  BY <1>1, <1>4, <1>5
<1>7. ASSUME NEW j \in 1 .. n, s[j].key # 0 PROVE s[j].key \in lo + 1 .. hi
  <2>1. /\ 1 \in 1 .. Len(c) /\ j + 1 \in 1 .. Len(c) /\ 1 < j + 1
        /\ c[j + 1] = s[j] /\ c[1].key # 0
    BY <1>1
  <2>2. c[1].key < c[j + 1].key /\ c[j + 1].key \in lo .. hi
    BY <1>2, <1>7, <2>1
  <2>3. QED  BY <1>1, <1>6, <2>1, <2>2
<1>8. ASSUME NEW k \in lo + 1 .. hi PROVE k # 0 /\ \E j \in 1 .. n : s[j].key = k
  <2>1. PICK j \in 1 .. Len(c) : c[j].key = k
    BY <1>2
  <2>2. j # 1
    BY <1>1, <1>6, <2>1
  <2>3. j - 1 \in 1 .. n /\ c[(j - 1) + 1] = s[j - 1] /\ (j - 1) + 1 = j
    BY <1>1, <2>2
  <2>4. QED  BY <2>1, <2>3
<1>9. ASSUME NEW j \in 1 .. n, NEW k \in 1 .. n, j < k, s[j].key # 0, s[k].key # 0
      PROVE  s[j].key < s[k].key
  <2>1. PICK p \in 1 .. Len(c) : p = j + 1 /\ c[p] = s[j]
    BY <1>1
  <2>2. PICK q \in 1 .. Len(c) : q = k + 1 /\ c[q] = s[k]
    BY <1>1
  <2>3. p < q /\ c[p].key # 0 /\ c[q].key # 0
    BY <1>1, <1>9, <2>1, <2>2
  <2>4. c[p].key < c[q].key
    BY <1>2, <2>3
  <2>5. QED  BY <2>1, <2>2, <2>4
<1>10. KeysInOrder(s, lo + 1, hi)
  <2>1. lo + 1 \in Nat
    OBVIOUS
  <2>2. QED  BY <1>7, <1>8, <1>9, <2>1, OrderMeans DEF n
<1>11. QED  BY <1>3, <1>6, <1>10

-----------------------------------------------------------------------------
(* The inductive invariant.                                                *)
AfterRequest == {"quitResponse", "joinResponse", "done"}

\* The long-poll thread has its message only on the way to post it, with the
\* next key or none; StopConcert has waited for its end.
PollFits ==
    /\ pollMsg # <<>> => /\ pollPc \in {"notify", "deliver"}
                         /\ pollMsg[1].key \in {0, accepted + 1}
    /\ pollPc = "deliver" => pollMsg # <<>>
    /\ mainPc \in AfterPoll => pollPc = "exit"

\* WM_QUIT is the last message of a thread's queue, and comes only while
\* StopConcert waits for that thread.
QuitLast(q) == \A i \in 1 .. Len(q) : q[i] = Quit => i = Len(q)
NoQuit(q) == \A i \in 1 .. Len(q) : q[i] # Quit
QuitFits(q, pc, waits) == QuitLast(q) /\ (pc = waits \/ NoQuit(q))

RequestEnds ==
    /\ QuitFits(queue["request"], mainPc, "joinRequest")
    /\ loop["request"] = "exit" =>
         queue["request"] = <<>> /\ mainPc \in AfterRequest \union {"joinRequest"}
    /\ mainPc \in AfterRequest => loop["request"] = "exit" /\ ~session

ResponseEnds ==
    /\ QuitFits(queue["response"], mainPc, "joinResponse")
    /\ loop["response"] = "exit" =>
         queue["response"] = <<>> /\ mainPc \in {"joinResponse", "done"}
    /\ mainPc = "done" => loop["response"] = "exit"

\* Only keyed messages get to the response thread.
Keyed(q) == \A i \in 1 .. Len(q) : q[i].key = 0 => q[i] = Quit

RepliesKeyed ==
    /\ Keyed(queue["response"])
    /\ hand["response"] # <<>> => hand["response"][1].key # 0

LastCall == mainPc \in AfterPoll \ {"offlineAgain"} => lastHeard \in {"offlineAgain", "linkdead"}

Control == PollFits /\ RequestEnds /\ ResponseEnds /\ RepliesKeyed /\ LastCall

IInv == TypeOK /\ Control /\ CommandsStayInOrder

-----------------------------------------------------------------------------
(* The operations of the message loops.                                    *)
LoopTypes == ML!LoopTypeOK

LEMMA LoopTypesMean ==
    LoopTypes <=>
      /\ queue \in [Loops -> Seq(Item)]
      /\ signal \in [Loops -> BOOLEAN]
      /\ loop \in [Loops -> ML!LoopStates]
      /\ hand \in [Loops -> Hands]
      /\ \A t \in Loops : loop[t] = "busy" <=> hand[t] # <<>>
BY DEF LoopTypes, ML!LoopTypeOK, Loops, Item, Hands

LEMMA LoopSame == LoopTypes /\ UNCHANGED loopVars => LoopTypes'
BY DEF LoopTypes, loopVars, ML!LoopTypeOK

LEMMA Posted ==
    ASSUME LoopTypes, NEW t \in Loops, NEW m \in Item,
           queue' = [queue EXCEPT ![t] = Append(@, m)]
    PROVE  /\ queue' \in [Loops -> Seq(Item)]
           /\ queue'[t] = Append(queue[t], m)
           /\ \A u \in Loops \ {t} : queue'[u] = queue[u]
<1>1. queue \in [Loops -> Seq(Item)]
  BY LoopTypesMean
<1>2. Append(queue[t], m) \in Seq(Item)
  BY <1>1
<1>3. QED  BY <1>1, <1>2

LEMMA PostTypes ==
    ASSUME LoopTypes, NEW t \in Loops, NEW m \in Item,
           queue' = [queue EXCEPT ![t] = Append(@, m)], UNCHANGED <<signal, loop, hand>>
    PROVE  LoopTypes'
BY Posted, LoopTypesMean DEF LoopTypes, ML!LoopTypeOK, Loops, Item

LEMMA IdleTypes ==
    ASSUME LoopTypes, NEW t \in Loops, ML!Idle(t)
    PROVE  /\ LoopTypes' /\ UNCHANGED <<queue, hand>>
           /\ \A u \in Loops : loop'[u] = "exit" <=> loop[u] = "exit"
<1>1. /\ loop[t] = "top" /\ signal' = [signal EXCEPT ![t] = TRUE]
      /\ loop' = [loop EXCEPT ![t] = "blocked"] /\ UNCHANGED <<queue, hand>>
  BY DEF ML!Idle
<1>2. signal' \in [Loops -> BOOLEAN]
  BY <1>1, LoopTypesMean, Zenon
<1>3. /\ loop' \in [Loops -> ML!LoopStates] /\ loop'[t] = "blocked"
      /\ \A u \in Loops \ {t} : loop'[u] = loop[u]
  BY <1>1, LoopTypesMean DEF ML!LoopStates
<1>4. \A u \in Loops : loop'[u] = "busy" <=> hand'[u] # <<>>
  BY <1>1, <1>3, LoopTypesMean
<1>5. LoopTypes'
  BY <1>1, <1>2, <1>3, <1>4, LoopTypesMean DEF LoopTypes, ML!LoopTypeOK, Loops, Item, Hands
<1>6. QED  BY <1>1, <1>3, <1>5

LEMMA TakeTypes ==
    ASSUME LoopTypes, NEW t \in Loops, ML!Take(t)
    PROVE  /\ LoopTypes'
           /\ queue[t] # <<>> /\ queue'[t] = Tail(queue[t])
           /\ hand[t] = <<>> /\ hand'[t] = <<Head(queue[t])>>
           /\ Head(queue[t]) \in Messages
           /\ loop[t] # "exit" /\ loop'[t] = "busy"
           /\ \A u \in Loops \ {t} : /\ queue'[u] = queue[u] /\ hand'[u] = hand[u]
                                     /\ loop'[u] = loop[u]
<1>1. /\ loop[t] \in {"top", "blocked"} /\ queue[t] # <<>> /\ Head(queue[t]) # Quit
      /\ queue' = [queue EXCEPT ![t] = Tail(@)]
      /\ hand' = [hand EXCEPT ![t] = <<Head(queue[t])>>]
      /\ signal' = [signal EXCEPT ![t] = FALSE]
      /\ loop' = [loop EXCEPT ![t] = "busy"]
  BY DEF ML!Take
<1>2. queue[t] \in Seq(Item)
  BY LoopTypesMean
<1>3. Tail(queue[t]) \in Seq(Item) /\ Head(queue[t]) \in Messages
  BY <1>1, <1>2 DEF Item
<1>4. /\ queue' \in [Loops -> Seq(Item)] /\ queue'[t] = Tail(queue[t])
      /\ \A u \in Loops \ {t} : queue'[u] = queue[u]
  BY <1>1, <1>3, LoopTypesMean
<1>5. /\ hand' \in [Loops -> Hands] /\ hand'[t] = <<Head(queue[t])>>
      /\ \A u \in Loops \ {t} : hand'[u] = hand[u]
  <2>1. <<Head(queue[t])>> \in Hands
    BY <1>3 DEF Hands
  <2>2. QED  BY <1>1, <2>1, LoopTypesMean
<1>6. /\ loop' \in [Loops -> ML!LoopStates] /\ loop'[t] = "busy"
      /\ \A u \in Loops \ {t} : loop'[u] = loop[u]
  BY <1>1, LoopTypesMean DEF ML!LoopStates
<1>7. signal' \in [Loops -> BOOLEAN]
  BY <1>1, LoopTypesMean, Zenon
<1>8. \A u \in Loops : loop'[u] = "busy" <=> hand'[u] # <<>>
  <2>1. hand'[t] # <<>> /\ loop'[t] = "busy"
    BY <1>5, <1>6
  <2>2. \A u \in Loops \ {t} : loop'[u] = "busy" <=> hand'[u] # <<>>
    BY <1>5, <1>6, LoopTypesMean
  <2>3. QED  BY <2>1, <2>2, Zenon
<1>9. LoopTypes'
  BY <1>4, <1>5, <1>6, <1>7, <1>8 DEF LoopTypes, ML!LoopTypeOK, Loops, Item, Hands
<1>10. hand[t] = <<>> /\ loop[t] # "exit"
  BY <1>1, LoopTypesMean
<1>11. QED  BY <1>1, <1>3, <1>4, <1>5, <1>6, <1>9, <1>10

LEMMA TakeQuitTypes ==
    ASSUME LoopTypes, NEW t \in Loops, ML!TakeQuit(t)
    PROVE  /\ LoopTypes' /\ UNCHANGED hand
           /\ queue[t] # <<>> /\ queue'[t] = Tail(queue[t])
           /\ hand[t] = <<>> /\ Head(queue[t]) = Quit
           /\ loop[t] # "exit" /\ loop'[t] = "exit"
           /\ \A u \in Loops \ {t} : queue'[u] = queue[u] /\ loop'[u] = loop[u]
<1>1. /\ loop[t] \in {"top", "blocked"} /\ queue[t] # <<>> /\ Head(queue[t]) = Quit
      /\ queue' = [queue EXCEPT ![t] = Tail(@)]
      /\ loop' = [loop EXCEPT ![t] = "exit"]
      /\ UNCHANGED <<signal, hand>>
  BY DEF ML!TakeQuit
<1>2. queue[t] \in Seq(Item)
  BY LoopTypesMean
<1>3. /\ queue' \in [Loops -> Seq(Item)] /\ queue'[t] = Tail(queue[t])
      /\ \A u \in Loops \ {t} : queue'[u] = queue[u]
  BY <1>1, <1>2, LoopTypesMean
<1>4. /\ loop' \in [Loops -> ML!LoopStates] /\ loop'[t] = "exit"
      /\ \A u \in Loops \ {t} : loop'[u] = loop[u]
  BY <1>1, LoopTypesMean DEF ML!LoopStates
<1>5. \A u \in Loops : loop'[u] = "busy" <=> hand'[u] # <<>>
  BY <1>1, <1>4, LoopTypesMean
<1>6. LoopTypes'
  <2>1. signal' \in [Loops -> BOOLEAN] /\ hand' \in [Loops -> Hands]
    BY <1>1, LoopTypesMean
  <2>2. QED
    BY <1>3, <1>4, <1>5, <2>1 DEF LoopTypes, ML!LoopTypeOK, Loops, Item, Hands
<1>7. hand[t] = <<>> /\ loop[t] # "exit"
  BY <1>1, LoopTypesMean
<1>8. QED  BY <1>1, <1>3, <1>4, <1>6, <1>7

LEMMA Finished ==
    ASSUME LoopTypes, NEW t \in Loops, ML!Finish(t)
    PROVE  /\ hand' \in [Loops -> Hands] /\ loop' \in [Loops -> ML!LoopStates]
           /\ signal' \in [Loops -> BOOLEAN]
           /\ \A u \in Loops : loop'[u] = "busy" <=> hand'[u] # <<>>
           /\ hand[t] # <<>> /\ hand[t] \in Hands /\ hand'[t] = <<>>
           /\ loop[t] = "busy" /\ loop'[t] = "top"
           /\ \A u \in Loops \ {t} : hand'[u] = hand[u] /\ loop'[u] = loop[u]
<1>1. /\ loop[t] = "busy" /\ hand' = [hand EXCEPT ![t] = <<>>]
      /\ loop' = [loop EXCEPT ![t] = "top"] /\ UNCHANGED signal
  BY DEF ML!Finish
<1>2. /\ hand' \in [Loops -> Hands] /\ hand'[t] = <<>>
      /\ \A u \in Loops \ {t} : hand'[u] = hand[u]
  <2>1. <<>> \in Hands
    BY DEF Hands
  <2>2. QED  BY <1>1, <2>1, LoopTypesMean
<1>3. /\ loop' \in [Loops -> ML!LoopStates] /\ loop'[t] = "top"
      /\ \A u \in Loops \ {t} : loop'[u] = loop[u]
  BY <1>1, LoopTypesMean DEF ML!LoopStates
<1>4. \A u \in Loops : loop'[u] = "busy" <=> hand'[u] # <<>>
  BY <1>2, <1>3, LoopTypesMean
<1>5. hand[t] # <<>> /\ hand[t] \in Hands /\ signal' \in [Loops -> BOOLEAN]
  BY <1>1, LoopTypesMean
<1>6. QED  BY <1>1, <1>2, <1>3, <1>4, <1>5

LEMMA FinishTypes ==
    ASSUME LoopTypes, NEW t \in Loops, ML!Finish(t), queue' \in [Loops -> Seq(Item)]
    PROVE  LoopTypes'
BY Finished DEF LoopTypes, ML!LoopTypeOK, Loops, Item, Hands

-----------------------------------------------------------------------------
(* Types.                                                                  *)
PlainTypes ==
    /\ reqStep \in HandlerSteps
    /\ pollPc \in PollStates
    /\ pollMsg \in Hands
    /\ mainPc \in MainStates
    /\ idlePolls \in 0 .. 2
    /\ closePosted \in BOOLEAN /\ goOffline \in BOOLEAN /\ timeToQuit \in BOOLEAN
    /\ ready \in BOOLEAN /\ session \in BOOLEAN /\ processedQB \in BOOLEAN
    /\ refreshes \in 0 .. MaxRefresh
    /\ accepted \in Keys
    /\ answered \in Seq(Keys)
    /\ lastHeard \in {"nothing", "wait", "linkdead", "offline", "offlineAgain"}

LEMMA TypeMeans == TypeOK <=> LoopTypes /\ PlainTypes
BY DEF TypeOK, LoopTypes, PlainTypes, Hands

\* The long-poll thread.
LEMMA PollTypes ==
    ASSUME PlainTypes, LoopTypes, PollFits, LongPollThread
    PROVE  PlainTypes'
<1> USE DEF PlainTypes, PollStates, loopVars, pollVars, mainVars, offlineVars, sessionVars,
            history
<1>1. CASE PollLoop
  BY <1>1 DEF PollLoop
<1>2. CASE PollWaitReady \/ PollGate
  BY <1>2 DEF PollWaitReady, PollGate
<1>3. CASE PollSend
  BY <1>3 DEF PollSend
<1>4. CASE PollIdle
  <2>1. pollMsg' \in Hands
    BY <1>4, PipelineAssumption DEF PollIdle, Hands, Messages, Keys
  <2>2. processedQB' \in BOOLEAN
    BY <1>4, Zenon DEF PollIdle
  <2>3. QED  BY <1>4, <2>1, <2>2 DEF PollIdle
<1>5. CASE PollOldSessionKey \/ PollFails
  BY <1>5 DEF PollOldSessionKey, PollFails
<1>6. CASE PollCommand
  <2>1. PICK k \in Kinds : pollMsg' = <<[key |-> accepted + 1, kind |-> k]>>
    BY <1>6 DEF PollCommand
  <2>2. accepted + 1 \in Keys /\ k \in AllKinds
    BY <1>6, PipelineAssumption DEF PollCommand, Keys
  <2>3. pollMsg' \in Hands
    BY <2>1, <2>2 DEF Hands, Messages
  <2>4. QED  BY <1>6, <2>3 DEF PollCommand
<1>7. CASE PollBackoff \/ PollNotify
  BY <1>7 DEF PollBackoff, PollNotify
<1>8. CASE PollDeliver
  <2>1. pollMsg # <<>> /\ pollMsg[1].key \in {0, accepted + 1} /\ pollMsg[1].key \in Keys
    BY <1>8, HandFacts, ItemKeys DEF PollDeliver, PollFits
  <2>2. accepted' \in Keys
    BY <1>8, <2>1 DEF PollDeliver, Keys
  <2>3. pollMsg' \in Hands
    BY <1>8 DEF PollDeliver, Hands
  <2>4. QED  BY <1>8, <2>2, <2>3 DEF PollDeliver
<1>9. CASE PollExpire
  BY <1>9 DEF PollExpire
<1>10. CASE PollPostExpire
  BY <1>10 DEF PollPostExpire
<1>11. QED
  BY <1>1, <1>2, <1>3, <1>4, <1>5, <1>6, <1>7, <1>8, <1>9, <1>10 DEF LongPollThread

\* The request and response threads.
LEMMA WorkTypes ==
    ASSUME PlainTypes, LoopTypes, RequestThread \/ ResponseThread
    PROVE  PlainTypes'
<1> USE DEF PlainTypes, HandlerSteps, loopVars, pollVars, mainVars, offlineVars, sessionVars,
            history
<1>1. CASE RequestIdle \/ RequestTake \/ RequestQuit \/ ResponseIdle \/ ResponseTake
           \/ ResponseQuit
  BY <1>1 DEF RequestIdle, RequestTake, RequestQuit, ResponseIdle, ResponseTake, ResponseQuit
<1>2. CASE RunPlain \/ RunQbOffline \/ RunInfo \/ RunBrowser
  BY <1>2 DEF RunPlain, RunQbOffline, RunInfo, RunBrowser
<1>3. CASE RunQb
  <2>1. processedQB' \in BOOLEAN
    BY <1>3, Zenon DEF RunQb
  <2>2. session' \in BOOLEAN
    BY <1>3 DEF RunQb
  <2>3. reqStep' \in HandlerSteps
    BY <1>3 DEF RunQb
  <2>4. QED  BY <1>3, <2>1, <2>2, <2>3 DEF RunQb
<1>4. CASE RunRelink \/ RunLinkdead \/ RunPublish \/ RunSync \/ RunRegister
  <2>1. ready' \in BOOLEAN
    BY <1>4, Zenon DEF RunRelink, RunLinkdead, RunPublish, RunSync, RunRegister
  <2>2. QED  BY <1>4, <2>1 DEF RunRelink, RunLinkdead, RunPublish, RunSync, RunRegister
<1>5. CASE RunQuit
  <2>1. closePosted' \in BOOLEAN
    BY <1>5, Zenon DEF RunQuit
  <2>2. reqStep' \in HandlerSteps
    BY <1>5 DEF RunQuit
  <2>3. QED  BY <1>5, <2>1, <2>2 DEF RunQuit
<1>6. CASE RequestAnswer
  BY <1>6 DEF RequestAnswer
<1>7. CASE RequestExpire
  <2>1. session' \in BOOLEAN
    BY <1>7, Zenon DEF RequestExpire
  <2>2. QED  BY <1>7, <2>1 DEF RequestExpire
<1>8. CASE SendBack
  <2>1. hand["response"][1].key \in Keys
    BY <1>8, Finished, HandFacts, ItemKeys DEF SendBack, Loops
  <2>2. answered' \in Seq(Keys)
    BY <1>8, <2>1 DEF SendBack
  <2>3. QED  BY <1>8, <2>2 DEF SendBack
<1>9. QED
  BY <1>1, <1>2, <1>3, <1>4, <1>5, <1>6, <1>7, <1>8 DEF RequestThread, ResponseThread

\* The main thread.
LEMMA MainTypes ==
    ASSUME PlainTypes, RefreshArrives \/ RefreshPosts \/ Close \/ StopConcert
    PROVE  PlainTypes'
<1> USE DEF PlainTypes, MainStates, loopVars, pollVars, mainVars, offlineVars, sessionVars,
            history
<1>1. CASE RefreshArrives \/ RefreshPosts
  BY <1>1, PipelineAssumption DEF RefreshArrives, RefreshPosts
<1>2. CASE Close
  <2>1. closePosted' \in BOOLEAN
    BY <1>2, Zenon DEF Close
  <2>2. mainPc' \in MainStates
    BY <1>2 DEF Close, AfterFarewell
  <2>3. QED  BY <1>2, <2>1, <2>2 DEF Close
<1>3. CASE GoOfflineBegin \/ GoOfflineEnd
  <2>1. ready' \in BOOLEAN
    BY <1>3, Zenon DEF GoOfflineBegin, GoOfflineEnd
  <2>2. QED  BY <1>3, <2>1 DEF GoOfflineBegin, GoOfflineEnd
<1>4. CASE GoOfflineMark
  <2>1. goOffline' \in BOOLEAN /\ timeToQuit' \in BOOLEAN
    BY <1>4, Zenon DEF GoOfflineMark
  <2>2. QED  BY <1>4, <2>1 DEF GoOfflineMark
<1>5. CASE GoOfflineTell \/ JoinLongPoll
  BY <1>5 DEF GoOfflineTell, JoinLongPoll
<1>6. CASE GoOfflineAgain
  <2>1. ready' \in BOOLEAN
    BY <1>6, Zenon DEF GoOfflineAgain
  <2>2. QED  BY <1>6, <2>1 DEF GoOfflineAgain
<1>7. CASE JoinRequestThread
  <2>1. session' \in BOOLEAN
    BY <1>7, Zenon DEF JoinRequestThread
  <2>2. QED  BY <1>7, <2>1 DEF JoinRequestThread
<1>8. CASE QuitRequestThread \/ QuitResponseThread \/ JoinResponseThread
  BY <1>8 DEF QuitRequestThread, QuitResponseThread, JoinResponseThread
<1>9. QED
  BY <1>1, <1>2, <1>3, <1>4, <1>5, <1>6, <1>7, <1>8 DEF StopConcert

\* The steps that leave the message loops alone.
OffLoops ==
    \/ PollLoop \/ PollWaitReady \/ PollGate \/ PollSend
    \/ PollIdle \/ PollOldSessionKey \/ PollCommand \/ PollFails
    \/ PollBackoff \/ PollNotify \/ PollExpire
    \/ RunPlain \/ RunQbOffline \/ RunQb
    \/ RunInfo \/ RunRelink \/ RunLinkdead \/ RunPublish
    \/ RunSync \/ RunRegister \/ RunBrowser \/ RunQuit
    \/ RefreshArrives \/ Close
    \/ GoOfflineBegin \/ GoOfflineMark \/ GoOfflineTell \/ GoOfflineEnd \/ JoinLongPoll
    \/ GoOfflineAgain \/ JoinRequestThread \/ JoinResponseThread
    \/ UNCHANGED vars

LEMMA OffLoopsSame == OffLoops => UNCHANGED loopVars
BY DEF OffLoops, PollLoop, PollWaitReady, PollGate, PollSend, PollIdle, PollOldSessionKey,
       PollCommand, PollFails, PollBackoff, PollNotify, PollExpire, RunPlain, RunQbOffline,
       RunQb, RunInfo, RunRelink, RunLinkdead, RunPublish, RunSync, RunRegister, RunBrowser,
       RunQuit, RefreshArrives, Close, GoOfflineBegin, GoOfflineMark, GoOfflineTell,
       GoOfflineEnd, JoinLongPoll, GoOfflineAgain, JoinRequestThread, JoinResponseThread,
       vars

\* The others post, take or finish.
LEMMA StepKinds ==
    [Next]_vars =>
      \/ OffLoops
      \/ PollDeliver \/ PollPostExpire \/ RefreshPosts
      \/ QuitRequestThread \/ QuitResponseThread
      \/ RequestIdle \/ ResponseIdle \/ RequestTake \/ ResponseTake
      \/ RequestQuit \/ ResponseQuit
      \/ RequestAnswer \/ RequestExpire \/ SendBack
BY DEF Next, LongPollThread, RequestThread, ResponseThread, StopConcert, OffLoops

\* What each of the messages posted is.
LEMMA PostedItem ==
    ASSUME LoopTypes, PlainTypes, PollFits
    PROVE  /\ PollDeliver => /\ pollMsg[1] \in Messages
                             /\ queue' = [queue EXCEPT !["request"] = Append(@, pollMsg[1])]
                             /\ UNCHANGED <<signal, loop, hand>>
           /\ PollPostExpire \/ RefreshPosts =>
                \E m \in Messages :
                  /\ m.key = 0
                  /\ queue' = [queue EXCEPT !["request"] = Append(@, m)]
                  /\ UNCHANGED <<signal, loop, hand>>
           /\ QuitRequestThread =>
                /\ queue' = [queue EXCEPT !["request"] = Append(@, Quit)]
                /\ UNCHANGED <<signal, loop, hand>>
           /\ QuitResponseThread =>
                /\ queue' = [queue EXCEPT !["response"] = Append(@, Quit)]
                /\ UNCHANGED <<signal, loop, hand>>
<1>1. PollDeliver => pollMsg[1] \in Messages
  BY HandFacts DEF PollDeliver, PollFits, PlainTypes
<1>2. PollPostExpire \/ RefreshPosts =>
        \E m \in Messages :
          /\ m.key = 0
          /\ queue' = [queue EXCEPT !["request"] = Append(@, m)]
          /\ UNCHANGED <<signal, loop, hand>>
  <2>1. [key |-> 0, kind |-> "expire"] \in Messages
    BY DEF Messages
  <2>2. [key |-> 0, kind |-> "versions"] \in Messages
    BY PipelineAssumption DEF Messages, Keys, AllKinds
  <2>3. [key |-> 0, kind |-> "expire"].key = 0 /\ [key |-> 0, kind |-> "versions"].key = 0
    OBVIOUS
  <2>4. CASE PollPostExpire
    BY <2>1, <2>3, <2>4 DEF PollPostExpire, ML!WaitAndPost
  <2>5. CASE RefreshPosts
    BY <2>2, <2>3, <2>5 DEF RefreshPosts, ML!WaitAndPost
  <2>6. QED  BY <2>4, <2>5
<1>3. QED
  BY <1>1, <1>2 DEF PollDeliver, QuitRequestThread, QuitResponseThread, ML!WaitAndPost,
                    ML!PostQuit

\* The reply goes to the response thread if it has a key.
LEMMA AnswerPosts ==
    ASSUME LoopTypes, RequestAnswer
    PROVE  LET m == hand["request"][1] IN
             /\ ML!Finish("request") /\ m \in Messages /\ hand["request"] = <<m>>
             /\ m.key = 0 => UNCHANGED queue
             /\ m.key # 0 => queue' = [queue EXCEPT !["response"] = Append(@, m)]
<1>1. ML!Finish("request")
  BY DEF RequestAnswer
<1>2. hand["request"][1] \in Messages /\ hand["request"] = <<hand["request"][1]>>
  BY <1>1, Finished, HandFacts DEF Loops
<1>3. QED  BY <1>1, <1>2 DEF RequestAnswer, ML!WaitAndPost

LEMMA LoopTypeStep ==
    ASSUME LoopTypes, PlainTypes, PollFits, [Next]_vars
    PROVE  LoopTypes'
<1> USE DEF Loops
<1>1. CASE OffLoops
  BY <1>1, OffLoopsSame, LoopSame
<1>2. CASE PollDeliver \/ PollPostExpire \/ RefreshPosts \/ QuitRequestThread
           \/ QuitResponseThread
  BY <1>2, PostedItem, PostTypes, ItemKeys
<1>3. CASE RequestIdle \/ ResponseIdle
  BY <1>3, IdleTypes DEF RequestIdle, ResponseIdle
<1>4. CASE RequestTake \/ ResponseTake
  BY <1>4, TakeTypes DEF RequestTake, ResponseTake
<1>5. CASE RequestQuit \/ ResponseQuit
  BY <1>5, TakeQuitTypes DEF RequestQuit, ResponseQuit
<1>6. CASE RequestAnswer
  <2>1. queue' \in [Loops -> Seq(Item)]
    BY <1>6, AnswerPosts, Posted, ItemKeys, LoopTypesMean
  <2>2. QED  BY <1>6, <2>1, AnswerPosts, FinishTypes
<1>7. CASE RequestExpire \/ SendBack
  <2>1. UNCHANGED queue
    BY <1>7 DEF RequestExpire, SendBack
  <2>2. QED  BY <1>7, <2>1, FinishTypes, LoopTypesMean DEF RequestExpire, SendBack
<1>8. QED  BY <1>1, <1>2, <1>3, <1>4, <1>5, <1>6, <1>7, StepKinds

LEMMA TypeStep ==
    ASSUME TypeOK, PollFits, [Next]_vars
    PROVE  TypeOK'
<1>1. LoopTypes /\ PlainTypes
  BY TypeMeans
<1>2. LoopTypes'
  BY <1>1, LoopTypeStep
<1>3. PlainTypes'
  <2>1. CASE UNCHANGED vars
    BY <1>1, <2>1 DEF vars, PlainTypes, pollVars, mainVars, offlineVars, sessionVars, history
  <2>2. QED  BY <1>1, <2>1, PollTypes, WorkTypes, MainTypes DEF Next
<1>4. QED  BY <1>2, <1>3, TypeMeans DEF TypeOK, LoopTypes, PlainTypes, Hands

-----------------------------------------------------------------------------
(* The order of the commands: a step moves a message to the next place on  *)
(* its way, adds or removes one without a key, or is a PollDeliver, which  *)
(* brings the next key, or a SendBack, which takes the first.  First, what *)
(* such steps do to four sequences of items.  Cat and One stand for \o and *)
(* <<m>>, which the provers would expand.                                  *)
Cat(s, t) == s \o t
One(m) == <<m>>
Way(a, b, c, d) == Cat(Cat(Cat(a, b), c), d)

LEMMA CatAssoc ==
    \A a, b, c \in Seq(Item) : Cat(Cat(a, b), c) = Cat(a, Cat(b, c))
BY ConcatAssociative DEF Cat

LEMMA CatTyped ==
    /\ \A a, b \in Seq(Item) : Cat(a, b) \in Seq(Item)
    /\ \A m \in Item : One(m) \in Seq(Item)
    /\ <<>> \in Seq(Item)
    /\ \A a \in Seq(Item) : Cat(a, <<>>) = a /\ Cat(<<>>, a) = a
    /\ \A a \in Seq(Item), m \in Item : Append(a, m) = Cat(a, One(m))
<1>1. \A a, b \in Seq(Item) : Cat(a, b) \in Seq(Item)
  BY ConcatProperties DEF Cat
<1>2. \A a \in Seq(Item) : Cat(a, <<>>) = a /\ Cat(<<>>, a) = a
  BY ConcatEmptySeq DEF Cat
<1>3. \A m \in Item : One(m) \in Seq(Item)
  BY DEF One
<1>4. \A a \in Seq(Item), m \in Item : Append(a, m) = Cat(a, One(m))
  BY AppendIsConcat DEF Cat, One
<1>5. QED  BY <1>1, <1>2, <1>3, <1>4

LEMMA WayTyped ==
    \A a, b, c, d \in Seq(Item) : Way(a, b, c, d) \in Seq(Item)
BY CatTyped DEF Way

\* KeylessItem, NextKey and FirstKey in these terms.
LEMMA KeylessCat ==
    ASSUME NEW s \in Seq(Item), NEW t \in Seq(Item), NEW m \in Item, m.key = 0,
           NEW lo \in Nat, NEW hi \in Nat
    PROVE  KeysInOrder(Cat(Cat(s, One(m)), t), lo, hi) <=> KeysInOrder(Cat(s, t), lo, hi)
BY KeylessItem, Zenon DEF Cat, One

LEMMA NextCat ==
    ASSUME NEW s \in Seq(Item), NEW m \in Item, NEW lo \in Nat, NEW hi \in Nat,
           lo <= hi + 1, m.key = hi + 1, KeysInOrder(s, lo, hi)
    PROVE  KeysInOrder(Cat(s, One(m)), lo, hi + 1)
BY NextKey, Zenon DEF Cat, One

LEMMA FirstCat ==
    ASSUME NEW s \in Seq(Item), NEW m \in Item, NEW lo \in Nat, NEW hi \in Nat,
           m.key # 0, KeysInOrder(Cat(One(m), s), lo, hi)
    PROVE  m.key = lo /\ lo <= hi /\ KeysInOrder(s, lo + 1, hi)
BY FirstKey, Zenon DEF Cat, One

LEMMA NoneUnderWay ==
    ASSUME NEW s, s = <<>>, NEW lo \in Nat, NEW hi \in Nat
    PROVE  KeysInOrder(s, lo, hi) <=> hi < lo
<1>1. DOMAIN s = {}
  OBVIOUS
<1>2. {s[i].key : i \in DOMAIN s} \ {0} = {}
  BY <1>1
<1>3. lo .. hi = {} <=> hi < lo
  <2>1. CASE hi < lo
    BY <2>1
  <2>2. CASE lo <= hi
    <3>1. lo \in lo .. hi
      BY <2>2
    <3>2. QED  BY <2>2, <3>1
  <2>3. QED  BY <2>1, <2>2
<1>4. QED  BY <1>1, <1>2, <1>3 DEF KeysInOrder

LEMMA HeadAndTail ==
    ASSUME NEW q \in Seq(Item), q # <<>>
    PROVE  /\ Head(q) \in Item /\ Tail(q) \in Seq(Item)
           /\ q = Cat(One(Head(q)), Tail(q))
<1>1. /\ Head(q) \in Item /\ Tail(q) \in Seq(Item)
      /\ Len(Tail(q)) = Len(q) - 1
      /\ \A i \in 1 .. Len(Tail(q)) : Tail(q)[i] = q[i + 1]
  BY HeadTailProperties
<1>2. Head(q) = q[1] /\ Len(q) \in Nat /\ Len(q) >= 1
  OBVIOUS
<1> DEFINE h == <<q[1]>>
           r == Tail(q)
           s == h \o r
<1>3. h \in Seq(Item) /\ Len(h) = 1 /\ h[1] = q[1]
  BY <1>1, <1>2
<1>4. r \in Seq(Item) /\ Len(r) = Len(q) - 1 /\ \A i \in 1 .. Len(r) : r[i] = q[i + 1]
  BY <1>1
<1> HIDE DEF h, r
<1>5. /\ s \in Seq(Item) /\ Len(s) = Len(h) + Len(r)
      /\ \A i \in 1 .. Len(h) + Len(r) : s[i] = IF i <= Len(h) THEN h[i] ELSE r[i - Len(h)]
  <2>1. h \in Seq(Item) /\ r \in Seq(Item)
    BY <1>3, <1>4
  <2>2. QED  BY <2>1, ConcatProperties, Zenon
<1> HIDE DEF s
<1>6. Len(s) = Len(q)
  BY <1>2, <1>3, <1>4, <1>5
<1>7. ASSUME NEW i \in 1 .. Len(s) PROVE s[i] = q[i]
  <2>1. CASE i = 1
    BY <1>2, <1>3, <1>4, <1>5, <1>6, <2>1
  <2>2. CASE i # 1
    <3>1. i \in 1 .. Len(h) + Len(r) /\ ~(i <= Len(h)) /\ i - 1 \in 1 .. Len(r)
      BY <1>2, <1>3, <1>4, <1>5, <1>6, <2>2
    <3>2. s[i] = r[i - 1]
      BY <1>3, <1>5, <3>1
    <3>3. r[i - 1] = q[(i - 1) + 1] /\ (i - 1) + 1 = i
      BY <1>4, <3>1
    <3>4. QED  BY <3>2, <3>3
  <2>3. QED  BY <2>1, <2>2
<1>8. s = q
  BY <1>5, <1>6, <1>7, SeqEqual
<1>9. QED  BY <1>1, <1>2, <1>8 DEF s, h, r, Cat, One

\* A message without a key is posted, taken away, or leaves the hand.
LEMMA KeylessWay ==
    ASSUME NEW a \in Seq(Item), NEW b \in Seq(Item), NEW c \in Seq(Item), NEW d \in Seq(Item),
           NEW m \in Item, m.key = 0, NEW lo \in Nat, NEW hi \in Nat
    PROVE  /\ KeysInOrder(Way(a, b, c, Cat(d, One(m))), lo, hi) <=>
                KeysInOrder(Way(a, b, c, d), lo, hi)
           /\ KeysInOrder(Way(a, Cat(b, One(m)), c, d), lo, hi) <=>
                KeysInOrder(Way(a, b, c, d), lo, hi)
           /\ KeysInOrder(Way(a, b, One(m), d), lo, hi) <=>
                KeysInOrder(Way(a, b, <<>>, d), lo, hi)
           /\ KeysInOrder(Way(a, b, <<>>, Cat(One(m), d)), lo, hi) <=>
                KeysInOrder(Way(a, b, <<>>, d), lo, hi)
           /\ KeysInOrder(Way(<<>>, Cat(One(m), b), c, d), lo, hi) <=>
                KeysInOrder(Way(<<>>, b, c, d), lo, hi)
<1> DEFINE ab == Cat(a, b)
           bc == Cat(b, c)
           cd == Cat(c, d)
           m1 == One(m)
<1>1. /\ ab \in Seq(Item) /\ bc \in Seq(Item) /\ cd \in Seq(Item) /\ m1 \in Seq(Item)
      /\ <<>> \in Seq(Item)
  BY CatTyped
<1>2. ASSUME NEW s \in Seq(Item), NEW t \in Seq(Item)
      PROVE  KeysInOrder(Cat(Cat(s, m1), t), lo, hi) <=> KeysInOrder(Cat(s, t), lo, hi)
  BY KeylessCat
<1>3. Way(a, b, c, d) \in Seq(Item)
  BY WayTyped
<1> HIDE DEF m1
<1>4. Way(a, b, c, Cat(d, m1)) = Cat(Cat(Way(a, b, c, d), m1), <<>>)
  <2>1. Cat(ab, c) \in Seq(Item)
    BY <1>1, CatTyped
  <2>2. Cat(Cat(ab, c), Cat(d, m1)) = Cat(Cat(Cat(ab, c), d), m1)
    BY <1>1, <2>1, CatAssoc
  <2>3. Cat(Cat(Way(a, b, c, d), m1), <<>>) = Cat(Way(a, b, c, d), m1)
    BY <1>1, <1>3, CatTyped
  <2>4. QED  BY <2>2, <2>3 DEF Way
<1>5. Cat(Way(a, b, c, d), <<>>) = Way(a, b, c, d)
  BY <1>3, CatTyped
<1>6. Way(a, Cat(b, m1), c, d) = Cat(Cat(ab, m1), cd) /\ Way(a, b, c, d) = Cat(ab, cd)
  <2>1. Cat(a, Cat(b, m1)) = Cat(ab, m1) /\ Cat(ab, m1) \in Seq(Item)
    BY <1>1, CatTyped, CatAssoc
  <2>2. Cat(Cat(Cat(ab, m1), c), d) = Cat(Cat(ab, m1), cd)
    BY <2>1, CatAssoc
  <2>3. Cat(Cat(ab, c), d) = Cat(ab, cd)
    BY <1>1, CatAssoc
  <2>4. QED  BY <2>1, <2>2, <2>3 DEF Way
<1>7. Way(a, b, m1, d) = Cat(Cat(ab, m1), d) /\ Way(a, b, <<>>, d) = Cat(ab, d)
  BY <1>1, CatTyped DEF Way
<1>8. Way(a, b, <<>>, Cat(m1, d)) = Cat(Cat(ab, m1), d)
  BY <1>1, CatTyped, CatAssoc DEF Way
<1>9. /\ Way(<<>>, Cat(m1, b), c, d) = Cat(Cat(<<>>, m1), Cat(bc, d))
      /\ Way(<<>>, b, c, d) = Cat(<<>>, Cat(bc, d))
  <2>1. Cat(Cat(m1, b), c) = Cat(m1, bc)
    BY <1>1, CatAssoc
  <2>2. Cat(Cat(m1, bc), d) = Cat(m1, Cat(bc, d))
    BY <1>1, CatAssoc
  <2>3. /\ Cat(<<>>, Cat(m1, b)) = Cat(m1, b) /\ Cat(<<>>, b) = b
        /\ Cat(<<>>, m1) = m1 /\ Cat(<<>>, Cat(bc, d)) = Cat(bc, d)
    BY <1>1, CatTyped
  <2>4. QED  BY <2>1, <2>2, <2>3 DEF Way
<1>10. Cat(bc, d) \in Seq(Item)
  BY <1>1, CatTyped
<1>11. KeysInOrder(Way(a, b, c, Cat(d, m1)), lo, hi) <=> KeysInOrder(Way(a, b, c, d), lo, hi)
  <2>1. KeysInOrder(Cat(Cat(Way(a, b, c, d), m1), <<>>), lo, hi) <=>
          KeysInOrder(Cat(Way(a, b, c, d), <<>>), lo, hi)
    BY <1>1, <1>2, <1>3, Zenon
  <2>2. QED  BY <2>1, <1>4, <1>5, Zenon
<1>12. KeysInOrder(Way(a, Cat(b, m1), c, d), lo, hi) <=> KeysInOrder(Way(a, b, c, d), lo, hi)
  <2>1. KeysInOrder(Cat(Cat(ab, m1), cd), lo, hi) <=> KeysInOrder(Cat(ab, cd), lo, hi)
    BY <1>1, <1>2, Zenon
  <2>2. QED  BY <2>1, <1>6, Zenon
<1>13. KeysInOrder(Cat(Cat(ab, m1), d), lo, hi) <=> KeysInOrder(Way(a, b, <<>>, d), lo, hi)
  <2>1. KeysInOrder(Cat(Cat(ab, m1), d), lo, hi) <=> KeysInOrder(Cat(ab, d), lo, hi)
    BY <1>1, <1>2, Zenon
  <2>2. QED  BY <2>1, <1>7, Zenon
<1>14. KeysInOrder(Way(<<>>, Cat(m1, b), c, d), lo, hi) <=>
         KeysInOrder(Way(<<>>, b, c, d), lo, hi)
  <2>1. KeysInOrder(Cat(Cat(<<>>, m1), Cat(bc, d)), lo, hi) <=>
          KeysInOrder(Cat(<<>>, Cat(bc, d)), lo, hi)
    BY <1>1, <1>2, <1>10, Zenon
  <2>2. QED  BY <2>1, <1>9, Zenon
<1>15. QED  BY <1>7, <1>8, <1>11, <1>12, <1>13, <1>14 DEF m1

\* A message moves on: it is taken by the request thread, handled and posted
\* as a reply, and taken by the response thread.
LEMMA MovingWay ==
    ASSUME NEW a \in Seq(Item), NEW b \in Seq(Item), NEW c \in Seq(Item), NEW d \in Seq(Item),
           NEW m \in Item
    PROVE  /\ Way(a, b, One(m), d) = Way(a, b, <<>>, Cat(One(m), d))
           /\ Way(a, Cat(b, One(m)), <<>>, d) = Way(a, b, One(m), d)
           /\ Way(One(m), b, c, d) = Way(<<>>, Cat(One(m), b), c, d)
           /\ Way(One(m), b, c, d) = Cat(One(m), Way(<<>>, b, c, d))
           /\ Way(a, b, c, Cat(d, One(m))) = Cat(Way(a, b, c, d), One(m))
<1> DEFINE m1 == One(m)
<1>1. m1 \in Seq(Item) /\ <<>> \in Seq(Item)
  BY CatTyped
<1> HIDE DEF m1
<1>2. Way(a, b, m1, d) = Way(a, b, <<>>, Cat(m1, d))
  <2>1. Cat(a, b) \in Seq(Item) /\ Cat(Cat(a, b), <<>>) = Cat(a, b)
    BY CatTyped
  <2>2. Cat(Cat(Cat(a, b), m1), d) = Cat(Cat(a, b), Cat(m1, d))
    BY <1>1, <2>1, CatAssoc
  <2>3. QED  BY <2>1, <2>2 DEF Way
<1>3. Way(a, Cat(b, m1), <<>>, d) = Way(a, b, m1, d)
  <2>1. Cat(a, Cat(b, m1)) = Cat(Cat(a, b), m1)
    BY <1>1, CatAssoc
  <2>2. Cat(b, m1) \in Seq(Item) /\ Cat(a, Cat(b, m1)) \in Seq(Item)
    BY <1>1, CatTyped
  <2>3. Cat(Cat(a, Cat(b, m1)), <<>>) = Cat(a, Cat(b, m1))
    BY <2>2, CatTyped
  <2>4. QED  BY <2>1, <2>3 DEF Way
<1>4. Way(m1, b, c, d) = Way(<<>>, Cat(m1, b), c, d)
  BY <1>1, CatTyped DEF Way
<1>5. Way(m1, b, c, d) = Cat(m1, Way(<<>>, b, c, d))
  <2>1. Cat(<<>>, b) = b /\ Cat(b, c) \in Seq(Item)
    BY CatTyped
  <2>2. Cat(Cat(Cat(m1, b), c), d) = Cat(m1, Cat(Cat(b, c), d))
    BY <1>1, <2>1, CatAssoc
  <2>3. QED  BY <2>1, <2>2 DEF Way
<1>6. Way(a, b, c, Cat(d, m1)) = Cat(Way(a, b, c, d), m1)
  <2>1. Cat(Cat(a, b), c) \in Seq(Item)
    BY CatTyped
  <2>2. QED  BY <1>1, <2>1, CatAssoc DEF Way
<1>7. QED  BY <1>2, <1>3, <1>4, <1>5, <1>6 DEF m1

LEMMA RequestTaken ==
    ASSUME NEW a \in Seq(Item), NEW b \in Seq(Item), NEW d \in Seq(Item), d # <<>>
    PROVE  Way(a, b, One(Head(d)), Tail(d)) = Way(a, b, <<>>, d)
<1>1. PICK m \in Item, r \in Seq(Item) : m = Head(d) /\ r = Tail(d) /\ d = Cat(One(m), r)
  BY HeadAndTail
<1>2. <<>> \in Seq(Item)
  BY CatTyped
<1>3. Way(a, b, One(m), r) = Way(a, b, <<>>, Cat(One(m), r))
  BY <1>2, MovingWay
<1>4. QED  BY <1>1, <1>3

LEMMA ReplyTaken ==
    ASSUME NEW b \in Seq(Item), NEW c \in Seq(Item), NEW d \in Seq(Item), b # <<>>
    PROVE  Way(One(Head(b)), Tail(b), c, d) = Way(<<>>, b, c, d)
<1>1. PICK m \in Item, r \in Seq(Item) : m = Head(b) /\ r = Tail(b) /\ b = Cat(One(m), r)
  BY HeadAndTail
<1>2. <<>> \in Seq(Item)
  BY CatTyped
<1>3. Way(One(m), r, c, d) = Way(<<>>, Cat(One(m), r), c, d)
  BY <1>2, MovingWay
<1>4. QED  BY <1>1, <1>3

\* The next key comes in, the first goes out.
LEMMA NextKeyIn ==
    ASSUME NEW a \in Seq(Item), NEW b \in Seq(Item), NEW c \in Seq(Item),
           NEW d \in Seq(Item), NEW m \in Item,
           NEW lo \in Nat, NEW hi \in Nat, lo <= hi + 1, m.key = hi + 1,
           KeysInOrder(Way(a, b, c, d), lo, hi)
    PROVE  KeysInOrder(Way(a, b, c, Cat(d, One(m))), lo, hi + 1)
<1>1. Way(a, b, c, Cat(d, One(m))) = Cat(Way(a, b, c, d), One(m))
  BY MovingWay
<1>2. Way(a, b, c, d) \in Seq(Item)
  BY WayTyped
<1>3. KeysInOrder(Cat(Way(a, b, c, d), One(m)), lo, hi + 1)
  BY <1>2, NextCat
<1>4. QED  BY <1>1, <1>3

LEMMA FirstKeyOut ==
    ASSUME NEW b \in Seq(Item), NEW c \in Seq(Item), NEW d \in Seq(Item),
           NEW m \in Item, m.key # 0,
           NEW lo \in Nat, NEW hi \in Nat, KeysInOrder(Way(One(m), b, c, d), lo, hi)
    PROVE  m.key = lo /\ lo <= hi /\ KeysInOrder(Way(<<>>, b, c, d), lo + 1, hi)
<1>1. <<>> \in Seq(Item) /\ Way(<<>>, b, c, d) \in Seq(Item)
  BY CatTyped, WayTyped
<1>2. Way(One(m), b, c, d) = Cat(One(m), Way(<<>>, b, c, d))
  BY <1>1, MovingWay
<1>3. QED  BY <1>1, <1>2, FirstCat

LEMMA UnderWayIs ==
    ASSUME LoopTypes
    PROVE  /\ hand["response"] \in Seq(Item) /\ queue["response"] \in Seq(Item)
           /\ hand["request"] \in Seq(Item) /\ queue["request"] \in Seq(Item)
           /\ UnderWay = Way(hand["response"], queue["response"],
                             hand["request"], queue["request"])
           /\ UnderWay' = Way(hand'["response"], queue'["response"],
                              hand'["request"], queue'["request"])
<1>1. /\ hand["response"] \in Seq(Item) /\ queue["response"] \in Seq(Item)
      /\ hand["request"] \in Seq(Item) /\ queue["request"] \in Seq(Item)
  BY LoopTypesMean, HandFacts DEF Loops
<1>2. QED  BY <1>1 DEF UnderWay, Way, Cat

\* The steps that neither deliver a command nor answer one.
LEMMA OrderKept ==
    ASSUME CommandsStayInOrder, UNCHANGED <<answered, accepted>>,
           NEW w, UnderWay' = w, KeysInOrder(w, Len(answered) + 1, accepted)
    PROVE  CommandsStayInOrder'
BY DEF CommandsStayInOrder

LEMMA OffLoopsHistory == OffLoops => UNCHANGED <<answered, accepted>>
BY DEF OffLoops, PollLoop, PollWaitReady, PollGate, PollSend, PollIdle, PollOldSessionKey,
       PollCommand, PollFails, PollBackoff, PollNotify, PollExpire, RunPlain, RunQbOffline,
       RunQb, RunInfo, RunRelink, RunLinkdead, RunPublish, RunSync, RunRegister, RunBrowser,
       RunQuit, RefreshArrives, Close, GoOfflineBegin, GoOfflineMark, GoOfflineTell,
       GoOfflineEnd, JoinLongPoll, GoOfflineAgain, JoinRequestThread, JoinResponseThread,
       vars, history

LEMMA OtherHistory ==
    \/ PollPostExpire \/ RefreshPosts \/ QuitRequestThread \/ QuitResponseThread
    \/ RequestIdle \/ ResponseIdle \/ RequestTake \/ ResponseTake
    \/ RequestQuit \/ ResponseQuit \/ RequestAnswer \/ RequestExpire
    => UNCHANGED <<answered, accepted>>
BY DEF PollPostExpire, RefreshPosts, QuitRequestThread, QuitResponseThread, RequestIdle,
       ResponseIdle, RequestTake, ResponseTake, RequestQuit, ResponseQuit, RequestAnswer,
       RequestExpire, history

LEMMA Bounds ==
    PlainTypes => /\ Len(answered) \in Nat /\ Len(answered) + 1 \in Nat /\ accepted \in Nat
                  /\ answered \in Seq(Keys)
BY PipelineAssumption DEF PlainTypes, Keys

\* A message without a key is posted.
LEMMA OrderOfPost ==
    ASSUME LoopTypes, PlainTypes, CommandsStayInOrder, UNCHANGED <<answered, accepted, hand>>,
           NEW t \in Loops, NEW m \in Item, m.key = 0,
           queue' = [queue EXCEPT ![t] = Append(@, m)]
    PROVE  CommandsStayInOrder'
<1> DEFINE a == hand["response"]
           b == queue["response"]
           c == hand["request"]
           d == queue["request"]
           lo == Len(answered) + 1
           hi == accepted
<1>1. /\ a \in Seq(Item) /\ b \in Seq(Item) /\ c \in Seq(Item) /\ d \in Seq(Item)
      /\ lo \in Nat /\ hi \in Nat
  BY UnderWayIs, Bounds
<1>2. KeysInOrder(Way(a, b, c, d), lo, hi)
  BY UnderWayIs DEF CommandsStayInOrder
<1>3. CASE t = "request"
  <2>1. UnderWay' = Way(a, b, c, Cat(d, One(m)))
    <3>1. queue'["request"] = Append(d, m) /\ queue'["response"] = b
      BY <1>3, Posted DEF Loops
    <3>2. Append(d, m) = Cat(d, One(m))
      BY <1>1, CatTyped
    <3>3. QED  BY <3>1, <3>2, UnderWayIs
  <2>2. KeysInOrder(Way(a, b, c, Cat(d, One(m))), lo, hi)
    BY <1>1, <1>2, KeylessWay
  <2>3. QED  BY <2>1, <2>2, OrderKept
<1>4. CASE t = "response"
  <2>1. UnderWay' = Way(a, Cat(b, One(m)), c, d)
    <3>1. queue'["response"] = Append(b, m) /\ queue'["request"] = d
      BY <1>4, Posted DEF Loops
    <3>2. Append(b, m) = Cat(b, One(m))
      BY <1>1, CatTyped
    <3>3. QED  BY <3>1, <3>2, UnderWayIs
  <2>2. KeysInOrder(Way(a, Cat(b, One(m)), c, d), lo, hi)
    BY <1>1, <1>2, KeylessWay
  <2>3. QED  BY <2>1, <2>2, OrderKept
<1>5. QED  BY <1>3, <1>4 DEF Loops

\* A message is taken.
LEMMA OrderOfTake ==
    ASSUME LoopTypes, PlainTypes, CommandsStayInOrder, UNCHANGED <<answered, accepted>>,
           NEW t \in Loops, ML!Take(t)
    PROVE  CommandsStayInOrder'
<1> DEFINE a == hand["response"]
           b == queue["response"]
           c == hand["request"]
           d == queue["request"]
<1>1. a \in Seq(Item) /\ b \in Seq(Item) /\ c \in Seq(Item) /\ d \in Seq(Item)
  BY UnderWayIs
<1>2. UnderWay = Way(a, b, c, d)
  BY UnderWayIs
<1>3. UnderWay' = UnderWay
  <2>1. CASE t = "request"
    <3>1. /\ d # <<>> /\ c = <<>>
          /\ UnderWay' = Way(a, b, One(Head(d)), Tail(d))
      BY <2>1, TakeTypes, UnderWayIs DEF Loops, One
    <3>2. QED  BY <1>1, <1>2, <3>1, RequestTaken
  <2>2. CASE t = "response"
    <3>1. /\ b # <<>> /\ a = <<>>
          /\ UnderWay' = Way(One(Head(b)), Tail(b), c, d)
      BY <2>2, TakeTypes, UnderWayIs DEF Loops, One
    <3>2. QED  BY <1>1, <1>2, <3>1, ReplyTaken
  <2>3. QED  BY <2>1, <2>2 DEF Loops
<1>4. QED  BY <1>3, OrderKept DEF CommandsStayInOrder

\* WM_QUIT is taken.
LEMMA OrderOfQuit ==
    ASSUME LoopTypes, PlainTypes, CommandsStayInOrder, UNCHANGED <<answered, accepted>>,
           NEW t \in Loops, ML!TakeQuit(t)
    PROVE  CommandsStayInOrder'
<1> DEFINE a == hand["response"]
           b == queue["response"]
           c == hand["request"]
           d == queue["request"]
           lo == Len(answered) + 1
           hi == accepted
<1>1. /\ a \in Seq(Item) /\ b \in Seq(Item) /\ c \in Seq(Item) /\ d \in Seq(Item)
      /\ lo \in Nat /\ hi \in Nat /\ Quit \in Item /\ Quit.key = 0
  BY UnderWayIs, Bounds, ItemKeys
<1>2. KeysInOrder(Way(a, b, c, d), lo, hi)
  BY UnderWayIs DEF CommandsStayInOrder
<1>3. CASE t = "request"
  <2>1. /\ d # <<>> /\ c = <<>> /\ Head(d) = Quit
        /\ UnderWay' = Way(a, b, <<>>, Tail(d))
    BY <1>3, TakeQuitTypes, UnderWayIs DEF Loops
  <2>2. Tail(d) \in Seq(Item) /\ d = Cat(One(Quit), Tail(d))
    BY <1>1, <2>1, HeadAndTail
  <2>3. KeysInOrder(Way(a, b, <<>>, Cat(One(Quit), Tail(d))), lo, hi)
    BY <1>2, <2>1, <2>2
  <2>4. KeysInOrder(Way(a, b, <<>>, Tail(d)), lo, hi)
    BY <1>1, <2>2, <2>3, KeylessWay
  <2>5. QED  BY <2>1, <2>4, OrderKept
<1>4. CASE t = "response"
  <2>1. /\ b # <<>> /\ a = <<>> /\ Head(b) = Quit
        /\ UnderWay' = Way(<<>>, Tail(b), c, d)
    BY <1>4, TakeQuitTypes, UnderWayIs DEF Loops
  <2>2. Tail(b) \in Seq(Item) /\ b = Cat(One(Quit), Tail(b))
    BY <1>1, <2>1, HeadAndTail
  <2>3. KeysInOrder(Way(<<>>, Cat(One(Quit), Tail(b)), c, d), lo, hi)
    BY <1>2, <2>1, <2>2
  <2>4. KeysInOrder(Way(<<>>, Tail(b), c, d), lo, hi)
    BY <1>1, <2>2, <2>3, KeylessWay
  <2>5. QED  BY <2>1, <2>4, OrderKept
<1>5. QED  BY <1>3, <1>4 DEF Loops


\* A message is through: without a key it goes, or it goes on as a reply.
LEMMA OrderOfHandled ==
    ASSUME LoopTypes, PlainTypes, CommandsStayInOrder, UNCHANGED <<answered, accepted>>,
           ML!Finish("request"), NEW m \in Messages, hand["request"] = <<m>>,
           \/ m.key = 0 /\ UNCHANGED queue
           \/ queue' = [queue EXCEPT !["response"] = Append(@, m)]
    PROVE  CommandsStayInOrder'
<1> DEFINE a == hand["response"]
           b == queue["response"]
           d == queue["request"]
           lo == Len(answered) + 1
           hi == accepted
<1>1. /\ a \in Seq(Item) /\ b \in Seq(Item) /\ <<>> \in Seq(Item) /\ d \in Seq(Item)
      /\ lo \in Nat /\ hi \in Nat /\ m \in Item
  BY UnderWayIs, Bounds, ItemKeys, CatTyped
<1>2. UnderWay = Way(a, b, One(m), d)
  BY UnderWayIs DEF One
<1>3. KeysInOrder(Way(a, b, One(m), d), lo, hi)
  BY <1>2 DEF CommandsStayInOrder
<1>4. hand'["request"] = <<>> /\ hand'["response"] = a
  BY Finished DEF Loops
<1>5. CASE m.key = 0 /\ UNCHANGED queue
  <2>1. UnderWay' = Way(a, b, <<>>, d)
    BY <1>4, <1>5, UnderWayIs
  <2>2. KeysInOrder(Way(a, b, <<>>, d), lo, hi)
    BY <1>1, <1>3, <1>5, KeylessWay
  <2>3. QED  BY <2>1, <2>2, OrderKept
<1>6. CASE queue' = [queue EXCEPT !["response"] = Append(@, m)]
  <2>1. UnderWay' = Way(a, Cat(b, One(m)), <<>>, d)
    <3>1. queue'["response"] = Append(b, m) /\ queue'["request"] = d
      BY <1>1, <1>6, Posted DEF Loops
    <3>2. Append(b, m) = Cat(b, One(m))
      BY <1>1, CatTyped
    <3>3. QED  BY <1>4, <3>1, <3>2, UnderWayIs
  <2>2. KeysInOrder(Way(a, Cat(b, One(m)), <<>>, d), lo, hi)
    BY <1>1, <1>3, MovingWay
  <2>3. QED  BY <2>1, <2>2, OrderKept
<1>7. QED  BY <1>5, <1>6

\* A reply is sent: its key is the next.
LEMMA OrderOfReply ==
    ASSUME LoopTypes, PlainTypes, RepliesKeyed, CommandsStayInOrder, SendBack
    PROVE  CommandsStayInOrder'
<1> DEFINE b == queue["response"]
           c == hand["request"]
           d == queue["request"]
           n == Len(answered)
<1>1. /\ b \in Seq(Item) /\ c \in Seq(Item) /\ d \in Seq(Item) /\ <<>> \in Seq(Item)
      /\ n \in Nat /\ n + 1 \in Nat /\ accepted \in Nat /\ answered \in Seq(Keys)
  BY UnderWayIs, Bounds, CatTyped
<1>2. /\ ML!Finish("response") /\ UNCHANGED <<queue, accepted>>
      /\ answered' = Append(answered, hand["response"][1].key)
  BY DEF SendBack
<1>3. PICK m \in Messages : /\ hand["response"][1] = m /\ hand["response"] = <<m>>
                            /\ m.key # 0
                            /\ hand'["response"] = <<>> /\ hand'["request"] = c
  BY <1>2, Finished, HandFacts DEF Loops, RepliesKeyed
<1>4. m.key \in Keys /\ m \in Item
  BY ItemKeys
<1>5. KeysInOrder(Way(One(m), b, c, d), n + 1, accepted) /\ m.key # 0
  BY <1>3, UnderWayIs DEF CommandsStayInOrder, One
<1>6. UnderWay' = Way(<<>>, b, c, d)
  BY <1>2, <1>3, UnderWayIs
<1>7. /\ m.key = n + 1 /\ n + 1 <= accepted
      /\ KeysInOrder(Way(<<>>, b, c, d), (n + 1) + 1, accepted)
  BY <1>1, <1>4, <1>5, FirstKeyOut
<1>8. Len(answered') = n + 1
  BY <1>1, <1>2, <1>3, <1>4
<1>9. answered' = [i \in 1 .. Len(answered') |-> i]
  <2>1. answered = [i \in 1 .. n |-> i]
    BY DEF CommandsStayInOrder
  <2>2. /\ DOMAIN answered' = 1 .. n + 1 /\ answered'[n + 1] = n + 1
        /\ \A i \in 1 .. n : answered'[i] = answered[i]
        /\ answered' = [i \in 1 .. n + 1 |-> answered'[i]]
    BY <1>1, <1>2, <1>3, <1>4, <1>7
  <2>3. \A i \in 1 .. n + 1 : answered'[i] = i
    BY <1>1, <2>1, <2>2
  <2>4. QED  BY <1>8, <2>2, <2>3
<1>10. QED  BY <1>2, <1>6, <1>7, <1>8, <1>9 DEF CommandsStayInOrder

\* The long-poll thread delivers a command, or a message of its own.
LEMMA OrderOfDelivery ==
    ASSUME LoopTypes, PlainTypes, PollFits, CommandsStayInOrder, PollDeliver
    PROVE  CommandsStayInOrder'
<1> DEFINE a == hand["response"]
           b == queue["response"]
           c == hand["request"]
           d == queue["request"]
           m == pollMsg[1]
           lo == Len(answered) + 1
<1>1. /\ a \in Seq(Item) /\ b \in Seq(Item) /\ c \in Seq(Item) /\ d \in Seq(Item)
      /\ lo \in Nat /\ accepted \in Nat /\ Len(answered) \in Nat
  BY UnderWayIs, Bounds
<1>2. /\ m \in Messages /\ m \in Item /\ m.key \in {0, accepted + 1}
      /\ queue' = [queue EXCEPT !["request"] = Append(@, m)]
      /\ UNCHANGED <<hand, answered>>
      /\ accepted' = accepted + (IF m.key = 0 THEN 0 ELSE 1)
  BY PostedItem, ItemKeys DEF PollDeliver, PollFits
<1>3. CASE m.key = 0
  <2>1. accepted' = accepted
    BY <1>1, <1>2, <1>3
  <2>2. QED  BY <1>2, <1>3, <2>1, OrderOfPost DEF Loops
<1>4. CASE m.key # 0
  <2>1. m.key = accepted + 1 /\ accepted' = accepted + 1
    BY <1>1, <1>2, <1>4
  <2>2. UnderWay' = Way(a, b, c, queue'["request"]) /\ queue'["request"] = Cat(d, One(m))
    <3>1. queue'["request"] = Append(d, m) /\ queue'["response"] = b
      BY <1>2, Posted DEF Loops
    <3>2. Append(d, m) = Cat(d, One(m))
      BY <1>1, <1>2, CatTyped
    <3>3. QED  BY <1>2, <3>1, <3>2, UnderWayIs
  <2>3. KeysInOrder(Way(a, b, c, d), lo, accepted)
    BY UnderWayIs DEF CommandsStayInOrder
  <2>4. lo <= accepted + 1
    BY <1>1 DEF CommandsStayInOrder
  <2>5. KeysInOrder(Way(a, b, c, queue'["request"]), lo, accepted + 1)
    BY <1>1, <1>2, <2>1, <2>2, <2>3, <2>4, NextKeyIn
  <2>6. KeysInOrder(UnderWay', Len(answered') + 1, accepted')
    BY <1>2, <2>1, <2>2, <2>5
  <2>7. answered' = [i \in 1 .. Len(answered') |-> i] /\ Len(answered') <= accepted'
    BY <1>1, <1>2, <2>1 DEF CommandsStayInOrder
  <2>8. QED  BY <2>6, <2>7 DEF CommandsStayInOrder
<1>5. QED  BY <1>3, <1>4

LEMMA OrderStep ==
    ASSUME LoopTypes, PlainTypes, PollFits, RepliesKeyed, CommandsStayInOrder, [Next]_vars
    PROVE  CommandsStayInOrder'
<1> USE DEF Loops
<1>1. CASE OffLoops
  <2>1. UNCHANGED <<queue, hand, answered, accepted>>
    BY <1>1, OffLoopsSame, OffLoopsHistory DEF loopVars
  <2>2. QED  BY <2>1 DEF CommandsStayInOrder, UnderWay
<1>2. CASE PollDeliver
  BY <1>2, OrderOfDelivery
<1>3. CASE PollPostExpire \/ RefreshPosts
  <2>1. PICK m \in Messages : /\ m.key = 0 /\ UNCHANGED hand
                              /\ queue' = [queue EXCEPT !["request"] = Append(@, m)]
    BY <1>3, PostedItem
  <2>2. m \in Item /\ UNCHANGED <<answered, accepted>>
    BY <1>3, ItemKeys, OtherHistory
  <2>3. QED  BY <2>1, <2>2, OrderOfPost
<1>4. CASE QuitRequestThread \/ QuitResponseThread
  <2>1. PICK t \in Loops : queue' = [queue EXCEPT ![t] = Append(@, Quit)] /\ UNCHANGED hand
    BY <1>4, PostedItem
  <2>2. Quit \in Item /\ Quit.key = 0 /\ UNCHANGED <<answered, accepted>>
    BY <1>4, ItemKeys, OtherHistory
  <2>3. QED  BY <2>1, <2>2, OrderOfPost
<1>5. CASE RequestIdle \/ ResponseIdle
  <2>1. UNCHANGED <<queue, hand, answered, accepted>>
    BY <1>5, OtherHistory DEF RequestIdle, ResponseIdle, ML!Idle
  <2>2. QED  BY <2>1 DEF CommandsStayInOrder, UnderWay
<1>6. CASE RequestTake \/ ResponseTake
  BY <1>6, OtherHistory, OrderOfTake DEF RequestTake, ResponseTake
<1>7. CASE RequestQuit \/ ResponseQuit
  BY <1>7, OtherHistory, OrderOfQuit DEF RequestQuit, ResponseQuit
<1>8. CASE RequestAnswer
  BY <1>8, OtherHistory, AnswerPosts, OrderOfHandled
<1>9. CASE RequestExpire
  <2>1. ML!Finish("request") /\ UNCHANGED queue /\ hand["request"][1].kind = "expire"
    BY <1>9 DEF RequestExpire, Handling
  <2>2. hand["request"][1] \in Messages /\ hand["request"] = <<hand["request"][1]>>
    BY <2>1, Finished, HandFacts
  <2>3. hand["request"][1].key = 0
    BY <2>1, <2>2 DEF Messages, AllKinds
  <2>4. QED  BY <1>9, <2>1, <2>2, <2>3, OtherHistory, OrderOfHandled
<1>10. CASE SendBack
  BY <1>10, OrderOfReply
<1>11. QED
  BY <1>1, <1>2, <1>3, <1>4, <1>5, <1>6, <1>7, <1>8, <1>9, <1>10, StepKinds

-----------------------------------------------------------------------------
(* What posting and taking do to a queue.                                  *)
LEMMA QueuePosted ==
    ASSUME NEW q \in Seq(Item), NEW m \in Item
    PROVE  /\ Append(q, m) # <<>>
           /\ NoQuit(q) /\ m # Quit => NoQuit(Append(q, m)) /\ QuitLast(Append(q, m))
           /\ NoQuit(q) => QuitLast(Append(q, m))
           /\ Keyed(q) /\ (m.key = 0 => m = Quit) => Keyed(Append(q, m))
<1> DEFINE r == Append(q, m)
<1>1. /\ Len(r) = Len(q) + 1 /\ Len(q) \in Nat /\ r[Len(q) + 1] = m
      /\ \A i \in 1 .. Len(q) : r[i] = q[i]
      /\ r # <<>>
  OBVIOUS
<1> HIDE DEF r
<1>2. ASSUME NEW i \in 1 .. Len(r)
      PROVE  (i = Len(r) /\ r[i] = m) \/ (i \in 1 .. Len(q) /\ r[i] = q[i])
  <2>1. i = Len(q) + 1 \/ i \in 1 .. Len(q)
    BY <1>1
  <2>2. QED  BY <1>1, <2>1
<1>3. NoQuit(q) /\ m # Quit => NoQuit(r) /\ QuitLast(r)
  BY <1>2 DEF NoQuit, QuitLast
<1>4. NoQuit(q) => QuitLast(r)
  BY <1>2 DEF NoQuit, QuitLast
<1>5. Keyed(q) /\ (m.key = 0 => m = Quit) => Keyed(r)
  BY <1>2 DEF Keyed
<1>6. QED  BY <1>1, <1>3, <1>4, <1>5 DEF r

LEMMA QueueTaken ==
    ASSUME NEW q \in Seq(Item), q # <<>>
    PROVE  /\ NoQuit(q) => NoQuit(Tail(q))
           /\ QuitLast(q) => QuitLast(Tail(q))
           /\ QuitLast(q) /\ Head(q) = Quit => Tail(q) = <<>>
           /\ NoQuit(q) => Head(q) # Quit
           /\ Keyed(q) => Keyed(Tail(q)) /\ (Head(q).key = 0 => Head(q) = Quit)
<1> DEFINE r == Tail(q)
<1>1. /\ Len(r) = Len(q) - 1 /\ Len(q) \in Nat \ {0} /\ Head(q) = q[1]
      /\ r \in Seq(Item) /\ Len(r) \in Nat
  OBVIOUS
<1>2. \A i \in 1 .. Len(r) : r[i] = q[i + 1]
  BY HeadTailProperties
<1> HIDE DEF r
<1>3. \A i \in 1 .. Len(r) : i + 1 \in 1 .. Len(q) /\ (i = Len(r) <=> i + 1 = Len(q))
  BY <1>1
<1>4. 1 \in 1 .. Len(q)
  BY <1>1
<1>5. NoQuit(q) => NoQuit(r) /\ Head(q) # Quit
  BY <1>1, <1>2, <1>3, <1>4 DEF NoQuit
<1>6. QuitLast(q) => QuitLast(r)
  BY <1>2, <1>3 DEF QuitLast
<1>7. QuitLast(q) /\ Head(q) = Quit => r = <<>>
  BY <1>1, <1>4 DEF QuitLast
<1>8. Keyed(q) => Keyed(r) /\ (Head(q).key = 0 => Head(q) = Quit)
  BY <1>1, <1>2, <1>3, <1>4 DEF Keyed
<1>9. QED  BY <1>5, <1>6, <1>7, <1>8 DEF r

\* The main thread's way.
BeforeJoin == {"pump", "refresh", "unheard", "offline", "mark", "tell", "unblock", "joinPoll"}

LEMMA MainMoves ==
    ASSUME [Next]_vars
    PROVE  \/ mainPc' = mainPc
           \/ mainPc \in BeforeJoin /\ mainPc' \in BeforeJoin
           \/ JoinLongPoll \/ GoOfflineAgain
           \/ QuitRequestThread \/ JoinRequestThread
           \/ QuitResponseThread \/ JoinResponseThread
<1>1. CASE LongPollThread
  BY <1>1 DEF LongPollThread, PollLoop, PollWaitReady, PollGate, PollSend, PollIdle,
              PollOldSessionKey, PollCommand, PollFails, PollBackoff, PollNotify, PollDeliver,
              PollExpire, PollPostExpire, mainVars
<1>2. CASE RequestThread \/ ResponseThread
  BY <1>2 DEF RequestThread, ResponseThread, RequestIdle, RequestTake, RequestQuit, RunPlain,
              RunQbOffline, RunQb, RunInfo, RunRelink, RunLinkdead, RunPublish, RunSync,
              RunRegister, RunBrowser, RunQuit, RequestAnswer, RequestExpire,
              ResponseIdle, ResponseTake, SendBack, ResponseQuit, mainVars
<1>3. CASE RefreshArrives \/ RefreshPosts \/ Close
  BY <1>3 DEF RefreshArrives, RefreshPosts, Close, AfterFarewell, BeforeJoin
<1>4. CASE StopConcert
  BY <1>4 DEF StopConcert, GoOfflineBegin, GoOfflineMark, GoOfflineTell, GoOfflineEnd,
              BeforeJoin
<1>5. CASE UNCHANGED vars
  BY <1>5 DEF vars, mainVars
<1>6. QED  BY <1>1, <1>2, <1>3, <1>4, <1>5 DEF Next

\* The long-poll thread moves only before its end, the others leave it alone.
LEMMA PollMoves ==
    ASSUME [Next]_vars
    PROVE  \/ LongPollThread /\ pollPc # "exit" /\ mainPc' = mainPc
           \/ UNCHANGED <<pollPc, pollMsg, accepted>>
<1>1. CASE LongPollThread
  BY <1>1 DEF LongPollThread, PollLoop, PollWaitReady, PollGate, PollSend, PollIdle,
              PollOldSessionKey, PollCommand, PollFails, PollBackoff, PollNotify, PollDeliver,
              PollExpire, PollPostExpire, mainVars
<1>2. CASE RequestThread \/ ResponseThread
  BY <1>2 DEF RequestThread, ResponseThread, RequestIdle, RequestTake, RequestQuit, RunPlain,
              RunQbOffline, RunQb, RunInfo, RunRelink, RunLinkdead, RunPublish, RunSync,
              RunRegister, RunBrowser, RunQuit, RequestAnswer, RequestExpire,
              ResponseIdle, ResponseTake, SendBack, ResponseQuit, pollVars, history
<1>3. CASE RefreshArrives \/ RefreshPosts \/ Close
  BY <1>3 DEF RefreshArrives, RefreshPosts, Close, pollVars, history
<1>4. CASE StopConcert
  BY <1>4 DEF StopConcert, GoOfflineBegin, GoOfflineMark, GoOfflineTell, GoOfflineEnd,
              JoinLongPoll, GoOfflineAgain, QuitRequestThread, JoinRequestThread,
              QuitResponseThread, JoinResponseThread, pollVars, history
<1>5. CASE UNCHANGED vars
  BY <1>5 DEF vars, pollVars, history
<1>6. QED  BY <1>1, <1>2, <1>3, <1>4, <1>5 DEF Next

LEMMA PollFitsStep ==
    ASSUME PlainTypes, PollFits, [Next]_vars
    PROVE  PollFits'
<1>1. CASE LongPollThread /\ pollPc # "exit" /\ mainPc' = mainPc
  <2>1. mainPc' \notin AfterPoll
    BY <1>1 DEF PollFits
  <2>2. CASE PollLoop \/ PollWaitReady \/ PollGate \/ PollSend \/ PollOldSessionKey \/ PollFails
             \/ PollBackoff \/ PollExpire \/ PollPostExpire
    BY <2>1, <2>2 DEF PollFits, PollLoop, PollWaitReady, PollGate, PollSend,
                      PollOldSessionKey, PollFails, PollBackoff, PollExpire, PollPostExpire,
                      history
  <2>3. CASE PollIdle
    <3>1. pollMsg' # <<>> => pollMsg'[1].key = 0
      BY <2>3 DEF PollIdle
    <3>2. pollPc' = "notify" /\ accepted' = accepted
      BY <2>3 DEF PollIdle, history
    <3>3. QED  BY <2>1, <3>1, <3>2 DEF PollFits
  <2>4. CASE PollCommand
    <3>1. pollMsg' # <<>> /\ pollMsg'[1].key = accepted + 1
      BY <2>4 DEF PollCommand
    <3>2. pollPc' = "notify" /\ accepted' = accepted
      BY <2>4 DEF PollCommand, history
    <3>3. QED  BY <2>1, <3>1, <3>2 DEF PollFits
  <2>5. CASE PollNotify
    BY <2>1, <2>5 DEF PollFits, PollNotify, history
  <2>6. CASE PollDeliver
    BY <2>1, <2>6 DEF PollFits, PollDeliver
  <2>7. QED  BY <1>1, <2>2, <2>3, <2>4, <2>5, <2>6 DEF LongPollThread
<1>2. CASE UNCHANGED <<pollPc, pollMsg, accepted>>
  <2>1. mainPc' \in AfterPoll => pollPc = "exit"
    BY MainMoves DEF PollFits, BeforeJoin, AfterPoll, JoinLongPoll, GoOfflineAgain,
                     QuitRequestThread, JoinRequestThread, QuitResponseThread,
                     JoinResponseThread
  <2>2. QED  BY <1>2, <2>1 DEF PollFits
<1>3. QED  BY <1>1, <1>2, PollMoves

\* The last call is made on the way between the two joins.
LEMMA LastHeardMoves ==
    ASSUME [Next]_vars
    PROVE  \/ lastHeard' = lastHeard
           \/ PollSend /\ pollPc # "exit" /\ lastHeard' = "wait"
           \/ GoOfflineTell /\ lastHeard' = "offline"
           \/ lastHeard' = "linkdead" /\ mainPc' = mainPc
           \/ GoOfflineAgain
<1>1. CASE LongPollThread
  BY <1>1 DEF LongPollThread, PollLoop, PollWaitReady, PollGate, PollSend, PollIdle,
              PollOldSessionKey, PollCommand, PollFails, PollBackoff, PollNotify, PollDeliver,
              PollExpire, PollPostExpire, history
<1>2. CASE RunLinkdead
  BY <1>2 DEF RunLinkdead, mainVars
<1>3. CASE (RequestThread /\ ~RunLinkdead) \/ ResponseThread
  BY <1>3 DEF RequestThread, ResponseThread, RequestIdle, RequestTake, RequestQuit, RunPlain,
              RunQbOffline, RunQb, RunInfo, RunRelink, RunPublish, RunSync,
              RunRegister, RunBrowser, RunQuit, RequestAnswer, RequestExpire,
              ResponseIdle, ResponseTake, SendBack, ResponseQuit, history
<1>4. CASE RefreshArrives \/ RefreshPosts \/ Close
  BY <1>4 DEF RefreshArrives, RefreshPosts, Close, history
<1>5. CASE StopConcert
  BY <1>5 DEF StopConcert, GoOfflineBegin, GoOfflineMark, GoOfflineTell, GoOfflineEnd,
              JoinLongPoll, QuitRequestThread, JoinRequestThread,
              QuitResponseThread, JoinResponseThread, history
<1>6. CASE UNCHANGED vars
  BY <1>6 DEF vars, history
<1>7. QED  BY <1>1, <1>2, <1>4, <1>5, <1>6, <1>3 DEF Next

LEMMA LastCallStep ==
    ASSUME LastCall, PollFits, [Next]_vars
    PROVE  LastCall'
<1>1. CASE GoOfflineAgain
  BY <1>1 DEF GoOfflineAgain, LastCall
<1>2. CASE GoOfflineTell \/ (PollSend /\ pollPc # "exit")
  <2>1. CASE GoOfflineTell
    BY <2>1 DEF GoOfflineTell, LastCall, AfterPoll
  <2>2. CASE PollSend /\ pollPc # "exit"
    BY <2>2 DEF PollSend, PollFits, LastCall, mainVars
  <2>3. QED  BY <1>2, <2>1, <2>2
<1>3. CASE lastHeard' = "linkdead"
  BY <1>3 DEF LastCall
<1>4. CASE lastHeard' = lastHeard /\ ~GoOfflineAgain
  BY <1>4, MainMoves DEF LastCall, AfterPoll, BeforeJoin, JoinLongPoll,
                         QuitRequestThread, JoinRequestThread, QuitResponseThread,
                         JoinResponseThread
<1>5. QED  BY <1>1, <1>2, <1>3, <1>4, LastHeardMoves


\* How a step changes the queue of the request thread: it leaves it alone,
\* takes its head, posts a message before StopConcert is through with the
\* long-poll thread, or posts WM_QUIT.
RequestLeft == queue'["request"] = queue["request"]
               /\ (loop'["request"] = "exit" <=> loop["request"] = "exit")

RequestPosted == /\ mainPc \in BeforeJoin
                 /\ \E m \in Messages : queue'["request"] = Append(queue["request"], m)
                 /\ loop'["request"] = loop["request"]

LEMMA RequestQueueSteps ==
    ASSUME LoopTypes, PlainTypes, PollFits, [Next]_vars
    PROVE  \/ RequestLeft \/ RequestPosted
           \/ ML!Take("request") /\ mainPc' = mainPc
           \/ ML!TakeQuit("request") /\ mainPc' = mainPc
           \/ QuitRequestThread
<1> USE DEF Loops
<1>1. CASE OffLoops
  BY <1>1, OffLoopsSame DEF loopVars, RequestLeft
<1>2. CASE PollDeliver \/ PollPostExpire \/ RefreshPosts
  <2>1. PICK m \in Messages : /\ queue' = [queue EXCEPT !["request"] = Append(@, m)]
                              /\ UNCHANGED loop
    BY <1>2, PostedItem
  <2>2. mainPc \in BeforeJoin
    BY <1>2 DEF PollDeliver, PollPostExpire, RefreshPosts, PollFits, PlainTypes, MainStates,
                BeforeJoin, AfterPoll
  <2>3. queue'["request"] = Append(queue["request"], m)
    BY <2>1, Posted, ItemKeys
  <2>4. QED  BY <2>1, <2>2, <2>3 DEF RequestPosted
<1>3. CASE QuitRequestThread
  BY <1>3
<1>4. CASE QuitResponseThread
  BY <1>4, PostedItem, Posted, ItemKeys DEF RequestLeft
<1>5. CASE RequestIdle \/ ResponseIdle
  BY <1>5, IdleTypes DEF RequestIdle, ResponseIdle, RequestLeft
<1>6. CASE RequestTake \/ RequestQuit
  BY <1>6 DEF RequestTake, RequestQuit, mainVars
<1>7. CASE ResponseTake
  BY <1>7, TakeTypes DEF ResponseTake, RequestLeft
<1>8. CASE ResponseQuit
  BY <1>8, TakeQuitTypes DEF ResponseQuit, RequestLeft
<1>9. CASE RequestAnswer
  <2>1. queue'["request"] = queue["request"]
    BY <1>9, AnswerPosts, Posted, ItemKeys
  <2>2. QED  BY <1>9, <2>1, AnswerPosts, Finished DEF RequestLeft
<1>10. CASE RequestExpire \/ SendBack
  <2>1. UNCHANGED queue
    BY <1>10 DEF RequestExpire, SendBack
  <2>2. QED  BY <1>10, <2>1, Finished DEF RequestExpire, SendBack, RequestLeft
<1>11. QED
  BY <1>1, <1>2, <1>3, <1>4, <1>5, <1>6, <1>7, <1>8, <1>9, <1>10, StepKinds

\* The queue of the response thread: likewise, but what is posted has a key,
\* and the request thread is there to post it.
ResponseLeft == queue'["response"] = queue["response"]
                /\ (loop'["response"] = "exit" <=> loop["response"] = "exit")

ResponsePosted == /\ loop["request"] = "busy" /\ mainPc' = mainPc
                  /\ \E m \in Messages : /\ m.key # 0
                                         /\ queue'["response"] = Append(queue["response"], m)
                  /\ loop'["response"] = loop["response"]

LEMMA ResponseQueueSteps ==
    ASSUME LoopTypes, PlainTypes, PollFits, [Next]_vars
    PROVE  \/ ResponseLeft /\ (hand'["response"] = hand["response"] \/ hand'["response"] = <<>>)
           \/ ResponsePosted /\ hand'["response"] = hand["response"]
           \/ ML!Take("response") /\ mainPc' = mainPc
           \/ ML!TakeQuit("response") /\ mainPc' = mainPc
           \/ QuitResponseThread
<1> USE DEF Loops
<1>1. CASE OffLoops
  BY <1>1, OffLoopsSame DEF loopVars, ResponseLeft
<1>2. CASE PollDeliver \/ PollPostExpire \/ RefreshPosts \/ QuitRequestThread
  BY <1>2, PostedItem, Posted, ItemKeys DEF ResponseLeft
<1>3. CASE QuitResponseThread
  BY <1>3
<1>4. CASE RequestIdle \/ ResponseIdle
  BY <1>4, IdleTypes DEF RequestIdle, ResponseIdle, ResponseLeft
<1>5. CASE ResponseTake \/ ResponseQuit
  BY <1>5 DEF ResponseTake, ResponseQuit, mainVars
<1>6. CASE RequestTake
  BY <1>6, TakeTypes DEF RequestTake, ResponseLeft
<1>7. CASE RequestQuit
  BY <1>7, TakeQuitTypes DEF RequestQuit, ResponseLeft
<1>8. CASE RequestAnswer
  <2> DEFINE m == hand["request"][1]
  <2>1. /\ loop["request"] = "busy" /\ loop'["response"] = loop["response"]
        /\ hand'["response"] = hand["response"] /\ m \in Messages
    BY <1>8, AnswerPosts, Finished
  <2>2. mainPc' = mainPc
    BY <1>8 DEF RequestAnswer, mainVars
  <2>3. CASE m.key = 0
    BY <1>8, <2>1, <2>3, AnswerPosts DEF ResponseLeft
  <2>4. CASE m.key # 0
    <3>1. queue'["response"] = Append(queue["response"], m)
      BY <1>8, <2>4, AnswerPosts, Posted, ItemKeys
    <3>2. QED  BY <2>1, <2>2, <2>4, <3>1 DEF ResponsePosted
  <2>5. QED  BY <2>3, <2>4
<1>9. CASE RequestExpire \/ SendBack
  <2>1. UNCHANGED queue
    BY <1>9 DEF RequestExpire, SendBack
  <2>2. QED  BY <1>9, <2>1, Finished DEF RequestExpire, SendBack, ResponseLeft
<1>10. QED
  BY <1>1, <1>2, <1>3, <1>4, <1>5, <1>6, <1>7, <1>8, <1>9, StepKinds

\* The QuickBooks session is opened only by the request thread.
LEMMA SessionMoves ==
    ASSUME [Next]_vars
    PROVE  session' = session \/ session' = FALSE \/ loop["request"] = "busy"
<1>1. CASE LongPollThread
  BY <1>1 DEF LongPollThread, PollLoop, PollWaitReady, PollGate, PollSend, PollIdle,
              PollOldSessionKey, PollCommand, PollFails, PollBackoff, PollNotify, PollDeliver,
              PollExpire, PollPostExpire, sessionVars
<1>2. CASE RequestThread \/ ResponseThread
  BY <1>2 DEF RequestThread, ResponseThread, RequestIdle, RequestTake, RequestQuit, RunPlain,
              RunQbOffline, RunQb, RunInfo, RunRelink, RunLinkdead, RunPublish, RunSync,
              RunRegister, RunBrowser, RunQuit, RequestAnswer, RequestExpire, Handling,
              ResponseIdle, ResponseTake, SendBack, ResponseQuit, sessionVars
<1>3. CASE RefreshArrives \/ RefreshPosts \/ Close
  BY <1>3 DEF RefreshArrives, RefreshPosts, Close, sessionVars
<1>4. CASE StopConcert
  BY <1>4 DEF StopConcert, GoOfflineBegin, GoOfflineMark, GoOfflineTell, GoOfflineEnd,
              JoinLongPoll, GoOfflineAgain, QuitRequestThread, JoinRequestThread,
              QuitResponseThread, JoinResponseThread, sessionVars
<1>5. CASE UNCHANGED vars
  BY <1>5 DEF vars, sessionVars
<1>6. QED  BY <1>1, <1>2, <1>3, <1>4, <1>5 DEF Next

\* Where the main thread's steps lead.
LEMMA MainLeads ==
    ASSUME [Next]_vars
    PROVE  \/ mainPc' = mainPc
           \/ mainPc \in BeforeJoin /\ mainPc' \in BeforeJoin
           \/ mainPc = "joinPoll" /\ mainPc' = "offlineAgain"
           \/ mainPc = "offlineAgain" /\ mainPc' = "quitRequest"
           \/ mainPc = "quitRequest" /\ mainPc' = "joinRequest"
           \/ /\ mainPc = "joinRequest" /\ mainPc' = "quitResponse"
              /\ loop["request"] = "exit" /\ ~session'
           \/ mainPc = "quitResponse" /\ mainPc' = "joinResponse"
           \/ /\ mainPc = "joinResponse" /\ mainPc' = "done"
              /\ loop["response"] = "exit"
BY MainMoves DEF JoinLongPoll, GoOfflineAgain, QuitRequestThread, JoinRequestThread,
                 QuitResponseThread, JoinResponseThread

LEMMA RequestEndsStep ==
    ASSUME LoopTypes, PlainTypes, PollFits, RequestEnds, [Next]_vars
    PROVE  RequestEnds'
<1> DEFINE q == queue["request"]
           e == loop["request"]
<1>1. /\ QuitLast(q) /\ (mainPc = "joinRequest" \/ NoQuit(q))
      /\ e = "exit" => q = <<>> /\ mainPc \in AfterRequest \union {"joinRequest"}
      /\ mainPc \in AfterRequest => e = "exit" /\ ~session
  BY DEF RequestEnds, QuitFits
<1>2. q \in Seq(Item)
  BY UnderWayIs
<1>3. NoQuit(<<>>) /\ QuitLast(<<>>)
  BY DEF NoQuit, QuitLast
<1>4. ASSUME QuitLast(queue'["request"]),
             mainPc' = "joinRequest" \/ NoQuit(queue'["request"]),
             loop'["request"] = "exit" =>
               queue'["request"] = <<>> /\ mainPc' \in AfterRequest \union {"joinRequest"},
             mainPc' \in AfterRequest => loop'["request"] = "exit" /\ ~session'
      PROVE  RequestEnds'
  BY <1>4 DEF RequestEnds, QuitFits
<1>5. CASE RequestLeft
  <2>1. queue'["request"] = q /\ (loop'["request"] = "exit" <=> e = "exit")
    BY <1>5 DEF RequestLeft
  <2>2. mainPc' \in AfterRequest => e = "exit" /\ ~session'
    BY <1>1, MainLeads, SessionMoves DEF AfterRequest, BeforeJoin
  <2>3. e = "exit" => mainPc' \in AfterRequest \union {"joinRequest"}
    BY <1>1, MainLeads DEF AfterRequest, BeforeJoin
  <2>4. mainPc' = "joinRequest" \/ NoQuit(q)
    BY <1>1, <1>3, MainLeads DEF BeforeJoin
  <2>5. QED  BY <1>1, <1>4, <2>1, <2>2, <2>3, <2>4
<1>6. CASE RequestPosted
  <2>1. PICK m \in Messages : queue'["request"] = Append(q, m)
    BY <1>6 DEF RequestPosted
  <2>2. mainPc \in BeforeJoin /\ loop'["request"] = e
    BY <1>6 DEF RequestPosted
  <2>3. mainPc' \notin AfterRequest \union {"joinRequest"}
    BY <2>2, MainLeads DEF AfterRequest, BeforeJoin
  <2>4. NoQuit(q) /\ e # "exit"
    BY <1>1, <2>2 DEF AfterRequest, BeforeJoin
  <2>5. QuitLast(queue'["request"]) /\ NoQuit(queue'["request"])
    BY <1>2, <2>1, <2>4, ItemKeys, QueuePosted
  <2>6. QED  BY <1>4, <2>2, <2>3, <2>4, <2>5
<1>7. CASE ML!Take("request") /\ mainPc' = mainPc
  <2>1. /\ q # <<>> /\ queue'["request"] = Tail(q)
        /\ e # "exit" /\ loop'["request"] = "busy"
    BY <1>7, TakeTypes DEF Loops
  <2>2. QuitLast(queue'["request"]) /\ (mainPc' = "joinRequest" \/ NoQuit(queue'["request"]))
    BY <1>1, <1>2, <1>7, <2>1, QueueTaken
  <2>3. mainPc' \notin AfterRequest
    BY <1>1, <1>7, <2>1
  <2>4. QED  BY <1>4, <2>1, <2>2, <2>3
<1>8. CASE ML!TakeQuit("request") /\ mainPc' = mainPc
  <2>1. /\ q # <<>> /\ queue'["request"] = Tail(q) /\ Head(q) = Quit
        /\ e # "exit" /\ loop'["request"] = "exit"
    BY <1>8, TakeQuitTypes DEF Loops
  <2>2. ~NoQuit(q) /\ Tail(q) = <<>>
    BY <1>1, <1>2, <2>1, QueueTaken
  <2>3. mainPc' = "joinRequest" /\ mainPc' \notin AfterRequest
    BY <1>1, <1>8, <2>2 DEF AfterRequest
  <2>4. QED  BY <1>3, <1>4, <2>1, <2>2, <2>3
<1>9. CASE QuitRequestThread
  <2>1. queue'["request"] = Append(q, Quit) /\ loop'["request"] = e
    BY <1>9, PostedItem, Posted, ItemKeys DEF Loops
  <2>2. mainPc = "quitRequest" /\ mainPc' = "joinRequest"
    BY <1>9 DEF QuitRequestThread
  <2>3. NoQuit(q) /\ e # "exit"
    BY <1>1, <2>2 DEF AfterRequest
  <2>4. QuitLast(queue'["request"])
    BY <1>2, <2>1, <2>3, ItemKeys, QueuePosted
  <2>5. QED  BY <1>4, <2>1, <2>2, <2>3, <2>4 DEF AfterRequest
<1>10. QED  BY <1>5, <1>6, <1>7, <1>8, <1>9, RequestQueueSteps

LEMMA ResponseEndsStep ==
    ASSUME LoopTypes, PlainTypes, PollFits, RequestEnds, ResponseEnds, [Next]_vars
    PROVE  ResponseEnds'
<1> DEFINE q == queue["response"]
           e == loop["response"]
<1>1. /\ QuitLast(q) /\ (mainPc = "joinResponse" \/ NoQuit(q))
      /\ e = "exit" => q = <<>> /\ mainPc \in {"joinResponse", "done"}
      /\ mainPc = "done" => e = "exit"
  BY DEF ResponseEnds, QuitFits
<1>2. q \in Seq(Item)
  BY UnderWayIs
<1>3. NoQuit(<<>>) /\ QuitLast(<<>>)
  BY DEF NoQuit, QuitLast
<1>4. ASSUME QuitLast(queue'["response"]),
             mainPc' = "joinResponse" \/ NoQuit(queue'["response"]),
             loop'["response"] = "exit" =>
               queue'["response"] = <<>> /\ mainPc' \in {"joinResponse", "done"},
             mainPc' = "done" => loop'["response"] = "exit"
      PROVE  ResponseEnds'
  BY <1>4 DEF ResponseEnds, QuitFits
<1>5. CASE ResponseLeft
  <2>1. queue'["response"] = q /\ (loop'["response"] = "exit" <=> e = "exit")
    BY <1>5 DEF ResponseLeft
  <2>2. mainPc' = "done" => e = "exit"
    BY <1>1, MainLeads DEF BeforeJoin
  <2>3. e = "exit" => mainPc' \in {"joinResponse", "done"}
    BY <1>1, MainLeads DEF BeforeJoin
  <2>4. mainPc' = "joinResponse" \/ NoQuit(q)
    BY <1>1, <1>3, MainLeads DEF BeforeJoin
  <2>5. QED  BY <1>1, <1>4, <2>1, <2>2, <2>3, <2>4
<1>6. CASE ResponsePosted
  <2>1. PICK m \in Messages : queue'["response"] = Append(q, m)
    BY <1>6 DEF ResponsePosted
  <2>2. loop["request"] = "busy" /\ loop'["response"] = e /\ mainPc' = mainPc
    BY <1>6 DEF ResponsePosted
  <2>3. mainPc' \notin {"joinResponse", "done"}
    BY <2>2 DEF RequestEnds, AfterRequest
  <2>4. NoQuit(q) /\ e # "exit"
    BY <1>1, <2>2, <2>3
  <2>5. QuitLast(queue'["response"]) /\ NoQuit(queue'["response"])
    BY <1>2, <2>1, <2>4, ItemKeys, QueuePosted
  <2>6. QED  BY <1>4, <2>2, <2>3, <2>4, <2>5
<1>7. CASE ML!Take("response") /\ mainPc' = mainPc
  <2>1. /\ q # <<>> /\ queue'["response"] = Tail(q)
        /\ e # "exit" /\ loop'["response"] = "busy"
    BY <1>7, TakeTypes DEF Loops
  <2>2. QuitLast(queue'["response"]) /\ (mainPc' = "joinResponse" \/ NoQuit(queue'["response"]))
    BY <1>1, <1>2, <1>7, <2>1, QueueTaken
  <2>3. mainPc' # "done"
    BY <1>1, <1>7, <2>1
  <2>4. QED  BY <1>4, <2>1, <2>2, <2>3
<1>8. CASE ML!TakeQuit("response") /\ mainPc' = mainPc
  <2>1. /\ q # <<>> /\ queue'["response"] = Tail(q) /\ Head(q) = Quit
        /\ e # "exit" /\ loop'["response"] = "exit"
    BY <1>8, TakeQuitTypes DEF Loops
  <2>2. ~NoQuit(q) /\ Tail(q) = <<>>
    BY <1>1, <1>2, <2>1, QueueTaken
  <2>3. mainPc' = "joinResponse"
    BY <1>1, <1>8, <2>2
  <2>4. QED  BY <1>3, <1>4, <2>1, <2>2, <2>3
<1>9. CASE QuitResponseThread
  <2>1. queue'["response"] = Append(q, Quit) /\ loop'["response"] = e
    BY <1>9, PostedItem, Posted, ItemKeys DEF Loops
  <2>2. mainPc = "quitResponse" /\ mainPc' = "joinResponse"
    BY <1>9 DEF QuitResponseThread
  <2>3. NoQuit(q) /\ e # "exit"
    BY <1>1, <2>2
  <2>4. QuitLast(queue'["response"])
    BY <1>2, <2>1, <2>3, ItemKeys, QueuePosted
  <2>5. QED  BY <1>4, <2>1, <2>2, <2>3, <2>4
<1>10. QED  BY <1>5, <1>6, <1>7, <1>8, <1>9, ResponseQueueSteps

LEMMA RepliesKeyedStep ==
    ASSUME LoopTypes, PlainTypes, PollFits, RepliesKeyed, [Next]_vars
    PROVE  RepliesKeyed'
<1> DEFINE q == queue["response"]
           h == hand["response"]
<1>1. Keyed(q) /\ (h # <<>> => h[1].key # 0) /\ q \in Seq(Item)
  BY UnderWayIs DEF RepliesKeyed
<1>2. ASSUME Keyed(queue'["response"]),
             hand'["response"] # <<>> => hand'["response"][1].key # 0
      PROVE  RepliesKeyed'
  BY <1>2 DEF RepliesKeyed
<1>3. CASE ResponseLeft /\ (hand'["response"] = h \/ hand'["response"] = <<>>)
  BY <1>1, <1>2, <1>3 DEF ResponseLeft
<1>4. CASE ResponsePosted /\ hand'["response"] = h
  <2>1. PICK m \in Messages : m.key # 0 /\ queue'["response"] = Append(q, m)
    BY <1>4 DEF ResponsePosted
  <2>2. Keyed(queue'["response"])
    BY <1>1, <2>1, ItemKeys, QueuePosted
  <2>3. QED  BY <1>1, <1>2, <1>4, <2>2
<1>5. CASE ML!Take("response")
  <2>1. /\ q # <<>> /\ queue'["response"] = Tail(q)
        /\ hand'["response"] = <<Head(q)>> /\ Head(q) \in Messages
    BY <1>5, TakeTypes DEF Loops
  <2>2. Keyed(queue'["response"]) /\ Head(q).key # 0
    BY <1>1, <2>1, ItemKeys, QueueTaken
  <2>3. hand'["response"][1].key # 0
    BY <2>1, <2>2
  <2>4. QED  BY <1>2, <2>2, <2>3
<1>6. CASE ML!TakeQuit("response")
  <2>1. q # <<>> /\ queue'["response"] = Tail(q) /\ hand'["response"] = h
    BY <1>6, TakeQuitTypes DEF Loops
  <2>2. Keyed(queue'["response"])
    BY <1>1, <2>1, QueueTaken
  <2>3. QED  BY <1>1, <1>2, <2>1, <2>2
<1>7. CASE QuitResponseThread
  <2>1. queue'["response"] = Append(q, Quit) /\ hand'["response"] = h
    BY <1>7, PostedItem, Posted, ItemKeys DEF Loops
  <2>2. Keyed(queue'["response"])
    BY <1>1, <2>1, ItemKeys, QueuePosted
  <2>3. QED  BY <1>1, <1>2, <2>1, <2>2
<1>8. QED  BY <1>3, <1>4, <1>5, <1>6, <1>7, ResponseQueueSteps

-----------------------------------------------------------------------------
(* The theorems.                                                           *)
LEMMA InitHolds == Init => IInv
<1> SUFFICES ASSUME Init PROVE IInv
  OBVIOUS
<1>1. /\ queue = [t \in Loops |-> <<>>] /\ signal = [t \in Loops |-> TRUE]
      /\ loop = [t \in Loops |-> "blocked"] /\ hand = [t \in Loops |-> <<>>]
  BY DEF Init, ML!LoopInit, Loops
<1>2. LoopTypes
  <2>1. queue \in [Loops -> Seq(Item)] /\ hand \in [Loops -> Hands]
    BY <1>1, CatTyped DEF Hands
  <2>2. signal \in [Loops -> BOOLEAN]
    BY <1>1, Zenon
  <2>3. loop \in [Loops -> ML!LoopStates]
    BY <1>1 DEF ML!LoopStates
  <2>4. \A t \in Loops : loop[t] = "busy" <=> hand[t] # <<>>
    BY <1>1
  <2>5. QED  BY <2>1, <2>2, <2>3, <2>4, LoopTypesMean
<1>3. PlainTypes
  <2>1. /\ closePosted \in BOOLEAN /\ goOffline \in BOOLEAN /\ timeToQuit \in BOOLEAN
        /\ ready \in BOOLEAN /\ session \in BOOLEAN /\ processedQB \in BOOLEAN
    BY Zenon DEF Init
  <2>2. QED
    BY <2>1, PipelineAssumption DEF Init, PlainTypes, HandlerSteps, PollStates, Hands,
                                    MainStates, Keys
<1>4. /\ queue["request"] = <<>> /\ queue["response"] = <<>>
      /\ hand["request"] = <<>> /\ hand["response"] = <<>>
      /\ loop["request"] = "blocked" /\ loop["response"] = "blocked"
  BY <1>1 DEF Loops
<1>5. Control
  BY <1>4 DEF Control, PollFits, RequestEnds, ResponseEnds, RepliesKeyed, LastCall, QuitFits,
              QuitLast, NoQuit, Keyed, Init, AfterPoll, AfterRequest
<1>6. CommandsStayInOrder
  <2>1. UnderWay = <<>>
    BY <1>4, CatTyped DEF UnderWay, Cat
  <2>2. answered = <<>> /\ Len(answered) = 0 /\ accepted = 0
    BY DEF Init
  <2>3. KeysInOrder(UnderWay, 0 + 1, 0)
    BY <2>1, NoneUnderWay
  <2>4. answered = [i \in 1 .. Len(answered) |-> i]
    BY <2>2
  <2>5. QED  BY <2>2, <2>3, <2>4 DEF CommandsStayInOrder
<1>7. QED  BY <1>2, <1>3, <1>5, <1>6, TypeMeans DEF IInv

LEMMA StepHolds == IInv /\ [Next]_vars => IInv'
<1> SUFFICES ASSUME IInv, [Next]_vars PROVE IInv'
  OBVIOUS
<1>1. /\ TypeOK /\ LoopTypes /\ PlainTypes /\ PollFits /\ RequestEnds /\ ResponseEnds
      /\ RepliesKeyed /\ LastCall /\ CommandsStayInOrder
  BY TypeMeans DEF IInv, Control
<1>2. TypeOK'
  BY <1>1, TypeStep
<1>3. PollFits' /\ LastCall'
  BY <1>1, PollFitsStep, LastCallStep
<1>4. RequestEnds' /\ ResponseEnds'
  BY <1>1, RequestEndsStep, ResponseEndsStep
<1>5. RepliesKeyed'
  BY <1>1, RepliesKeyedStep
<1>6. CommandsStayInOrder'
  BY <1>1, OrderStep
<1>7. QED  BY <1>2, <1>3, <1>4, <1>5, <1>6 DEF IInv, Control

(* The inductive invariant holds of every behaviour of the core's threads. *)
THEOREM CoreInductive == Spec => []IInv
<1>1. Init /\ [][Next]_vars => []IInv
  BY InitHolds, StepHolds, PTL
<1>2. QED  BY <1>1, PTL DEF Spec

(* Every variable of the core's threads keeps its type: in particular at   *)
(* most one message is in each thread's hand, exactly while it is busy.    *)
THEOREM CoreTypeCorrect == Spec => []TypeOK
<1>1. IInv => TypeOK
  BY DEF IInv
<1>2. QED  BY <1>1, CoreInductive, PTL

(* No command is lost, answered twice or overtaken between the long poll   *)
(* and the response thread, for any number of commands and refreshes.      *)
THEOREM InOrder == Spec => []CommandsStayInOrder
<1>1. IInv => CommandsStayInOrder
  BY DEF IInv
<1>2. QED  BY <1>1, CoreInductive, PTL

(* When both loops have ended nothing is under way, so all is answered.     *)
LEMMA AllAnswered ==
    ASSUME IInv, loop["request"] = "exit", loop["response"] = "exit"
    PROVE  Len(answered) = accepted /\ answered = [i \in 1 .. accepted |-> i]
<1>1. LoopTypes /\ PlainTypes /\ RequestEnds /\ ResponseEnds /\ CommandsStayInOrder
  BY TypeMeans DEF IInv, Control
<1>2. queue["request"] = <<>> /\ queue["response"] = <<>>
  BY <1>1 DEF RequestEnds, ResponseEnds
<1>3. hand["request"] = <<>> /\ hand["response"] = <<>>
  BY <1>1, LoopTypesMean DEF Loops
<1>4. UnderWay = <<>>
  BY <1>2, <1>3, CatTyped DEF UnderWay, Cat
<1>5. Len(answered) \in Nat /\ Len(answered) + 1 \in Nat /\ accepted \in Nat
  BY <1>1, Bounds
<1>6. accepted < Len(answered) + 1
  <2>1. KeysInOrder(UnderWay, Len(answered) + 1, accepted)
    BY <1>1 DEF CommandsStayInOrder
  <2>2. QED  BY <1>4, <1>5, <2>1, NoneUnderWay
<1>7. Len(answered) <= accepted /\ answered = [i \in 1 .. Len(answered) |-> i]
  BY <1>1 DEF CommandsStayInOrder
<1>8. Len(answered) = accepted
  <2>1. Len(answered) <= accepted
    BY <1>7
  <2>2. QED  BY <1>5, <1>6, <2>1
<1>9. QED  BY <1>7, <1>8

(* When StopConcert returns, every command accepted has been answered and  *)
(* the QuickBooks session is closed.                                       *)
THEOREM NothingLeft == Spec => []NothingLeftBehind
<1>1. IInv => NothingLeftBehind
  <2> SUFFICES ASSUME IInv, mainPc = "done"
               PROVE  answered = [i \in 1 .. accepted |-> i] /\ ~session
    BY DEF NothingLeftBehind
  <2>1. loop["request"] = "exit" /\ loop["response"] = "exit" /\ ~session
    BY DEF IInv, Control, RequestEnds, ResponseEnds, AfterRequest
  <2>2. QED  BY <2>1, AllAnswered
<1>2. QED  BY <1>1, CoreInductive, PTL

(* After the second offline call the server hears of no more polls.        *)
THEOREM LastWord == Spec => LastWordIsOffline
<1>1. IInv /\ [Next]_vars =>
        [(mainPc \in AfterPoll \ {"offlineAgain"}) => lastHeard' # "wait"]_vars
  <2> SUFFICES ASSUME IInv, [Next]_vars, mainPc \in AfterPoll \ {"offlineAgain"}
               PROVE  lastHeard' # "wait"
    OBVIOUS
  <2>1. pollPc = "exit" /\ lastHeard # "wait"
    BY DEF IInv, Control, LastCall, PollFits
  <2>2. GoOfflineAgain => lastHeard' = "offlineAgain"
    BY DEF GoOfflineAgain
  <2>3. QED  BY <2>1, <2>2, LastHeardMoves
<1>2. QED  BY <1>1, CoreInductive, PTL DEF Spec, LastWordIsOffline

-----------------------------------------------------------------------------
(* The refinement of CommandService: one lemma for the steps that take a   *)
(* command, for those that answer one, and for those that do neither.      *)
LEMMA ServiceRests ==
    UNCHANGED <<accepted, answered, ServicePhase>> => UNCHANGED Service!serviceVars
BY DEF Service!serviceVars

LEMMA HistoryMoves ==
    ASSUME [Next]_vars
    PROVE  PollDeliver \/ SendBack \/ UNCHANGED <<accepted, answered>>
BY StepKinds, OffLoopsHistory, OtherHistory

\* Taking a command, which only the long-poll thread does.
LEMMA ServiceAccepts ==
    ASSUME IInv, PollDeliver
    PROVE  Service!Accept \/ UNCHANGED Service!serviceVars
<1>1. /\ pollPc = "deliver" /\ UNCHANGED <<mainPc, answered>>
      /\ accepted' = accepted + (IF pollMsg[1].key = 0 THEN 0 ELSE 1)
  BY DEF PollDeliver, mainVars
<1>2. accepted \in Nat
  BY TypeMeans, Bounds DEF IInv
<1>3. ServicePhase = "open" /\ UNCHANGED ServicePhase
  <2>1. mainPc \notin AfterPoll
    BY <1>1 DEF IInv, Control, PollFits
  <2>2. QED  BY <1>1, <2>1 DEF ServicePhase, AfterPoll
<1>4. CASE pollMsg[1].key = 0
  BY <1>1, <1>2, <1>3, <1>4, ServiceRests
<1>5. CASE pollMsg[1].key # 0
  BY <1>1, <1>2, <1>3, <1>5 DEF Service!Accept
<1>6. QED  BY <1>4, <1>5

\* Answering one: the reply in the response thread's hand is the oldest.
LEMMA ServiceAnswers ==
    ASSUME IInv, SendBack
    PROVE  Service!Answer
<1>1. /\ LoopTypes /\ PlainTypes /\ RepliesKeyed /\ ResponseEnds /\ CommandsStayInOrder
      /\ CommandsStayInOrder'
  <2>1. LoopTypes /\ PlainTypes /\ RepliesKeyed /\ ResponseEnds /\ CommandsStayInOrder
    BY TypeMeans DEF IInv, Control
  <2>2. QED  BY <2>1, OrderOfReply
<1>2. /\ ML!Finish("response") /\ UNCHANGED <<mainPc, accepted>>
      /\ answered' = Append(answered, hand["response"][1].key)
  BY DEF SendBack, mainVars
<1>3. hand["response"][1].key \in Keys
  BY <1>1, <1>2, Finished, HandFacts, ItemKeys DEF Loops
<1>4. /\ Len(answered) \in Nat /\ accepted \in Nat /\ answered \in Seq(Keys)
      /\ Len(answered') = Len(answered) + 1
      /\ answered'[Len(answered) + 1] = hand["response"][1].key
  BY <1>1, <1>2, <1>3, Bounds
<1>5. hand["response"][1].key = Len(answered) + 1 /\ Len(answered) < accepted
  BY <1>1, <1>2, <1>4 DEF CommandsStayInOrder
<1>6. ServicePhase # "stopped" /\ UNCHANGED ServicePhase
  <2>1. loop["response"] = "busy"
    BY <1>2 DEF ML!Finish
  <2>2. mainPc # "done"
    BY <1>1, <2>1 DEF ResponseEnds
  <2>3. QED  BY <1>2, <2>2 DEF ServicePhase
<1>7. QED  BY <1>2, <1>5, <1>6 DEF Service!Answer

\* Ending: the phases are passed in order, the last with nothing owed.
LEMMA ServiceEnds ==
    ASSUME IInv, [Next]_vars, UNCHANGED <<accepted, answered>>
    PROVE  Service!Drain \/ Service!Stop \/ UNCHANGED Service!serviceVars
<1>1. CASE mainPc = "joinPoll" /\ mainPc' = "offlineAgain"
  BY <1>1 DEF Service!Drain, ServicePhase, AfterPoll
<1>2. CASE mainPc = "joinResponse" /\ mainPc' = "done" /\ loop["response"] = "exit"
  <2>1. loop["request"] = "exit"
    BY <1>2 DEF IInv, Control, RequestEnds, AfterRequest
  <2>2. Len(answered) = accepted
    BY <1>2, <2>1, AllAnswered
  <2>3. QED  BY <1>2, <2>2 DEF Service!Stop, ServicePhase, AfterPoll
<1>3. CASE \/ mainPc' = mainPc
           \/ mainPc \in BeforeJoin /\ mainPc' \in BeforeJoin
           \/ mainPc = "offlineAgain" /\ mainPc' = "quitRequest"
           \/ mainPc = "quitRequest" /\ mainPc' = "joinRequest"
           \/ mainPc = "joinRequest" /\ mainPc' = "quitResponse"
           \/ mainPc = "quitResponse" /\ mainPc' = "joinResponse"
  <2>1. UNCHANGED ServicePhase
    BY <1>3 DEF ServicePhase, AfterPoll, BeforeJoin
  <2>2. QED  BY <2>1, ServiceRests
<1>4. QED  BY <1>1, <1>2, <1>3, MainLeads

(* The core's threads implement CommandService, for any number of commands *)
(* and refreshes: a command is taken only by the long-poll thread before   *)
(* its end, each is answered once and in order, and StopConcert returns    *)
(* only when no answer is owed.                                            *)
THEOREM ServiceKept == Spec => ServesCommands
<1>1. Init => Service!Init
  BY DEF Init, Service!Init, ServicePhase, AfterPoll
<1>2. IInv /\ [Next]_vars => [Service!Next]_Service!serviceVars
  BY HistoryMoves, ServiceAccepts, ServiceAnswers, ServiceEnds DEF Service!Next
<1>3. QED
  BY <1>1, <1>2, CoreInductive, PTL DEF Spec, ServesCommands, Service!Spec
=============================================================================
