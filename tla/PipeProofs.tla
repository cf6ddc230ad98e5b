------------------------------ MODULE PipeProofs ------------------------------
(***************************************************************************)
(* The pipe of Pipe for any processes, any size of the ring and any width   *)
(* of its counters: nobody sleeps beside data or room, the page is freed    *)
(* once, and the ring is the queue of ByteQueue.                            *)
(***************************************************************************)
EXTENDS Pipe, SequenceTheorems, TLAPS

-----------------------------------------------------------------------------
(* Remainders, which the installed provers know little about *)

LEMMA Division ==
  ASSUME NEW n \in Nat \ {0}, NEW a \in Int
  PROVE  /\ a % n \in 0..(n - 1) /\ a \div n \in Int
         /\ a = n * (a \div n) + (a % n)
OBVIOUS

\* Multiples of n are no closer to each other than n.
LEMMA Multiples ==
  ASSUME NEW n \in Nat \ {0}, NEW d \in Int, -n < n * d, n * d < n
  PROVE  d = 0
<1>1. CASE d >= 1
  <2>1. n * d = n + n * (d - 1) /\ n * (d - 1) >= 0
    BY <1>1
  <2>2. QED BY <2>1
<1>2. CASE d <= -1
  <2>1. n * d = n * (d + 1) - n /\ n * (d + 1) <= 0
    BY <1>2
  <2>2. QED BY <2>1
<1>3. QED BY <1>1, <1>2

\* The remainder is the one that a quotient leaves.
LEMMA Remainder ==
  ASSUME NEW n \in Nat \ {0}, NEW q \in Int, NEW r \in 0..(n - 1)
  PROVE  (n * q + r) % n = r
<1> DEFINE a == n * q + r
<1>1. a \in Int
  OBVIOUS
<1>2. /\ a % n \in 0..(n - 1) /\ a \div n \in Int
      /\ a = n * (a \div n) + (a % n)
  BY <1>1, Division
<1>3. n * (q - a \div n) = (a % n) - r
  BY <1>2
<1>4. q - a \div n = 0
  BY <1>2, <1>3, Multiples
<1>5. QED BY <1>2, <1>3, <1>4

\* Multiples of n can be left out, and remainders taken on the way.
LEMMA Shift ==
  ASSUME NEW n \in Nat \ {0}, NEW q \in Int, NEW x \in Int
  PROVE  (n * q + x) % n = x % n
<1>1. x % n \in 0..(n - 1) /\ x \div n \in Int /\ x = n * (x \div n) + (x % n)
  BY Division
<1>2. q + (x \div n) \in Int /\ n * q + x = n * (q + (x \div n)) + (x % n)
  BY <1>1
<1>3. QED BY <1>1, <1>2, Remainder, Zenon

LEMMA RemainderOfSum ==
  ASSUME NEW n \in Nat \ {0}, NEW a \in Int, NEW b \in Int
  PROVE  ((a % n) + b) % n = (a + b) % n
<1>1. a % n \in Int /\ a \div n \in Int /\ a = n * (a \div n) + (a % n)
  BY Division
<1>2. a + b = n * (a \div n) + ((a % n) + b) /\ (a % n) + b \in Int
  BY <1>1
<1>3. (n * (a \div n) + ((a % n) + b)) % n = ((a % n) + b) % n
  BY <1>1, <1>2, Shift, Zenon
<1>4. QED BY <1>2, <1>3, Zenon

LEMMA RemainderOfRemainder ==
  ASSUME NEW n \in Nat \ {0}, NEW m \in Nat \ {0}, m % n = 0, NEW a \in Int
  PROVE  (a % m) % n = a % n
<1>1. a % m \in Int /\ a \div m \in Int /\ a = m * (a \div m) + (a % m)
  BY Division
<1>2. m \div n \in Int /\ m = n * (m \div n)
  BY Division
<1>3. ASSUME NEW k \in Int, NEW q \in Int PROVE (n * k) * q = n * (k * q) /\ k * q \in Int
  OBVIOUS
<1>4. a = n * ((m \div n) * (a \div m)) + (a % m) /\ (m \div n) * (a \div m) \in Int
  BY <1>1, <1>2, <1>3, Zenon
<1>5. ASSUME NEW q \in Int, NEW x \in Int, a = n * q + x PROVE a % n = x % n
  BY <1>5, Shift, Zenon
<1>6. QED BY <1>1, <1>4, <1>5, Zenon

\* Numbers less than n apart have different remainders.
LEMMA Apart ==
  ASSUME NEW n \in Nat \ {0}, NEW a \in Int, NEW b \in Int, a % n = b % n, -n < a - b, a - b < n
  PROVE  a = b
<1>1. a \div n \in Int /\ b \div n \in Int /\ a = n * (a \div n) + (a % n) /\ b = n * (b \div n) + (b % n)
  BY Division
<1>2. ASSUME NEW x \in Int, NEW y \in Int, NEW r \in Int, a = n * x + r, b = n * y + r PROVE a = b
  <2>1. a - b = n * (x - y) /\ x - y \in Int
    BY <1>2
  <2>2. x - y = 0
    BY <2>1, Multiples
  <2>3. QED BY <1>2, <2>2
<1>3. a % n \in Int
  BY Division
<1>4. QED BY <1>1, <1>2, <1>3, Zenon

-----------------------------------------------------------------------------
(* The counters *)

LEMMA Sizes ==
  /\ PIPESIZE \in Nat \ {0} /\ UINT \in Nat \ {0} /\ UINT % PIPESIZE = 0 /\ PIPESIZE < UINT
  /\ MAXN \in Nat \ {0}
BY PipeAssumption

LEMMA MinOfTwo ==
  ASSUME NEW a \in Int, NEW b \in Int
  PROVE  Min({a, b}) = IF a <= b THEN a ELSE b
BY DEF Min

\* The remainder of what is already one.
LEMMA Small ==
  ASSUME NEW n \in Nat \ {0}, NEW a \in 0..(n - 1)
  PROVE  a % n = a
<1>1. n * 0 + a = a
  OBVIOUS
<1>2. QED BY <1>1, Remainder

\* The counters are equal exactly if the ring is empty (pipe-empty).
LEMMA EmptyRing ==
  ASSUME nread \in 0..(UINT - 1), nwrite \in 0..(UINT - 1)
  PROVE  Used \in 0..(UINT - 1) /\ (Used = 0 <=> nread = nwrite)
<1>1. nwrite - nread \in Int /\ 0 \in 0..(UINT - 1)
  BY Sizes
<1>2. Used \in 0..(UINT - 1)
  BY <1>1, Sizes, Division DEF Used
<1>3. 0 % UINT = 0
  BY <1>1, Sizes, Small
<1>4. nread = nwrite => Used = 0
  BY <1>3 DEF Used
<1>5. Used = 0 => nwrite - nread = 0
  BY <1>1, <1>3, Sizes, Apart DEF Used
<1>6. QED BY <1>2, <1>4, <1>5

\* k bytes more in the ring, counted with wrap-around.
LEMMA MoreUsed ==
  ASSUME nread \in 0..(UINT - 1), nwrite \in 0..(UINT - 1), NEW k \in Nat, Used + k < UINT
  PROVE  /\ (nwrite + k) % UINT \in 0..(UINT - 1)
         /\ (((nwrite + k) % UINT) - nread) % UINT = Used + k
<1>1. Used \in 0..(UINT - 1) /\ nwrite + k \in Int /\ -nread \in Int /\ nwrite - nread \in Int /\ k \in Int
  BY EmptyRing
<1>2. (((nwrite + k) % UINT) + (-nread)) % UINT = ((nwrite + k) + (-nread)) % UINT
  BY <1>1, Sizes, RemainderOfSum, Zenon
<1>3. (nwrite + k) % UINT \in 0..(UINT - 1)
  BY <1>1, Sizes, Division
<1>4. ((nwrite + k) % UINT) + (-nread) = ((nwrite + k) % UINT) - nread
  BY <1>3
<1>5. (nwrite + k) + (-nread) = (nwrite - nread) + k
  OBVIOUS
<1>6. (((nwrite - nread) % UINT) + k) % UINT = ((nwrite - nread) + k) % UINT
  BY <1>1, Sizes, RemainderOfSum, Zenon
<1>7. (((nwrite - nread) % UINT) + k) % UINT = Used + k
  BY <1>1, Sizes, Small DEF Used
<1>8. QED BY <1>2, <1>3, <1>4, <1>5, <1>6, <1>7

\* k bytes less.
LEMMA LessUsed ==
  ASSUME nread \in 0..(UINT - 1), nwrite \in 0..(UINT - 1), NEW k \in Nat, k <= Used
  PROVE  /\ (nread + k) % UINT \in 0..(UINT - 1)
         /\ (nwrite - ((nread + k) % UINT)) % UINT = Used - k
<1> DEFINE a == nread + k
<1>1. Used \in 0..(UINT - 1) /\ a \in Int /\ nwrite - nread \in Int /\ nwrite - a \in Int /\ -k \in Int
  BY EmptyRing
<1>2. nwrite - a = (nwrite - nread) + (-k)
  OBVIOUS
<1> HIDE DEF a
<1>3. a % UINT \in 0..(UINT - 1) /\ a \div UINT \in Int /\ a = UINT * (a \div UINT) + (a % UINT)
  BY <1>1, Sizes, Division
<1>4. ASSUME NEW q \in Int, NEW r \in Int, a = UINT * q + r PROVE (nwrite - r) % UINT = (nwrite - a) % UINT
  <2>1. UINT * q \in Int
    BY Sizes
  <2>2. nwrite - r = UINT * q + (nwrite - a)
    BY <1>1, <1>4, <2>1
  <2>3. (UINT * q + (nwrite - a)) % UINT = (nwrite - a) % UINT
    BY <1>1, Sizes, Shift, Zenon
  <2>4. QED BY <2>2, <2>3, Zenon
<1>5. (nwrite - (a % UINT)) % UINT = (nwrite - a) % UINT
  BY <1>3, <1>4
<1>6. (((nwrite - nread) % UINT) + (-k)) % UINT = ((nwrite - nread) + (-k)) % UINT
  BY <1>1, Sizes, RemainderOfSum, Zenon
<1>7. ((nwrite - nread) % UINT) + (-k) = Used - k /\ (Used - k) % UINT = Used - k
  BY <1>1, Sizes, Small DEF Used
<1>8. QED BY <1>2, <1>3, <1>5, <1>6, <1>7 DEF a

\* Bytes stored within the size of the ring do not meet.
LEMMA StoreFacts ==
  ASSUME TypeOK, NEW k \in 0..PIPESIZE, NEW s \in [0..(k - 1) -> Byte], Store(s, k)
  PROVE  /\ data' \in [0..(PIPESIZE - 1) -> Byte]
         /\ \A x \in 0..(k - 1) : data'[(nwrite + x) % PIPESIZE] = s[x]
         /\ \A j \in 0..(PIPESIZE - 1) :
              (\A x \in 0..(k - 1) : (nwrite + x) % PIPESIZE # j) => data'[j] = data[j]
<1> DEFINE at(x) == (nwrite + x) % PIPESIZE
           W(j) == {x \in 0..(k - 1) : at(x) = j}
<1>1. \A x \in 0..(k - 1) : at(x) \in 0..(PIPESIZE - 1)
  <2>1. \A x \in 0..(k - 1) : nwrite + x \in Int
    BY DEF TypeOK
  <2>2. QED BY <2>1, Sizes, Division, Zenon
<1>2. \A x, y \in 0..(k - 1) : at(x) = at(y) => x = y
  <2> SUFFICES ASSUME NEW x \in 0..(k - 1), NEW y \in 0..(k - 1), at(x) = at(y) PROVE x = y
    OBVIOUS
  <2>1. nwrite + x \in Int /\ nwrite + y \in Int /\ (nwrite + x) - (nwrite + y) = x - y
    BY Sizes DEF TypeOK
  <2>2. nwrite + x = nwrite + y
    BY <2>1, Sizes, Apart
  <2>3. QED BY <2>2 DEF TypeOK
<1>3. data' = [j \in 0..(PIPESIZE - 1) |-> IF W(j) = {} THEN data[j] ELSE s[Max(W(j))]]
  BY DEF Store
<1> HIDE DEF at
<1>4. \A x \in 0..(k - 1) : W(at(x)) = {x}
  BY <1>2
<1>5. \A x \in 0..(k - 1) : Max({x}) = x
  BY DEF Max
<1>6. \A x \in 0..(k - 1) : data'[at(x)] = s[x]
  BY <1>1, <1>3, <1>4, <1>5
<1>7. \A j \in 0..(PIPESIZE - 1) : W(j) = {} => data'[j] = data[j]
  BY <1>3
<1>8. \A j \in 0..(PIPESIZE - 1) : W(j) = {} \/ \E x \in 0..(k - 1) : j = at(x)
  OBVIOUS
<1>9. \A j \in 0..(PIPESIZE - 1) : data'[j] \in Byte
  BY <1>6, <1>7, <1>8 DEF TypeOK
<1>10. QED BY <1>3, <1>6, <1>7, <1>9, Zenon DEF at

-----------------------------------------------------------------------------
(* The invariant that holds whoever is killed *)

Gone == {"closed", "kfree"}

\* An end is open exactly while somebody has it.
Ends ==
  /\ \A p \in Writer : pc[p] \notin Gone => writeopen = 1
  /\ \A p \in Reader : pc[p] \notin Gone => readopen = 1
  /\ writeopen = 1 => \E p \in Writer : pc[p] \notin Gone
  /\ readopen = 1 => \E p \in Reader : pc[p] \notin Gone

\* The page is there until the one who closed the second end has freed it.
Page ==
  /\ \A p, q \in Process : pc[p] = "kfree" /\ pc[q] = "kfree" => p = q
  /\ (\E p \in Process : pc[p] = "kfree") => readopen = 0 /\ writeopen = 0 /\ allocated = 1
  /\ allocated = 0 => readopen = 0 /\ writeopen = 0
  /\ readopen = 0 /\ writeopen = 0 /\ (\A p \in Process : pc[p] # "kfree") => allocated = 0

\* Who is inside a call has something left to move.
Pending == \A p \in Process : pc[p] \in {"call", "block", "asleep"} => left[p] > 0

RingInv ==
  /\ TypeOK
  /\ Used <= PIPESIZE
  /\ Ends
  /\ Page
  /\ Pending

\* A step that nobody comes or goes in.
LEMMA SameEnds ==
  ASSUME RingInv, UNCHANGED <<readopen, writeopen, allocated>>,
         \A q \in Process : (pc'[q] = "kfree" <=> pc[q] = "kfree") /\ (pc'[q] = "closed" <=> pc[q] = "closed")
  PROVE  Ends' /\ Page'
<1>1. Ends'
  BY DEF RingInv, Ends, Gone, Process
<1>2. Page'
  BY DEF RingInv, Page
<1>3. QED BY <1>1, <1>2

LEMMA InitRing == Init => RingInv
<1> SUFFICES ASSUME Init PROVE RingInv
  OBVIOUS
<1>1. Used = 0
  BY Sizes, EmptyRing DEF Init
<1>2. << >> \in [1..0 -> Byte] /\ 0 \in 0..MAXN
  BY Sizes
<1>3. TypeOK
  <2>1. data \in [0..(PIPESIZE - 1) -> Byte] /\ nread \in 0..(UINT - 1) /\ nwrite \in 0..(UINT - 1)
    BY Sizes DEF Init
  <2>2. addr \in [Reader -> UNION {[1..k -> Byte] : k \in 0..MAXN}]
    BY <1>2 DEF Init
  <2>3. QED BY <2>1, <2>2, Sizes DEF Init, TypeOK
<1>4. Ends
  BY PipeAssumption DEF Init, Ends, Gone, Process
<1>5. Page /\ Pending
  BY DEF Init, Page, Pending
<1>6. QED BY <1>1, <1>3, <1>4, <1>5, Sizes DEF RingInv

LEMMA CallRing ==
  ASSUME RingInv, NEW p \in Process, call(p)
  PROVE  RingInv'
<1>1. TypeOK' /\ Used' = Used
  BY Sizes DEF RingInv, TypeOK, call, ring, Used
<1>2. Ends' /\ Page'
  BY SameEnds DEF call, RingInv, TypeOK
<1>3. Pending'
  BY DEF call, RingInv, TypeOK, Pending
<1>4. QED BY <1>1, <1>2, <1>3 DEF RingInv

LEMMA SleepRing ==
  ASSUME RingInv, NEW p \in Process, sleep(p)
  PROVE  RingInv'
<1>1. TypeOK' /\ Used' = Used
  BY DEF RingInv, TypeOK, sleep, ring, Used
<1>2. Ends' /\ Page'
  BY SameEnds DEF sleep, RingInv, TypeOK
<1>3. Pending'
  BY DEF sleep, RingInv, TypeOK, Pending
<1>4. QED BY <1>1, <1>2, <1>3 DEF RingInv

LEMMA KillRing ==
  ASSUME RingInv, NEW p \in Process, kill(p)
  PROVE  RingInv'
<1>1. TypeOK' /\ Used' = Used
  BY DEF RingInv, TypeOK, kill, ring, Used, Wake
<1>2. Ends' /\ Page'
  BY SameEnds DEF kill, RingInv, TypeOK, Wake
<1>3. Pending'
  BY DEF kill, RingInv, TypeOK, Pending, Wake
<1>4. QED BY <1>1, <1>2, <1>3 DEF RingInv

\* How much a turn of pipewrite stores.
LEMMA WriteCount ==
  ASSUME RingInv, NEW p \in Writer, NEW k, k = Min({left[p], Room})
  PROVE  /\ left[p] \in 0..MAXN /\ Used \in 0..PIPESIZE
         /\ k \in 0..PIPESIZE /\ k <= left[p] /\ Used + k <= PIPESIZE
         /\ k # left[p] => Used + k = PIPESIZE
<1>1. left[p] \in 0..MAXN
  BY DEF RingInv, TypeOK, Process
<1>2. Used \in 0..PIPESIZE
  BY EmptyRing, Sizes DEF RingInv, TypeOK
<1>3. Room \in Int /\ Room = PIPESIZE - Used
  BY <1>2, Sizes DEF Room
<1>4. k = IF left[p] <= Room THEN left[p] ELSE Room
  BY <1>1, <1>3, MinOfTwo
<1>5. CASE left[p] <= Room
  <2>1. k = left[p] /\ k \in Int
    BY <1>1, <1>4, <1>5
  <2>2. \A x \in Int : x >= 0 /\ x <= Room => x \in 0..PIPESIZE /\ Used + x <= PIPESIZE
    BY <1>2, <1>3, Sizes
  <2>3. left[p] \in Int /\ left[p] >= 0
    BY <1>1, Sizes
  <2>4. left[p] \in 0..PIPESIZE /\ Used + left[p] <= PIPESIZE /\ left[p] <= left[p]
    BY <1>5, <2>2, <2>3
  <2>5. QED BY <1>1, <1>2, <2>1, <2>4, Zenon
<1>6. CASE ~(left[p] <= Room)
  <2>1. k = PIPESIZE - Used
    BY <1>3, <1>4, <1>6
  <2>2. QED BY <1>1, <1>2, <1>3, <1>6, <2>1, Sizes
<1>7. QED BY <1>5, <1>6

LEMMA WriteRing ==
  ASSUME RingInv, NEW p \in Writer, pipewrite(p)
  PROVE  RingInv'
<1> DEFINE k == Min({left[p], Room})
<1>0. /\ pc[p] = "call" /\ p \in Process
      /\ \E s \in [0..(k - 1) -> Byte] : Store(s, k)
      /\ pc' = IF k = left[p] THEN [Wake(Reader) EXCEPT ![p] = "out"]
               ELSE IF readopen = 0 \/ killed[p] = 1 THEN [pc EXCEPT ![p] = "out"]
               ELSE [Wake(Reader) EXCEPT ![p] = "block"]
      /\ left' = [left EXCEPT ![p] = IF pc'[p] = "out" THEN 0 ELSE left[p] - k]
      /\ UNCHANGED <<nread, readopen, writeopen, allocated, addr, killed>>
  BY Zenon DEF pipewrite, Process
<1> HIDE DEF k
<1>1. /\ left[p] \in 0..MAXN /\ Used \in 0..PIPESIZE
      /\ k \in 0..PIPESIZE /\ k <= left[p] /\ Used + k <= PIPESIZE
  BY WriteCount DEF k
<1>2. PICK s \in [0..(k - 1) -> Byte] : Store(s, k)
  BY <1>0
<1>3. data' \in [0..(PIPESIZE - 1) -> Byte]
  BY <1>1, <1>2, StoreFacts DEF RingInv
<1>4. nwrite' \in 0..(UINT - 1) /\ Used' = Used + k
  <2>1. nwrite' = (nwrite + k) % UINT /\ nread' = nread
    BY <1>0, <1>2 DEF Store
  <2>2. k \in Nat /\ Used + k < UINT
    BY <1>1, Sizes
  <2>3. /\ (nwrite + k) % UINT \in 0..(UINT - 1)
        /\ (((nwrite + k) % UINT) - nread) % UINT = Used + k
    BY <2>2, MoreUsed DEF RingInv, TypeOK
  <2>4. QED BY <2>1, <2>3 DEF Used
<1>5. \A q \in Process : q # p => pc'[q] = pc[q] \/ (pc[q] = "asleep" /\ pc'[q] = "call")
  BY <1>0 DEF RingInv, TypeOK, Wake
<1>6. pc'[p] \in {"out", "block"} /\ (pc'[p] # "out" => k # left[p])
  BY <1>0 DEF RingInv, TypeOK, Wake
<1>7. pc' \in [Process -> {"out", "call", "block", "asleep", "kfree", "closed"}]
  BY <1>0 DEF RingInv, TypeOK, Wake
<1>8. left' \in [Process -> 0..MAXN]
  <2>1. left[p] - k \in 0..MAXN /\ 0 \in 0..MAXN
    BY <1>1, Sizes
  <2>2. QED BY <1>0, <2>1 DEF RingInv, TypeOK
<1>9. TypeOK'
  BY <1>0, <1>3, <1>4, <1>7, <1>8 DEF RingInv, TypeOK
<1>10. Ends' /\ Page'
  BY <1>0, <1>5, <1>6, SameEnds
<1>11. Pending'
  <2>1. ASSUME NEW q \in Process, pc'[q] \in {"call", "block", "asleep"} PROVE left'[q] > 0
    <3>1. CASE q = p
      BY <1>0, <1>1, <1>6, <2>1, <3>1 DEF RingInv, TypeOK
    <3>2. CASE q # p
      <4>1. pc[q] \in {"call", "block", "asleep"} /\ left'[q] = left[q]
        BY <1>0, <1>5, <2>1, <3>2 DEF RingInv, TypeOK
      <4>2. QED BY <4>1 DEF RingInv, Pending
    <3>3. QED BY <3>1, <3>2
  <2>2. QED BY <2>1 DEF Pending
<1>12. QED BY <1>1, <1>4, <1>9, <1>10, <1>11, Sizes DEF RingInv

\* How much a piperead takes.
LEMMA ReadCount ==
  ASSUME RingInv, NEW p \in Reader, NEW k, k = Min({left[p], Used})
  PROVE  /\ left[p] \in 0..MAXN /\ Used \in 0..PIPESIZE
         /\ k \in 0..MAXN /\ k <= Used
         /\ pc[p] = "call" /\ Used > 0 => k > 0
<1>1. left[p] \in 0..MAXN /\ (pc[p] = "call" => left[p] > 0)
  BY DEF RingInv, TypeOK, Process, Pending
<1>2. Used \in 0..PIPESIZE
  BY EmptyRing, Sizes DEF RingInv, TypeOK
<1>3. k = IF left[p] <= Used THEN left[p] ELSE Used
  BY <1>1, <1>2, Sizes, MinOfTwo
<1>4. QED BY <1>1, <1>2, <1>3, Sizes

\* Any place in the ring holds a byte.
LEMMA InRing ==
  ASSUME TypeOK, NEW x \in Int
  PROVE  (nread + x) % PIPESIZE \in 0..(PIPESIZE - 1) /\ data[(nread + x) % PIPESIZE] \in Byte
<1>1. nread + x \in Int
  BY DEF TypeOK
<1>2. (nread + x) % PIPESIZE \in 0..(PIPESIZE - 1)
  BY <1>1, Sizes, Division, Zenon
<1>3. QED BY <1>2 DEF TypeOK

LEMMA ReadRing ==
  ASSUME RingInv, NEW p \in Reader, piperead(p)
  PROVE  RingInv'
<1>0. /\ pc[p] = "call" /\ p \in Process
      /\ UNCHANGED <<data, nwrite, readopen, writeopen, allocated, killed>>
  BY DEF piperead, Process
<1>1. CASE nread = nwrite /\ writeopen = 1
  <2>1. /\ pc' = [pc EXCEPT ![p] = IF killed[p] = 1 THEN "out" ELSE "block"]
        /\ left' = [left EXCEPT ![p] = IF killed[p] = 1 THEN 0 ELSE left[p]]
        /\ UNCHANGED <<nread, addr>>
    BY <1>1 DEF piperead
  <2>2. TypeOK' /\ Used' = Used
    BY <1>0, <2>1, Sizes DEF RingInv, TypeOK, Used
  <2>3. Ends' /\ Page'
    BY <1>0, <2>1, SameEnds DEF RingInv, TypeOK
  <2>4. Pending'
    BY <1>0, <2>1 DEF RingInv, TypeOK, Pending
  <2>5. QED BY <2>2, <2>3, <2>4 DEF RingInv
<1>2. CASE ~(nread = nwrite /\ writeopen = 1)
  <2> DEFINE k == Min({left[p], Used})
  <2>1. /\ addr' = [addr EXCEPT ![p] = [x \in 1..k |-> data[(nread + x - 1) % PIPESIZE]]]
        /\ nread' = (nread + k) % UINT
        /\ pc' = [Wake(Writer) EXCEPT ![p] = "out"]
        /\ left' = [left EXCEPT ![p] = 0]
    BY <1>2, Zenon DEF piperead
  <2> HIDE DEF k
  <2>2. Used \in 0..PIPESIZE /\ k \in 0..MAXN /\ k <= Used
    BY ReadCount DEF k
  <2>3. nread' \in 0..(UINT - 1) /\ Used' = Used - k
    BY <1>0, <2>1, <2>2, LessUsed DEF RingInv, TypeOK, Used
  <2>4. \A x \in 1..k : data[(nread + x - 1) % PIPESIZE] \in Byte
    <3>1. \A x \in 1..k : x - 1 \in Int /\ nread + x - 1 = nread + (x - 1)
      BY DEF RingInv, TypeOK
    <3>2. QED BY <3>1, InRing DEF RingInv
  <2>5. [x \in 1..k |-> data[(nread + x - 1) % PIPESIZE]] \in UNION {[1..j -> Byte] : j \in 0..MAXN}
    BY <2>2, <2>4
  <2>6. addr' \in [Reader -> UNION {[1..j -> Byte] : j \in 0..MAXN}]
    BY <2>1, <2>5 DEF RingInv, TypeOK
  <2>7. /\ pc' \in [Process -> {"out", "call", "block", "asleep", "kfree", "closed"}]
        /\ left' \in [Process -> 0..MAXN]
    BY <1>0, <2>1, Sizes DEF RingInv, TypeOK, Wake
  <2>8. TypeOK'
    BY <1>0, <2>3, <2>6, <2>7 DEF RingInv, TypeOK
  <2>9. Ends' /\ Page'
    BY <1>0, <2>1, SameEnds DEF RingInv, TypeOK, Wake
  <2>10. Pending'
    BY <1>0, <2>1 DEF RingInv, TypeOK, Pending, Wake
  <2>11. QED BY <2>2, <2>3, <2>8, <2>9, <2>10, Sizes DEF RingInv
<1>3. QED BY <1>1, <1>2

\* While somebody has an end, nobody is about to free the page.
LEMMA NotFreed ==
  ASSUME RingInv, NEW p \in Process, pc[p] \notin Gone
  PROVE  /\ p \in Writer => writeopen = 1
         /\ p \in Reader => readopen = 1
         /\ allocated = 1 /\ \A q \in Process : pc[q] # "kfree"
<1>1. (p \in Writer => writeopen = 1) /\ (p \in Reader => readopen = 1)
  BY DEF RingInv, Ends
<1>2. readopen = 1 \/ writeopen = 1
  BY <1>1 DEF Process
<1>3. allocated # 0 /\ \A q \in Process : pc[q] # "kfree"
  BY <1>2 DEF RingInv, Page
<1>4. QED BY <1>1, <1>3 DEF RingInv, TypeOK

LEMMA CloseRing ==
  ASSUME RingInv, NEW p \in Process, pipeclose(p)
  PROVE  RingInv'
<1>0. /\ pc[p] = "out" /\ UNCHANGED <<ring, allocated, left, addr, killed>>
      /\ pc \in [Process -> {"out", "call", "block", "asleep", "kfree", "closed"}]
  BY DEF pipeclose, RingInv, TypeOK
<1>1. /\ p \in Writer => writeopen = 1
      /\ p \in Reader => readopen = 1
      /\ allocated = 1 /\ \A q \in Process : pc[q] # "kfree"
  BY <1>0, NotFreed DEF Gone
<1>2. (p \in Writer /\ p \notin Reader /\ End(p) = Writer) \/ (p \in Reader /\ p \notin Writer /\ End(p) = Reader)
  BY PipeAssumption DEF Process, End
<1>3. CASE \E q \in End(p) \ {p} : pc[q] # "closed"
  <2>1. pc' = [pc EXCEPT ![p] = "closed"] /\ UNCHANGED <<readopen, writeopen>>
    BY <1>3 DEF pipeclose
  <2>2. TypeOK' /\ Used' = Used
    BY <1>0, <2>1 DEF RingInv, TypeOK, Used, ring
  <2>3. PICK q \in End(p) \ {p} : pc[q] # "closed"
    BY <1>3
  <2>4. q \in Process /\ pc'[q] \notin Gone
    BY <1>0, <1>1, <1>2, <2>1, <2>3 DEF Process, Gone
  <2>5. \A r \in Process \ {p} : pc'[r] = pc[r]
    BY <1>0, <2>1
  <2>6. pc'[p] = "closed"
    BY <1>0, <2>1
  <2>7. Ends'
    BY <1>2, <2>1, <2>3, <2>4, <2>5, <2>6 DEF RingInv, Ends, Gone, Process
  <2>8. Page'
    BY <1>0, <1>1, <2>1, <2>5, <2>6 DEF RingInv, Page
  <2>9. Pending'
    BY <1>0, <2>5, <2>6 DEF RingInv, Pending
  <2>10. QED BY <2>2, <2>7, <2>8, <2>9 DEF RingInv
<1>4. CASE \A q \in End(p) \ {p} : pc[q] = "closed"
  <2>1. /\ pc' = [Wake(Process \ End(p)) EXCEPT ![p] = IF LastEnd(p) THEN "kfree" ELSE "closed"]
        /\ IF p \in Writer THEN writeopen' = 0 /\ UNCHANGED readopen ELSE readopen' = 0 /\ UNCHANGED writeopen
    BY <1>4 DEF pipeclose
  <2>2. TypeOK' /\ Used' = Used
    BY <1>0, <2>1 DEF RingInv, TypeOK, Used, ring, Wake
  <2>3. pc'[p] = IF LastEnd(p) THEN "kfree" ELSE "closed"
    BY <1>0, <2>1 DEF Wake
  <2>4. \A q \in Process \ {p} : pc'[q] = pc[q] \/ (pc[q] = "asleep" /\ pc'[q] = "call")
    BY <1>0, <2>1 DEF Wake
  <2>5. Ends'
    <3>1. CASE p \in Writer
      BY <1>2, <1>4, <2>1, <2>3, <2>4, <3>1 DEF RingInv, Ends, Gone, Process
    <3>2. CASE p \in Reader
      BY <1>2, <1>4, <2>1, <2>3, <2>4, <3>2 DEF RingInv, Ends, Gone, Process
    <3>3. QED BY <1>2, <3>1, <3>2
  <2>6. Page'
    <3>1. \A q \in Process : pc'[q] = "kfree" => q = p
      BY <1>1, <2>4
    <3>2. LastEnd(p) <=> readopen' = 0 /\ writeopen' = 0
      BY <1>1, <1>2, <2>1 DEF LastEnd
    <3>3. allocated' = 1
      BY <1>0, <1>1
    <3>4. QED BY <2>3, <3>1, <3>2, <3>3 DEF Page
  <2>7. Pending'
    BY <1>0, <2>3, <2>4 DEF RingInv, Pending
  <2>8. QED BY <2>2, <2>5, <2>6, <2>7 DEF RingInv
<1>5. QED BY <1>3, <1>4

LEMMA FreeRing ==
  ASSUME RingInv, NEW p \in Process, kfree(p)
  PROVE  RingInv'
<1>0. /\ allocated = 1 /\ readopen = 0 /\ writeopen = 0
      /\ \A q \in Process : pc[q] = "kfree" => q = p
  BY DEF RingInv, Page, kfree
<1>1. TypeOK' /\ Used' = Used
  BY <1>0 DEF RingInv, TypeOK, kfree, ring, Used
<1>2. Ends'
  BY <1>0 DEF kfree, RingInv, TypeOK, Ends, Gone, Process
<1>3. Page'
  BY <1>0 DEF kfree, RingInv, TypeOK, Page
<1>4. Pending'
  BY DEF kfree, RingInv, TypeOK, Pending
<1>5. QED BY <1>1, <1>2, <1>3, <1>4 DEF RingInv

LEMMA StutterRing ==
  ASSUME RingInv, UNCHANGED vars
  PROVE  RingInv'
BY DEF vars, RingInv, TypeOK, Used, Ends, Page, Pending

\* What holds of the ring, of its two ends and of its page in any execution,
\* whoever is killed (pipe.c).
THEOREM PipeRing == Spec => []RingInv
<1>1. RingInv /\ [Next]_vars => RingInv'
  <2> SUFFICES ASSUME RingInv, [Next]_vars PROVE RingInv'
    OBVIOUS
  <2>1. ASSUME NEW p \in Writer, pipewrite(p) PROVE RingInv'
    BY <2>1, WriteRing
  <2>2. ASSUME NEW p \in Reader, piperead(p) PROVE RingInv'
    BY <2>2, ReadRing
  <2>3. ASSUME NEW p \in Process, sleep(p) PROVE RingInv'
    BY <2>3, SleepRing
  <2>4. ASSUME NEW p \in Process, kfree(p) PROVE RingInv'
    BY <2>4, FreeRing
  <2>5. ASSUME NEW p \in Process, call(p) PROVE RingInv'
    BY <2>5, CallRing
  <2>6. ASSUME NEW p \in Process, kill(p) PROVE RingInv'
    BY <2>6, KillRing
  <2>7. ASSUME NEW p \in Process, pipeclose(p) PROVE RingInv'
    BY <2>7, CloseRing
  <2>8. CASE UNCHANGED vars
    BY <2>8, StutterRing
  <2>9. QED BY <2>1, <2>2, <2>3, <2>4, <2>5, <2>6, <2>7, <2>8 DEF Next, Kernel, Done
<1>2. QED BY InitRing, <1>1, PTL DEF Spec

-----------------------------------------------------------------------------
(* Sleepers *)

\* Who sleeps, or still holds the lock on the way there, has a reason to.
Reason(p) == IF p \in Reader THEN nread = nwrite /\ writeopen = 1 ELSE Used = PIPESIZE /\ readopen = 1
Waiting == \A p \in Process : pc[p] \in {"block", "asleep"} => Reason(p)
WritersLive == \A p \in Writer : killed[p] = 0

SleepInv == RingInv /\ Waiting /\ WritersLive

\* Steps that leave the pipe as it is and put nobody to sleep.
LEMMA SamePipe ==
  ASSUME SleepInv, UNCHANGED <<nread, nwrite, readopen, writeopen>>,
         \A q \in Process : pc'[q] \in {"block", "asleep"} => pc[q] \in {"block", "asleep"}
  PROVE  Waiting'
BY DEF SleepInv, Waiting, Reason, Used

\* A writer that stops has woken the readers, unless it was killed.
LEMMA WriteWaiting ==
  ASSUME SleepInv, NEW p \in Writer, pipewrite(p)
  PROVE  Waiting'
<1> DEFINE k == Min({left[p], Room})
<1>0. /\ pc[p] = "call" /\ p \in Process /\ p \notin Reader /\ Unlocked
      /\ \E s \in [0..(k - 1) -> Byte] : Store(s, k)
      /\ pc' = IF k = left[p] THEN [Wake(Reader) EXCEPT ![p] = "out"]
               ELSE IF readopen = 0 \/ killed[p] = 1 THEN [pc EXCEPT ![p] = "out"]
               ELSE [Wake(Reader) EXCEPT ![p] = "block"]
      /\ UNCHANGED <<nread, readopen, writeopen>>
  BY PipeAssumption, Zenon DEF pipewrite, Process
<1> HIDE DEF k
<1>1. /\ k \in 0..PIPESIZE /\ Used \in 0..PIPESIZE /\ Used + k <= PIPESIZE
      /\ k # left[p] => Used + k = PIPESIZE
  BY WriteCount DEF k, SleepInv
<1>2. nwrite' = (nwrite + k) % UINT /\ Used' = Used + k
  <2>1. nwrite' = (nwrite + k) % UINT
    BY <1>0 DEF Store
  <2>2. k \in Nat /\ Used + k < UINT
    BY <1>1, Sizes
  <2>3. (((nwrite + k) % UINT) - nread) % UINT = Used + k
    BY <2>2, MoreUsed DEF SleepInv, RingInv, TypeOK
  <2>4. QED BY <1>0, <2>1, <2>3 DEF Used
<1>3. pc \in [Process -> {"out", "call", "block", "asleep", "kfree", "closed"}] /\ killed[p] = 0
  BY DEF SleepInv, RingInv, TypeOK, WritersLive
<1>4. ASSUME NEW q \in Reader PROVE pc'[q] \notin {"block", "asleep"}
  <2>1. q \in Process /\ q # p /\ pc[q] # "block"
    BY <1>0 DEF Process, Unlocked
  <2>2. CASE k = left[p] \/ readopen # 0
    BY <1>0, <1>3, <2>1, <2>2 DEF Wake
  <2>3. CASE k # left[p] /\ readopen = 0
    <3>1. pc'[q] = pc[q]
      BY <1>0, <1>3, <2>1, <2>3
    <3>2. pc[q] \in Gone
      BY <2>3 DEF SleepInv, RingInv, Ends
    <3>3. QED BY <3>1, <3>2 DEF Gone
  <2>4. QED BY <2>2, <2>3
<1>5. ASSUME NEW q \in Writer, pc'[q] \in {"block", "asleep"} PROVE Used' = PIPESIZE /\ readopen' = 1
  <2>1. q \in Process /\ q \notin Reader
    BY PipeAssumption DEF Process
  <2>2. CASE q = p
    <3>1. k # left[p] /\ readopen # 0
      BY <1>0, <1>3, <1>5, <2>1, <2>2 DEF Wake
    <3>2. QED BY <1>0, <1>1, <1>2, <3>1 DEF SleepInv, RingInv, TypeOK
  <2>3. CASE q # p
    <3>1. pc[q] \in {"block", "asleep"}
      BY <1>0, <1>3, <1>5, <2>1, <2>3 DEF Wake
    <3>2. Used = PIPESIZE /\ readopen = 1
      BY <2>1, <3>1 DEF SleepInv, Waiting, Reason
    <3>3. QED BY <1>0, <1>1, <1>2, <3>2, Sizes
  <2>4. QED BY <2>2, <2>3
<1>6. QED BY <1>4, <1>5, PipeAssumption DEF Waiting, Reason, Process

LEMMA ReadWaiting ==
  ASSUME SleepInv, NEW p \in Reader, piperead(p)
  PROVE  Waiting'
<1>0. /\ pc[p] = "call" /\ p \in Process /\ Unlocked
      /\ UNCHANGED <<nwrite, readopen, writeopen>>
      /\ pc \in [Process -> {"out", "call", "block", "asleep", "kfree", "closed"}]
  BY DEF piperead, Process, SleepInv, RingInv, TypeOK
<1>1. CASE nread = nwrite /\ writeopen = 1
  <2>1. /\ pc' = [pc EXCEPT ![p] = IF killed[p] = 1 THEN "out" ELSE "block"]
        /\ UNCHANGED nread
    BY <1>1 DEF piperead
  <2>2. Used' = Used
    BY <1>0, <2>1 DEF Used
  <2>3. QED BY <1>0, <1>1, <2>1, <2>2 DEF SleepInv, Waiting, Reason
<1>2. CASE ~(nread = nwrite /\ writeopen = 1)
  <2>1. pc' = [Wake(Writer) EXCEPT ![p] = "out"]
    BY <1>2 DEF piperead
  <2>2. \A q \in Reader : pc[q] \notin {"block", "asleep"}
    BY <1>2 DEF SleepInv, Waiting, Reason, Process
  <2>3. \A q \in Process : pc'[q] \notin {"block", "asleep"}
    BY <1>0, <2>1, <2>2 DEF Wake, Process, Unlocked
  <2>4. QED BY <2>3 DEF Waiting
<1>3. QED BY <1>1, <1>2

LEMMA CloseWaiting ==
  ASSUME SleepInv, NEW p \in Process, pipeclose(p)
  PROVE  Waiting'
<1>0. /\ pc[p] = "out" /\ UNCHANGED <<nread, nwrite>>
      /\ pc \in [Process -> {"out", "call", "block", "asleep", "kfree", "closed"}]
  BY DEF pipeclose, ring, SleepInv, RingInv, TypeOK
<1>1. CASE \E q \in End(p) \ {p} : pc[q] # "closed"
  <2>1. pc' = [pc EXCEPT ![p] = "closed"] /\ UNCHANGED <<readopen, writeopen>>
    BY <1>1 DEF pipeclose
  <2>2. \A q \in Process : pc'[q] \in {"block", "asleep"} => pc[q] \in {"block", "asleep"}
    BY <1>0, <2>1
  <2>3. QED BY <1>0, <2>1, <2>2, SamePipe
<1>2. CASE \A q \in End(p) \ {p} : pc[q] = "closed"
  <2>1. /\ Unlocked
        /\ pc' = [Wake(Process \ End(p)) EXCEPT ![p] = IF LastEnd(p) THEN "kfree" ELSE "closed"]
    BY <1>2 DEF pipeclose
  <2>2. \A q \in Process : pc'[q] \notin {"block", "asleep"}
    BY <1>0, <1>2, <2>1 DEF Wake, Unlocked
  <2>3. QED BY <2>2 DEF Waiting
<1>3. QED BY <1>1, <1>2

\* Nobody sleeps on a pipe that has something for them, and the page is freed
\* once, when everybody has left: for any number of readers, any number of
\* writers that are not killed, and any ring (pipewrite, piperead, pipeclose).
THEOREM PipeInv ==
  ASSUME Killable \subseteq Reader
  PROVE  Spec => []Inv
<1>1. Init => SleepInv
  <2>1. Init => Waiting /\ WritersLive
    BY DEF Init, Waiting, WritersLive, Process
  <2>2. QED BY <2>1, InitRing DEF SleepInv
<1>2. SleepInv /\ RingInv' /\ [Next]_vars => SleepInv'
  <2> SUFFICES ASSUME SleepInv, RingInv', [Next]_vars PROVE Waiting' /\ WritersLive'
    BY DEF SleepInv
  <2>1. ASSUME NEW p \in Writer, pipewrite(p) PROVE Waiting' /\ WritersLive'
    BY <2>1, WriteWaiting, Zenon DEF pipewrite, SleepInv, WritersLive
  <2>2. ASSUME NEW p \in Reader, piperead(p) PROVE Waiting' /\ WritersLive'
    BY <2>2, ReadWaiting, Zenon DEF piperead, SleepInv, WritersLive
  <2>3. ASSUME NEW p \in Process, sleep(p) PROVE Waiting' /\ WritersLive'
    BY <2>3, SamePipe DEF sleep, ring, SleepInv, RingInv, TypeOK, WritersLive
  <2>4. ASSUME NEW p \in Process, kfree(p) PROVE Waiting' /\ WritersLive'
    BY <2>4, SamePipe DEF kfree, ring, SleepInv, RingInv, TypeOK, WritersLive
  <2>5. ASSUME NEW p \in Process, call(p) PROVE Waiting' /\ WritersLive'
    BY <2>5, SamePipe DEF call, ring, SleepInv, RingInv, TypeOK, WritersLive
  <2>6. ASSUME NEW p \in Process, kill(p) PROVE Waiting' /\ WritersLive'
    <3>1. Waiting'
      BY <2>6, SamePipe DEF kill, ring, SleepInv, RingInv, TypeOK, Wake
    <3>2. WritersLive'
      BY <2>6, PipeAssumption DEF kill, SleepInv, RingInv, TypeOK, WritersLive, Process
    <3>3. QED BY <3>1, <3>2
  <2>7. ASSUME NEW p \in Process, pipeclose(p) PROVE Waiting' /\ WritersLive'
    BY <2>7, CloseWaiting DEF pipeclose, SleepInv, WritersLive
  <2>8. CASE UNCHANGED vars
    BY <2>8, SamePipe DEF vars, SleepInv, WritersLive
  <2>9. QED BY <2>1, <2>2, <2>3, <2>4, <2>5, <2>6, <2>7, <2>8 DEF Next, Kernel, Done
<1>3. SleepInv => Inv
  <2> SUFFICES ASSUME SleepInv PROVE NoLostWakeup /\ FreedWhenClosed
    BY DEF SleepInv, RingInv, Inv
  <2>1. NoLostWakeup
    BY DEF SleepInv, Waiting, Reason, NoLostWakeup
  <2>2. ASSUME allocated < 1 PROVE \A p \in Process : pc[p] = "closed"
    <3>1. allocated = 0
      BY <2>2 DEF SleepInv, RingInv, TypeOK
    <3>2. \A p \in Process : pc[p] \in Gone /\ pc[p] # "kfree"
      BY <3>1 DEF SleepInv, RingInv, Page, Ends, Process
    <3>3. QED BY <3>2 DEF Gone
  <2>3. ASSUME \A p \in Process : pc[p] = "closed" PROVE allocated = 0
    BY <2>3 DEF SleepInv, RingInv, TypeOK, Page, Ends, Gone, Process
  <2>4. QED BY <2>1, <2>2, <2>3 DEF FreedWhenClosed
<1>4. QED BY <1>1, <1>2, <1>3, PipeRing, PTL DEF Spec

-----------------------------------------------------------------------------
(* The ring is the queue of ByteQueue *)

\* What the mapping makes of the ring.
Contents == [x \in 1..Used |-> data[(nread + x - 1) % PIPESIZE]]

\* A place in the ring can be counted from a counter that has wrapped.
LEMMA Wrapped ==
  ASSUME NEW y \in Int, NEW x \in Int
  PROVE  ((y % UINT) + x) % PIPESIZE = (y + x) % PIPESIZE
<1>1. y % UINT \in Int /\ y % PIPESIZE \in Int
  BY Sizes, Division
<1>2. (((y % UINT) % PIPESIZE) + x) % PIPESIZE = ((y % UINT) + x) % PIPESIZE
  BY <1>1, Sizes, RemainderOfSum, Zenon
<1>3. (y % UINT) % PIPESIZE = y % PIPESIZE
  BY Sizes, RemainderOfRemainder, Zenon
<1>4. ((y % PIPESIZE) + x) % PIPESIZE = (y + x) % PIPESIZE
  BY Sizes, RemainderOfSum, Zenon
<1>5. QED BY <1>2, <1>3, <1>4, Zenon

\* The place of nwrite is Used places after that of nread.
LEMMA WritePlace ==
  ASSUME RingInv, NEW x \in Int
  PROVE  (nwrite + x) % PIPESIZE = (nread + (Used + x)) % PIPESIZE
<1>1. /\ nread \in Int /\ nwrite \in 0..(UINT - 1) /\ nwrite \in Int /\ nwrite - nread \in Int
      /\ Used \in Int /\ nread + Used \in Int
  BY EmptyRing DEF RingInv, TypeOK
<1>2. (((nwrite - nread) % UINT) + nread) % UINT = ((nwrite - nread) + nread) % UINT
  BY <1>1, Sizes, RemainderOfSum, Zenon
<1>3. (nwrite - nread) + nread = nwrite /\ Used + nread = nread + Used
  BY <1>1
<1>4. nwrite % UINT = nwrite
  BY <1>1, Sizes, Small
<1>5. (nread + Used) % UINT = nwrite
  BY <1>2, <1>3, <1>4, Zenon DEF Used
<1>6. (((nread + Used) % UINT) + x) % PIPESIZE = ((nread + Used) + x) % PIPESIZE
  BY <1>1, Wrapped, Zenon
<1>7. (nread + Used) + x = nread + (Used + x)
  BY <1>1
<1>8. QED BY <1>5, <1>6, <1>7, Zenon

LEMMA ContentsSeq ==
  ASSUME RingInv
  PROVE  Contents \in Seq(Byte) /\ Len(Contents) = Used /\ Used \in 0..PIPESIZE
<1>1. Used \in 0..PIPESIZE
  BY EmptyRing, Sizes DEF RingInv, TypeOK
<1>2. ASSUME NEW x \in 1..Used PROVE data[(nread + x - 1) % PIPESIZE] \in Byte
  <2>1. x - 1 \in Int /\ nread + x - 1 = nread + (x - 1)
    BY <1>1 DEF RingInv, TypeOK
  <2>2. QED BY <2>1, InRing DEF RingInv
<1>3. Contents \in [1..Used -> Byte]
  BY <1>2 DEF Contents
<1>4. QED BY <1>1, <1>3

LEMMA Joined ==
  ASSUME NEW S, NEW a \in Seq(S), NEW b \in Seq(S)
  PROVE  a \o b = [x \in 1..(Len(a) + Len(b)) |-> (a \o b)[x]]
<1>1. a \o b \in Seq(S) /\ Len(a \o b) = Len(a) + Len(b)
  BY ConcatProperties
<1>2. ASSUME NEW c \in Seq(S) PROVE c = [x \in 1..Len(c) |-> c[x]]
  OBVIOUS
<1>3. QED BY <1>1, <1>2, Zenon

\* A turn of pipewrite appends to the queue.
LEMMA WriteMapped ==
  ASSUME RingInv, NEW p \in Writer, pipewrite(p)
  PROVE  Queue!Write
<1> DEFINE k == Min({left[p], Room})
<1>0. /\ pc[p] = "call" /\ p \in Process
      /\ \E s \in [0..(k - 1) -> Byte] : Store(s, k)
      /\ UNCHANGED <<nread, writeopen, addr>>
  BY Zenon DEF pipewrite, Process
<1> HIDE DEF k
<1>1. Used \in 0..PIPESIZE /\ k \in 0..PIPESIZE /\ Used + k <= PIPESIZE
  BY WriteCount DEF k
<1>2. PICK s \in [0..(k - 1) -> Byte] : Store(s, k)
  BY <1>0
<1>3. writeopen = 1
  BY <1>0, NotFreed DEF Gone
<1>4. Used' = Used + k
  <2>1. nwrite' = (nwrite + k) % UINT
    BY <1>2 DEF Store
  <2>2. k \in Nat /\ Used + k < UINT
    BY <1>1, Sizes
  <2>3. (((nwrite + k) % UINT) - nread) % UINT = Used + k
    BY <2>2, MoreUsed DEF RingInv, TypeOK
  <2>4. QED BY <1>0, <2>1, <2>3 DEF Used
<1> DEFINE t == [x \in 1..k |-> s[x - 1]]
<1>5. t \in [1..k -> Byte] /\ \A x \in 1..k : t[x] = s[x - 1]
  BY <1>1
<1> HIDE DEF t
<1>6. ASSUME NEW x \in 1..Used PROVE data'[(nread + x - 1) % PIPESIZE] = data[(nread + x - 1) % PIPESIZE]
  <2>1. x - 1 \in Int /\ nread + x - 1 \in Int /\ nread + x - 1 = nread + (x - 1)
    BY <1>1 DEF RingInv, TypeOK
  <2>2. (nread + x - 1) % PIPESIZE \in 0..(PIPESIZE - 1)
    BY <2>1, Sizes, Division, Zenon
  <2>3. ASSUME NEW z \in 0..(k - 1) PROVE (nwrite + z) % PIPESIZE # (nread + x - 1) % PIPESIZE
    <3>1. (nwrite + z) % PIPESIZE = (nread + (Used + z)) % PIPESIZE
      BY WritePlace
    <3>2. /\ nread + (Used + z) \in Int
          /\ (nread + (Used + z)) - (nread + x - 1) > 0
          /\ (nread + (Used + z)) - (nread + x - 1) < PIPESIZE
      BY <1>1, Sizes DEF RingInv, TypeOK
    <3>3. nread + (Used + z) # nread + x - 1 /\ -PIPESIZE < (nread + (Used + z)) - (nread + x - 1)
      BY <2>1, <3>2, Sizes
    <3>4. (nread + (Used + z)) % PIPESIZE # (nread + x - 1) % PIPESIZE
      BY <2>1, <3>2, <3>3, Sizes, Apart
    <3>5. QED BY <3>1, <3>4
  <2>4. QED BY <1>1, <1>2, <2>2, <2>3, StoreFacts DEF RingInv
<1>7. ASSUME NEW x \in (Used + 1)..(Used + k) PROVE data'[(nread + x - 1) % PIPESIZE] = s[x - Used - 1]
  <2>1. x - Used - 1 \in 0..(k - 1) /\ x - Used - 1 \in Int
    BY <1>1
  <2>2. nread + (Used + (x - Used - 1)) = nread + x - 1
    BY <1>1 DEF RingInv, TypeOK
  <2>3. (nwrite + (x - Used - 1)) % PIPESIZE = (nread + (Used + (x - Used - 1))) % PIPESIZE
    BY <2>1, WritePlace, Zenon
  <2>4. data'[(nwrite + (x - Used - 1)) % PIPESIZE] = s[x - Used - 1]
    BY <1>1, <1>2, <2>1, StoreFacts, Zenon DEF RingInv
  <2>5. QED BY <2>2, <2>3, <2>4, Zenon
<1>8. Contents' = Contents \o t
  <2>1. Contents \in Seq(Byte) /\ Len(Contents) = Used /\ t \in Seq(Byte) /\ Len(t) = k
    BY <1>1, <1>5, ContentsSeq
  <2>2. \A x \in 1..(Used + k) : (Contents \o t)[x] = IF x <= Used THEN Contents[x] ELSE t[x - Used]
    BY <2>1, ConcatProperties, Zenon
  <2>3. Contents' = [x \in 1..(Used + k) |-> data'[(nread + x - 1) % PIPESIZE]]
    BY <1>0, <1>4 DEF Contents
  <2>4. ASSUME NEW x \in 1..(Used + k) PROVE Contents'[x] = (Contents \o t)[x]
    <3>1. CASE x <= Used
      <4>1. x \in 1..Used
        BY <1>1, <3>1
      <4>2. Contents'[x] = Contents[x]
        BY <1>6, <2>3, <4>1, Zenon DEF Contents
      <4>3. (Contents \o t)[x] = Contents[x]
        BY <2>2, <3>1, Zenon
      <4>4. QED BY <4>2, <4>3
    <3>2. CASE x > Used
      <4>1. x \in (Used + 1)..(Used + k) /\ x - Used \in 1..k /\ ~(x <= Used)
        BY <1>1, <3>2
      <4>2. Contents'[x] = s[x - Used - 1]
        BY <1>7, <2>3, <4>1
      <4>3. (Contents \o t)[x] = t[x - Used]
        BY <2>2, <4>1, Zenon
      <4>4. t[x - Used] = s[x - Used - 1]
        BY <1>5, <4>1
      <4>5. QED BY <4>2, <4>3, <4>4, Zenon
    <3>3. x <= Used \/ x > Used
      BY <1>1
    <3>4. QED BY <3>1, <3>2, <3>3, Zenon
  <2>5. Contents \o t = [x \in 1..(Used + k) |-> (Contents \o t)[x]]
    BY <2>1, Joined, Zenon
  <2>6. Contents' = [x \in 1..(Used + k) |-> Contents'[x]]
    BY <2>3
  <2>7. QED BY <2>4, <2>5, <2>6, Zenon
<1>9. k \in 0..(PIPESIZE - Len(Contents))
  <2>1. Len(Contents) = Used
    BY ContentsSeq
  <2>2. QED BY <1>1, <2>1, Sizes
<1>10. QED BY <1>0, <1>3, <1>5, <1>8, <1>9, Zenon DEF Queue!Write, Contents

\* piperead takes from the front of the queue, or finds its end.
LEMMA ReadMapped ==
  ASSUME RingInv, NEW p \in Reader, piperead(p)
  PROVE  Queue!Read(p) \/ Queue!EndOfFile(p) \/ UNCHANGED <<Contents, addr, writeopen>>
<1>0. pc[p] = "call" /\ UNCHANGED <<data, nwrite, writeopen>>
  BY DEF piperead
<1>1. CASE nread = nwrite /\ writeopen = 1
  BY <1>0, <1>1 DEF piperead, Contents, Used
<1>2. CASE ~(nread = nwrite /\ writeopen = 1)
  <2> DEFINE k == Min({left[p], Used})
  <2>1. /\ addr' = [addr EXCEPT ![p] = [x \in 1..k |-> data[(nread + x - 1) % PIPESIZE]]]
        /\ nread' = (nread + k) % UINT
    BY <1>2, Zenon DEF piperead
  <2> HIDE DEF k
  <2>2. Used \in 0..PIPESIZE /\ k \in 0..MAXN /\ k <= Used /\ (Used > 0 => k > 0)
    BY <1>0, ReadCount DEF k
  <2>3. Used' = Used - k
    BY <1>0, <2>1, <2>2, LessUsed DEF RingInv, TypeOK, Used
  <2>4. Contents \in Seq(Byte) /\ Len(Contents) = Used
    BY ContentsSeq
  <2>5. ASSUME NEW x \in 1..(Used - k) PROVE (nread' + x - 1) % PIPESIZE = (nread + (k + x) - 1) % PIPESIZE
    <3>1. nread + k \in Int /\ x - 1 \in Int /\ ((nread + k) % UINT) \in Int
      BY <2>2, Sizes, Division DEF RingInv, TypeOK
    <3>2. (((nread + k) % UINT) + (x - 1)) % PIPESIZE = ((nread + k) + (x - 1)) % PIPESIZE
      BY <3>1, Wrapped, Zenon
    <3>3. (nread + k) + (x - 1) = nread + (k + x) - 1 /\ ((nread + k) % UINT) + (x - 1) = nread' + x - 1
      BY <2>1, <2>2, <3>1 DEF RingInv, TypeOK
    <3>4. QED BY <3>2, <3>3, Zenon
  <2>6. Contents' = SubSeq(Contents, k + 1, Len(Contents))
    <3>1. Contents' = [x \in 1..(Used - k) |-> data[(nread' + x - 1) % PIPESIZE]]
      BY <1>0, <2>3 DEF Contents
    <3>2. SubSeq(Contents, k + 1, Len(Contents)) = [x \in 1..(Used - k) |-> Contents[k + x]]
      BY <2>2, <2>4
    <3>3. ASSUME NEW x \in 1..(Used - k) PROVE Contents[k + x] = data[(nread + (k + x) - 1) % PIPESIZE]
      BY <2>2 DEF Contents
    <3>4. QED BY <2>5, <3>1, <3>2, <3>3
  <2>7. [x \in 1..k |-> data[(nread + x - 1) % PIPESIZE]] = SubSeq(Contents, 1, k)
    <3>1. SubSeq(Contents, 1, k) = [x \in 1..k |-> Contents[x]]
      BY <2>2, <2>4
    <3>2. ASSUME NEW x \in 1..k PROVE Contents[x] = data[(nread + x - 1) % PIPESIZE]
      BY <2>2 DEF Contents
    <3>3. QED BY <3>1, <3>2
  <2>8. CASE Used > 0
    <3>1. k \in 1..Len(Contents)
      BY <2>2, <2>4, <2>8
    <3>2. QED BY <1>0, <2>1, <2>6, <2>7, <3>1, Zenon DEF Queue!Read, Contents
  <2>9. CASE Used = 0
    <3>1. nread = nwrite /\ writeopen = 0
      BY <1>2, <2>9, EmptyRing DEF RingInv, TypeOK
    <3>2. k = 0 /\ Contents = << >>
      BY <2>2, <2>4, <2>9
    <3>3. SubSeq(Contents, 1, k) = << >> /\ Contents' = << >>
      BY <2>3, <2>4, <2>9, <3>2 DEF Contents
    <3>4. QED BY <1>0, <2>1, <2>7, <3>1, <3>2, <3>3, Zenon DEF Queue!EndOfFile, Contents
  <2>10. QED BY <2>2, <2>8, <2>9
<1>3. QED BY <1>1, <1>2

\* Steps that the queue does not see.
LEMMA QuietMapped ==
  ASSUME UNCHANGED <<ring, addr, writeopen>>
  PROVE  UNCHANGED <<Contents, addr, writeopen>>
BY DEF ring, Contents, Used

\* The pipe is a queue of bytes with an end of file, for any number of readers
\* and writers and with anybody killed: nothing is lost, duplicated, reordered or
\* overwritten, although the counters wrap (pipewrite, piperead, pipeclose).
THEOREM PipeQueue == Spec => IsQueue
<1>1. Init => Queue!Init
  <2> SUFFICES ASSUME Init PROVE Queue!Init
    OBVIOUS
  <2>1. Used = 0
    BY Sizes, EmptyRing DEF Init
  <2>2. Contents = << >>
    BY <2>1 DEF Contents
  <2>3. QED BY <2>2 DEF Init, Queue!Init, Contents
<1>2. RingInv /\ [Next]_vars => [Queue!Next]_(Queue!vars)
  <2> SUFFICES ASSUME RingInv, [Next]_vars
               PROVE  Queue!Next \/ UNCHANGED <<Contents, addr, writeopen>>
    BY DEF Queue!vars, Contents
  <2>1. ASSUME NEW p \in Writer, pipewrite(p) PROVE Queue!Next
    BY <2>1, WriteMapped DEF Queue!Next
  <2>2. ASSUME NEW p \in Reader, piperead(p) PROVE Queue!Next \/ UNCHANGED <<Contents, addr, writeopen>>
    BY <2>2, ReadMapped DEF Queue!Next
  <2>3. ASSUME NEW p \in Process, sleep(p) \/ kfree(p) \/ call(p) \/ kill(p)
        PROVE  UNCHANGED <<Contents, addr, writeopen>>
    BY <2>3, QuietMapped DEF sleep, kfree, call, kill
  <2>4. ASSUME NEW p \in Process, pipeclose(p) PROVE Queue!Next \/ UNCHANGED <<Contents, addr, writeopen>>
    <3>1. UNCHANGED <<ring, addr>> /\ (writeopen' = writeopen \/ (p \in Writer /\ writeopen' = 0))
      BY <2>4 DEF pipeclose
    <3>2. Contents' = Contents
      BY <3>1 DEF ring, Contents, Used
    <3>3. p \in Writer => writeopen = 1
      BY <2>4, NotFreed DEF pipeclose, Gone
    <3>4. CASE writeopen' = writeopen
      BY <3>1, <3>2, <3>4
    <3>5. CASE p \in Writer /\ writeopen' = 0
      BY <3>1, <3>2, <3>3, <3>5 DEF Queue!Next, Queue!CloseWriteEnd, Contents
    <3>6. QED BY <3>1, <3>4, <3>5
  <2>5. CASE UNCHANGED vars
    BY <2>5, QuietMapped DEF vars, ring
  <2>6. QED BY <2>1, <2>2, <2>3, <2>4, <2>5 DEF Next, Kernel, Done
<1>3. QED BY <1>1, <1>2, PipeRing, PTL DEF Spec, IsQueue, Queue!Spec
=============================================================================
