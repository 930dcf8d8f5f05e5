--------------------------- MODULE UserStore_proofs ---------------------------
(***************************************************************************)
(* Proofs about networks.toml, for any number of commands, accounts and    *)
(* crashes: what is joined stays, what is logged out is forgotten, and the *)
(* file is never half-written, under the conditions the properties name.   *)
(***************************************************************************)
EXTENDS UserStore, SequenceTheorems, FiniteSetTheorems, TLAPS

Stores == [newer : BOOLEAN, torn : BOOLEAN, rows : Seq(Accounts), active : Names \cup {None}]
Kinds  == {"none", "connect", "renew", "activate", "logout", "use"}
Places == {"idle", "login", "gateway", "open", "write", "rename"}

StoreType ==
  /\ store \in Inodes /\ tmp \in Inodes \cup {None} /\ data \in [Inodes -> Stores]
  /\ certs \in SUBSET Accounts /\ joined \in SUBSET Accounts /\ out \in SUBSET Accounts
  /\ pc \in [Procs -> Places] /\ mem \in [Procs -> Stores] /\ fd \in [Procs -> Inodes]
  /\ cmd \in [Procs -> [kind : Kinds, account : Accounts \cup {None}]]
  /\ overlapped \in BOOLEAN /\ commands \in Nat /\ crashes \in Nat

\* Which command is where, and has an account.
Roles ==
  \A p \in Procs :
    /\ pc[p] = "login" => cmd[p].kind \in {"connect", "renew"}
    /\ pc[p] = "gateway" => cmd[p].kind = "connect"
    /\ cmd[p].kind \in {"connect", "renew", "activate", "logout"} => cmd[p].account \in Accounts

\* A file that is torn is one somebody writes to, or somebody was killed.
Written(i) == data[i].torn => crashes > 0 \/ \E p \in Procs : pc[p] = "write" /\ fd[p] = i

\* Nobody opens the store itself; two commands at a time are an overlap, and a
\* command that never met another writes to the temporary file and renames it.
Files ==
  /\ tmp # store /\ Written(store) /\ (tmp # None => Written(tmp))
  /\ \A p \in Procs : ~mem[p].torn /\ ~mem[p].newer
  /\ \A p, q \in Procs : p # q /\ pc[p] # "idle" /\ pc[q] # "idle" => overlapped
  /\ ~overlapped =>
       /\ ~data[store].torn
       /\ \A p \in Procs : pc[p] \in {"write", "rename"} => tmp # None /\ fd[p] = tmp
       /\ \A p \in Procs : pc[p] = "rename" => data[tmp] = mem[p]

\* A store whose rows differ, and whose active network is one of them.
Good(s) ==
  /\ \A i, j \in DOMAIN s.rows : s.rows[i] = s.rows[j] => i = j
  /\ s.active # None => RowsNamed(s, s.active) # {}
  /\ s.newer => s.rows = <<>>

\* What a command that meets no other will save is what its user was told, and
\* what it is about to say.
Carries(p) ==
  LET a == cmd[p].account
  IN  /\ Good(mem[p])
      /\ \A b \in joined : Has(mem[p], b) \/ (cmd[p].kind = "logout" /\ b = a)
      /\ \A b \in out : ~Has(mem[p], b)
      /\ cmd[p].kind = "logout" => ~Has(mem[p], a) /\ a \notin certs
      /\ cmd[p].kind \in {"connect", "renew"} => a \notin out
      /\ cmd[p].kind = "connect" /\ pc[p] # "login" => Has(mem[p], a)

OnDisk ==
  /\ Good(data[store]) /\ JoinedSurvives
  /\ \A a \in out : ~Has(data[store], a) /\ a \notin certs

Accounted ==
  ~overlapped =>
    /\ OnDisk
    /\ \A p \in Procs : pc[p] \in {"login", "open", "write", "rename"} => Carries(p)
    /\ \A p \in Procs : pc[p] = "gateway" => cmd[p].account \in joined

StoreInv == StoreType /\ Roles /\ Files /\ Accounted

-----------------------------------------------------------------------------
(* The operators on a store.                                                *)

\* What reads as empty is one.
LEMMA Empties ==
  /\ Empty \in Stores /\ Truncated \in Stores /\ Good(Empty) /\ Truncated.torn
  /\ ~Empty.torn /\ ~Empty.newer /\ Empty.rows = <<>> /\ \A a : ~Has(Empty, a)
<1>1. /\ Empty \in Stores /\ Truncated \in Stores /\ Truncated.torn
      /\ ~Empty.torn /\ ~Empty.newer /\ Empty.rows = <<>> /\ Empty.active = None
  BY EmptySeq DEF Empty, Truncated, Stores
<1>2. DOMAIN Empty.rows = {} /\ Len(Empty.rows) = 0
  BY <1>1
<1> QED BY <1>1, <1>2 DEF Good, Has, Contains

\* The rows of a store are a sequence of accounts.
LEMMA Rows ==
  ASSUME NEW s \in Stores
  PROVE  /\ s.rows \in Seq(Accounts) /\ Len(s.rows) \in Nat /\ DOMAIN s.rows = 1..Len(s.rows)
         /\ \A i \in 1..Len(s.rows) : s.rows[i] \in Accounts
         /\ \A a : Has(s, a) <=> \E i \in 1..Len(s.rows) : s.rows[i] = a
BY DEF Stores, Has, Contains

\* add_or_update keeps what a store is, and adds one account.
LEMMA AddedStore ==
  ASSUME NEW s \in Stores, NEW a \in Accounts
  PROVE  /\ Added(s, a) \in Stores
         /\ Added(s, a).torn = s.torn /\ Added(s, a).newer = s.newer
         /\ \A b : Has(Added(s, a), b) <=> Has(s, b) \/ b = a
         /\ Good(s) /\ ~s.newer => Good(Added(s, a))
<1>1. CASE Has(s, a)
  BY <1>1 DEF Added
<1>2. CASE ~Has(s, a)
  <2> DEFINE n == Len(s.rows)
             t == Added(s, a)
  <2>1. /\ s.rows \in Seq(Accounts) /\ n \in Nat /\ DOMAIN s.rows = 1..n
        /\ \A b : Has(s, b) <=> \E i \in 1..n : s.rows[i] = b
    BY Rows
  <2>2. /\ t = [s EXCEPT !.rows = Append(s.rows, a),
                         !.active = IF s.active = None THEN NameOf[a] ELSE s.active]
        /\ t.rows = Append(s.rows, a)
        /\ t.active = IF s.active = None THEN NameOf[a] ELSE s.active
        /\ t.torn = s.torn /\ t.newer = s.newer
    BY <1>2 DEF Added, Stores
  <2>3. /\ t.rows \in Seq(Accounts) /\ Len(t.rows) = n + 1 /\ DOMAIN t.rows = 1..(n + 1)
        /\ \A i \in 1..(n + 1) : t.rows[i] = IF i = n + 1 THEN a ELSE s.rows[i]
    BY <2>1, <2>2, AppendProperties
  <2>4. t \in Stores
    BY <2>2, <2>3 DEF Stores, Names
  <2> HIDE DEF t
  <2>5. \A b : Has(t, b) <=> Has(s, b) \/ b = a
    <3>1. \A b : Has(t, b) <=> \E i \in 1..(n + 1) : t.rows[i] = b
      BY <2>3 DEF Has, Contains
    <3>2. n + 1 \in 1..(n + 1) /\ \A i \in 1..n : i \in 1..(n + 1) /\ i # n + 1
      BY <2>1
    <3>3. \A i \in 1..(n + 1) : i = n + 1 \/ i \in 1..n
      BY <2>1
    <3> QED BY <2>1, <2>3, <3>1, <3>2, <3>3
  <2>6. ASSUME Good(s), ~s.newer PROVE Good(t)
    <3>1. ASSUME NEW i \in 1..(n + 1), NEW j \in 1..(n + 1), t.rows[i] = t.rows[j] PROVE i = j
      <4>1. \A k \in 1..n : s.rows[k] # a
        BY <1>2, <2>1
      <4>2. i \in 1..n \/ i = n + 1
        BY <2>1
      <4>3. j \in 1..n \/ j = n + 1
        BY <2>1
      <4>4. \A k, l \in 1..n : s.rows[k] = s.rows[l] => k = l
        BY <2>1, <2>6 DEF Good
      <4>5. t.rows[i] = (IF i = n + 1 THEN a ELSE s.rows[i])
            /\ t.rows[j] = (IF j = n + 1 THEN a ELSE s.rows[j])
        BY <2>3
      <4> QED BY <3>1, <4>1, <4>2, <4>3, <4>4, <4>5
    <3>2. ASSUME t.active # None PROVE \E i \in DOMAIN t.rows : NameOf[t.rows[i]] = t.active
      <4>1. CASE s.active = None
        BY <2>1, <2>2, <2>3, <4>1
      <4>2. CASE s.active # None
        BY <2>1, <2>2, <2>3, <2>6, <4>2 DEF Good, RowsNamed
      <4> QED BY <4>1, <4>2
    <3> QED BY <2>2, <2>3, <2>6, <3>1, <3>2 DEF Good, RowsNamed
  <2> QED BY <2>2, <2>4, <2>5, <2>6 DEF t
<1> QED BY <1>1, <1>2

\* A sequence without its element i.
LEMMA RemoveRow ==
  ASSUME NEW S, NEW seq \in Seq(S), NEW i \in 1..Len(seq)
  PROVE  /\ RemoveAt(seq, i) \in Seq(S) /\ Len(RemoveAt(seq, i)) = Len(seq) - 1
         /\ \A j \in 1..(Len(seq) - 1) :
              RemoveAt(seq, i)[j] = seq[IF j < i THEN j ELSE j + 1]
<1> DEFINE a == SubSeq(seq, 1, i - 1)
           b == SubSeq(seq, i + 1, Len(seq))
<1>1. a \in Seq(S) /\ Len(a) = i - 1 /\ \A j \in 1..(i - 1) : a[j] = seq[j]
  BY SubSeqProperties
<1>2. b \in Seq(S) /\ Len(b) = Len(seq) - i /\ \A j \in 1..(Len(seq) - i) : b[j] = seq[i + j]
  BY SubSeqProperties
<1>3. RemoveAt(seq, i) = a \o b
  BY DEF RemoveAt
<1> HIDE DEF a, b
<1>4. Len(seq) \in Nat /\ i \in Nat /\ i <= Len(seq) /\ i > 0
  OBVIOUS
<1>5. /\ a \o b \in Seq(S) /\ Len(a \o b) = Len(a) + Len(b)
      /\ \A j \in 1..(Len(a) + Len(b)) :
           (a \o b)[j] = IF j <= Len(a) THEN a[j] ELSE b[j - Len(a)]
  BY <1>1, <1>2, ConcatProperties
<1>6. Len(a) + Len(b) = Len(seq) - 1
  BY <1>1, <1>2, <1>4
<1>7. ASSUME NEW j \in 1..(Len(seq) - 1)
      PROVE  (a \o b)[j] = seq[IF j < i THEN j ELSE j + 1]
  <2>1. CASE j < i
    BY <1>1, <1>2, <1>4, <1>5, <2>1
  <2>2. CASE ~(j < i)
    <3>1. j - Len(a) \in 1..(Len(seq) - i) /\ i + (j - Len(a)) = j + 1 /\ ~(j <= Len(a))
      BY <1>1, <1>4, <2>2
    <3>2. (a \o b)[j] = b[j - Len(a)]
      BY <1>1, <1>2, <1>4, <1>5, <3>1
    <3>3. b[j - Len(a)] = seq[j + 1]
      BY <1>2, <3>1
    <3> QED BY <2>2, <3>2, <3>3
  <2> QED BY <2>1, <2>2
<1>8. /\ a \o b \in Seq(S) /\ Len(a \o b) = Len(seq) - 1
      /\ \A j \in 1..(Len(seq) - 1) : (a \o b)[j] = seq[IF j < i THEN j ELSE j + 1]
  BY <1>5, <1>6, <1>7
<1> QED BY <1>3, <1>8

\* remove forgets the account of the row, and nothing else.
LEMMA RemovedStore ==
  ASSUME NEW s \in Stores, NEW i \in DOMAIN s.rows
  PROVE  /\ Removed(s, i) \in Stores
         /\ Removed(s, i).torn = s.torn /\ Removed(s, i).newer = s.newer
         /\ Good(s) => /\ Good(Removed(s, i))
                      /\ \A b : Has(Removed(s, i), b) <=> Has(s, b) /\ b # s.rows[i]
<1> DEFINE n == Len(s.rows)
           t == Removed(s, i)
           From(j) == IF j < i THEN j ELSE j + 1
<1>1. /\ s.rows \in Seq(Accounts) /\ n \in Nat /\ DOMAIN s.rows = 1..n /\ i \in 1..n
      /\ \A j \in 1..n : s.rows[j] \in Accounts
      /\ \A b : Has(s, b) <=> \E j \in 1..n : s.rows[j] = b
  BY Rows
<1>2. /\ t.rows = RemoveAt(s.rows, i) /\ t.torn = s.torn /\ t.newer = s.newer
      /\ t.active = IF s.active # NameOf[s.rows[i]] THEN s.active
                    ELSE IF t.rows = <<>> THEN None ELSE NameOf[t.rows[1]]
      /\ DOMAIN t = {"newer", "torn", "rows", "active"}
  BY DEF Removed, Stores
<1>3. /\ t.rows \in Seq(Accounts) /\ Len(t.rows) = n - 1 /\ DOMAIN t.rows = 1..(n - 1)
      /\ \A j \in 1..(n - 1) : t.rows[j] = s.rows[From(j)]
  <2>1. /\ RemoveAt(s.rows, i) \in Seq(Accounts) /\ Len(RemoveAt(s.rows, i)) = n - 1
        /\ \A j \in 1..(n - 1) : RemoveAt(s.rows, i)[j] = s.rows[From(j)]
    BY <1>1, RemoveRow
  <2> QED BY <1>1, <1>2, <2>1, LenProperties
<1>4. t \in Stores
  <2>1. t.active \in Names \cup {None}
    <3>1. t.rows # <<>> => t.rows[1] \in Accounts
      BY <1>3
    <3> QED BY <1>2, <3>1 DEF Stores, Names
  <2> QED BY <1>2, <1>3, <2>1 DEF Removed, Stores
<1> HIDE DEF t
<1>5. /\ \A j \in 1..(n - 1) : From(j) \in 1..n \ {i}
      /\ \A k \in 1..n \ {i} : \E j \in 1..(n - 1) : From(j) = k
  <2>1. \A k \in 1..n \ {i} : From(IF k < i THEN k ELSE k - 1) = k
                              /\ (IF k < i THEN k ELSE k - 1) \in 1..(n - 1)
    BY <1>1
  <2> QED BY <1>1, <2>1
<1>6. \A j, k \in 1..(n - 1) : From(j) = From(k) => j = k
  BY <1>1
<1> HIDE DEF From
<1> SUFFICES ASSUME Good(s) PROVE Good(t) /\ \A b : Has(t, b) <=> Has(s, b) /\ b # s.rows[i]
  BY <1>2, <1>4 DEF t
<1>7. \A j, k \in 1..n : s.rows[j] = s.rows[k] => j = k
  BY <1>1 DEF Good
<1>8. \A b : Has(t, b) <=> Has(s, b) /\ b # s.rows[i]
  <2>1. \A b : Has(t, b) <=> \E j \in 1..(n - 1) : s.rows[From(j)] = b
    BY <1>3 DEF Has, Contains
  <2> QED BY <1>1, <1>5, <1>7, <2>1
<1>9. Good(t)
  <2>1. ASSUME NEW j \in 1..(n - 1), NEW k \in 1..(n - 1), t.rows[j] = t.rows[k] PROVE j = k
    <3>1. s.rows[From(j)] = s.rows[From(k)] /\ From(j) \in 1..n /\ From(k) \in 1..n
      BY <1>3, <1>5, <2>1
    <3> QED BY <1>6, <1>7, <3>1
  <2>2. ASSUME t.active # None PROVE \E j \in DOMAIN t.rows : NameOf[t.rows[j]] = t.active
    <3>1. CASE s.active = NameOf[s.rows[i]]
      <4>1. t.rows # <<>> /\ t.active = NameOf[t.rows[1]]
        BY <1>2, <2>2, <3>1
      <4>2. 1 \in DOMAIN t.rows
        BY <1>1, <1>3, <4>1, EmptySeq
      <4> QED BY <4>1, <4>2
    <3>2. CASE s.active # NameOf[s.rows[i]]
      <4>1. t.active = s.active
        BY <1>2, <3>2
      <4>2. PICK k \in 1..n : NameOf[s.rows[k]] = s.active
        BY <1>1, <2>2, <4>1 DEF Good, RowsNamed
      <4>3. k \in 1..n \ {i}
        BY <3>2, <4>2
      <4>4. PICK j \in 1..(n - 1) : From(j) = k
        BY <1>5, <4>3
      <4>5. j \in DOMAIN t.rows /\ t.rows[j] = s.rows[k]
        BY <1>3, <4>4
      <4> QED BY <4>1, <4>2, <4>5
    <3> QED BY <3>1, <3>2
  <2>3. t.newer => t.rows = <<>>
    BY <1>1, <1>2 DEF Good
  <2> QED BY <1>3, <2>1, <2>2, <2>3 DEF Good, RowsNamed
<1> QED BY <1>8, <1>9

\* load reads a store, never a torn one.
LEMMA LoadedStore ==
  ASSUME StoreType
  PROVE  /\ Loaded \in Stores /\ ~Loaded.torn /\ ~Loaded.newer
         /\ Good(data[store]) => Good(Loaded)
         /\ Good(data[store]) /\ ~data[store].torn
              => \A a : Has(Loaded, a) <=> Has(data[store], a)
<1>1. data[store] \in Stores /\ data[store].torn \in BOOLEAN /\ data[store].newer \in BOOLEAN
  BY DEF StoreType, Stores
<1>2. Loaded \in Stores /\ ~Loaded.torn /\ ~Loaded.newer
  BY <1>1, Empties DEF Loaded
<1>3. Good(data[store]) => Good(Loaded)
  BY Empties DEF Loaded
<1>4. ASSUME Good(data[store]), ~data[store].torn, NEW a PROVE Has(Loaded, a) <=> Has(data[store], a)
  <2>1. CASE data[store].newer
    <3>1. Loaded = Empty /\ data[store].rows = Empty.rows
      BY <1>4, <2>1, Empties DEF Loaded, Good
    <3> QED BY <3>1 DEF Has
  <2>2. CASE ~data[store].newer
    BY <1>4, <2>2 DEF Loaded
  <2> QED BY <2>1, <2>2
<1> QED BY <1>2, <1>3, <1>4

\* There are more inodes than commands: save always finds one that nobody writes to.
LEMMA FreeInode ==
  ASSUME StoreType, NEW p \in Procs, pc[p] # "write"
  PROVE  \E j \in Inodes \ {store} : \A q \in Procs : fd[q] # j \/ pc[q] # "write"
<1> SUFFICES ASSUME \A j \in Inodes \ {store} : \E q \in Procs : fd[q] = j /\ pc[q] = "write"
             PROVE  FALSE
  OBVIOUS
<1> DEFINE free == Inodes \ {store}
           rest == Procs \ {p}
           writer == [j \in free |-> CHOOSE q \in rest : fd[q] = j]
<1>1. Cardinality(Procs) \in Nat /\ IsFiniteSet(rest) /\ Cardinality(rest) = Cardinality(Procs) - 1
  BY StoreAssumption, FS_CardinalityType, FS_RemoveElement
<1>2. IsFiniteSet(Inodes) /\ Cardinality(Inodes) = Cardinality(Procs) + 1 /\ store \in Inodes
  BY <1>1, FS_Interval DEF Inodes, StoreType
<1>3. IsFiniteSet(free) /\ Cardinality(free) = Cardinality(Procs)
  BY <1>1, <1>2, FS_RemoveElement
<1>4. \A j \in free : \E q \in rest : fd[q] = j
  OBVIOUS
<1>5. writer \in [free -> rest] /\ \A j \in free : fd[writer[j]] = j
  BY <1>4
<1> HIDE DEF free, rest, writer
<1>6. \E x, y \in free : x # y /\ writer[x] = writer[y]
  BY <1>1, <1>3, <1>5, FS_PigeonHole
<1> QED BY <1>5, <1>6

-----------------------------------------------------------------------------
(* Types.                                                                   *)

\* What the first step of every command does.
LEMMA Start ==
  ASSUME StoreType, NEW p \in Procs, Begins(p)
  PROVE  /\ pc[p] = "idle" /\ commands' \in Nat /\ overlapped' \in BOOLEAN
         /\ overlapped => overlapped'
         /\ ~overlapped' => \A q \in Procs \ {p} : pc[q] = "idle"
<1>1. pc[p] = "idle" /\ commands' \in Nat
  BY DEF Begins, StoreType
<1>2. overlapped' = (overlapped \/ \E q \in Procs \ {p} : pc[q] # "idle")
  BY DEF Begins
<1>3. overlapped' \in BOOLEAN
  BY <1>2, Zenon
<1>4. overlapped <=> overlapped = TRUE
  BY DEF StoreType
<1>5. (overlapped => overlapped') /\ (~overlapped' => \A q \in Procs \ {p} : pc[q] = "idle")
  BY <1>2
<1> QED BY <1>1, <1>3, <1>5

\* What the end of a command does.
LEMMA End ==
  ASSUME StoreType, Roles, NEW p \in Procs, Ends(p)
  PROVE  /\ pc' \in [Procs -> Places] /\ mem' \in [Procs -> Stores] /\ fd' \in [Procs -> Inodes]
         /\ cmd' \in [Procs -> [kind : Kinds, account : Accounts \cup {None}]]
         /\ pc'[p] = "idle" /\ Roles'
         /\ \A q \in Procs \ {p} : pc'[q] = pc[q] /\ cmd'[q] = cmd[q] /\ mem'[q] = mem[q]
                                  /\ fd'[q] = fd[q]
         /\ ~mem'[p].torn /\ ~mem'[p].newer
<1>1. Empty \in Stores /\ ~Empty.torn /\ ~Empty.newer /\ 0 \in Inodes
  BY Empties, StoreAssumption, FS_CardinalityType DEF Inodes
<1>2. Idle \in [kind : Kinds, account : Accounts \cup {None}] /\ Idle.kind = "none"
  BY DEF Idle, Kinds
<1>3. /\ pc' \in [Procs -> Places] /\ mem' \in [Procs -> Stores] /\ fd' \in [Procs -> Inodes]
      /\ pc'[p] = "idle" /\ mem'[p] = Empty /\ cmd'[p] = Idle
  BY <1>1 DEF Ends, Goto, StoreType, Places
<1>4. cmd' \in [Procs -> [kind : Kinds, account : Accounts \cup {None}]]
  BY <1>2 DEF Ends, StoreType
<1>5. \A q \in Procs \ {p} : pc'[q] = pc[q] /\ cmd'[q] = cmd[q] /\ mem'[q] = mem[q]
                            /\ fd'[q] = fd[q]
  BY DEF Ends, Goto, StoreType
<1>6. Roles'
  BY <1>2, <1>3, <1>5 DEF Roles
<1> QED BY <1>1, <1>3, <1>4, <1>5, <1>6

\* A row of what is loaded is an account.
LEMMA LoadedRow ==
  ASSUME StoreType, NEW n, NEW i \in RowsNamed(Loaded, n)
  PROVE  i \in DOMAIN Loaded.rows /\ Loaded.rows[i] \in Accounts
BY LoadedStore, Rows DEF RowsNamed

\* Every step keeps the types and the roles.
LEMMA TypeStep ==
  ASSUME StoreType, Roles, NEW p \in Procs,
         \/ Save(p) \/ CommandFails(p) \/ LoggedIn(p) \/ Gateway(p) \/ Use(p) \/ Crash(p)
         \/ \E a \in Accounts : Connect(p, a) \/ Renew(p, a)
         \/ \E n \in Names : Logout(p, n)
  PROVE  StoreType' /\ Roles'
<1> DEFINE C == [kind : Kinds, account : Accounts \cup {None}]
<1>1. /\ Idle \in C /\ Empty \in Stores /\ Truncated \in Stores /\ Loaded \in Stores
      /\ 0 \in Inodes /\ MaxCrashes \in Nat
  BY Empties, LoadedStore, StoreAssumption, FS_CardinalityType DEF Idle, Kinds, Inodes
<1>2. ASSUME OpenTmp(p) PROVE StoreType' /\ Roles'
  <2>1. tmp' \in Inodes
    BY <1>2, FreeInode DEF OpenTmp, StoreType
  <2>2. data' = [data EXCEPT ![tmp'] = Truncated] /\ fd' = [fd EXCEPT ![p] = tmp']
    BY <1>2 DEF OpenTmp
  <2> QED BY <1>1, <1>2, <2>1, <2>2 DEF OpenTmp, Goto, StoreType, Roles, Places
<1>3. ASSUME WriteTmp(p) PROVE StoreType' /\ Roles'
  BY <1>3 DEF WriteTmp, Goto, StoreType, Roles, Places
<1>4. ASSUME Rename(p) PROVE StoreType' /\ Roles'
  <2>1. /\ store' \in Inodes /\ tmp' \in Inodes \cup {None} /\ data' \in [Inodes -> Stores]
        /\ UNCHANGED <<certs, overlapped, commands, crashes>>
    BY <1>1, <1>4 DEF Rename, StoreType
  <2>2. joined' \in SUBSET Accounts /\ out' \in SUBSET Accounts
    BY <1>4 DEF Rename, Told, StoreType, Roles
  <2>3. /\ pc' \in [Procs -> Places] /\ mem' \in [Procs -> Stores] /\ fd' \in [Procs -> Inodes]
        /\ cmd' \in [Procs -> C] /\ Roles'
    <3>1. CASE Ends(p)
      BY <3>1, End
    <3>2. CASE cmd[p].kind = "connect" /\ Goto(p, "gateway") /\ UNCHANGED <<cmd, mem, fd>>
      BY <3>2 DEF Goto, StoreType, Roles, Places
    <3> QED BY <1>4, <3>1, <3>2 DEF Rename
  <2> QED BY <2>1, <2>2, <2>3 DEF StoreType
<1>5. ASSUME RenameFails(p) \/ CommandFails(p) PROVE StoreType' /\ Roles'
  BY <1>5, End DEF RenameFails, CommandFails, StoreType
<1>6. ASSUME LoggedIn(p) PROVE StoreType' /\ Roles'
  <2>1. cmd[p].account \in Accounts /\ Added(mem[p], cmd[p].account) \in Stores
    BY <1>6, AddedStore DEF LoggedIn, StoreType, Roles
  <2> QED BY <1>6, <2>1 DEF LoggedIn, Goto, StoreType, Roles, Places
<1>7. ASSUME Gateway(p) PROVE StoreType' /\ Roles'
  <2>1. cmd[p].account \in Accounts /\ [Loaded EXCEPT !.active = NameOf[cmd[p].account]] \in Stores
    BY <1>1, <1>7 DEF Gateway, StoreType, Roles, Stores, Names
  <2>2. [cmd[p] EXCEPT !.kind = "activate"] \in C
        /\ [cmd[p] EXCEPT !.kind = "activate"].account = cmd[p].account
    BY DEF StoreType, Kinds
  <2>3. cmd' = [cmd EXCEPT ![p] = [cmd[p] EXCEPT !.kind = "activate"]]
    BY <1>7 DEF Gateway
  <2> QED BY <1>7, <2>1, <2>2, <2>3 DEF Gateway, Goto, StoreType, Roles, Places
<1>8. ASSUME Use(p) PROVE StoreType' /\ Roles'
  <2>1. [kind |-> "use", account |-> None] \in C
    BY DEF Kinds
  <2> QED BY <1>1, <1>8, <2>1, Start DEF Use, Goto, StoreType, Roles, Places
<1>9. ASSUME Crash(p) PROVE StoreType' /\ Roles'
  <2>1. Ends(p) /\ crashes' \in Nat
        /\ UNCHANGED <<store, tmp, data, certs, joined, out, overlapped, commands>>
    BY <1>9 DEF Crash, StoreType
  <2>2. /\ pc' \in [Procs -> Places] /\ mem' \in [Procs -> Stores] /\ fd' \in [Procs -> Inodes]
        /\ cmd' \in [Procs -> C] /\ Roles'
    BY <2>1, End
  <2> QED BY <2>1, <2>2 DEF StoreType
<1>10. ASSUME NEW a \in Accounts, Connect(p, a) \/ Renew(p, a) PROVE StoreType' /\ Roles'
  <2>1. [kind |-> "connect", account |-> a] \in C /\ [kind |-> "renew", account |-> a] \in C
    BY DEF Kinds
  <2>2. /\ commands' \in Nat /\ overlapped' \in BOOLEAN
        /\ pc' = [pc EXCEPT ![p] = "login"] /\ mem' = [mem EXCEPT ![p] = Loaded]
        /\ UNCHANGED <<store, tmp, data, certs, fd, joined, crashes>> /\ out' \in SUBSET Accounts
    BY <1>10, Start DEF Connect, Renew, Goto, StoreType
  <2>3. PICK k \in {"connect", "renew"} : cmd' = [cmd EXCEPT ![p] = [kind |-> k, account |-> a]]
    BY <1>10 DEF Connect, Renew
  <2> QED BY <1>1, <2>1, <2>2, <2>3 DEF StoreType, Roles, Places
<1>11. ASSUME NEW n \in Names, Logout(p, n) PROVE StoreType' /\ Roles'
  <2>1. Begins(p)
    BY <1>11 DEF Logout
  <2>2. PICK i \in RowsNamed(Loaded, n) :
          /\ cmd' = [cmd EXCEPT ![p] = [kind |-> "logout", account |-> Loaded.rows[i]]]
          /\ mem' = [mem EXCEPT ![p] = Removed(Loaded, i)]
          /\ certs' = certs \ {Loaded.rows[i]}
    BY <1>11 DEF Logout, Unlinked
  <2>3. Loaded.rows[i] \in Accounts /\ i \in DOMAIN Loaded.rows
    BY LoadedRow
  <2>4. [kind |-> "logout", account |-> Loaded.rows[i]] \in C
    BY <2>3 DEF Kinds
  <2>5. Removed(Loaded, i) \in Stores
    BY <1>1, <2>3, RemovedStore
  <2> QED BY <1>11, <2>1, <2>2, <2>3, <2>4, <2>5, Start DEF Logout, Goto, StoreType, Roles, Places
<1> QED BY <1>2, <1>3, <1>4, <1>5, <1>6, <1>7, <1>8, <1>9, <1>10, <1>11 DEF Save

-----------------------------------------------------------------------------
(* Files.                                                                   *)

\* Every step keeps the temporary file apart from the store, and a torn file in
\* the hands of its writer.
LEMMA FilesStep ==
  ASSUME StoreType, Roles, Files, NEW p \in Procs,
         \/ Save(p) \/ CommandFails(p) \/ LoggedIn(p) \/ Gateway(p) \/ Use(p) \/ Crash(p)
         \/ \E a \in Accounts : Connect(p, a) \/ Renew(p, a)
         \/ \E n \in Names : Logout(p, n)
  PROVE  Files'
<1> USE DEF Written
<1>1. ASSUME OpenTmp(p) PROVE Files'
  <2> DEFINE i == tmp'
  <2>1. i \in Inodes \ {store} /\ (tmp # None => i = tmp) /\ pc[p] = "open"
    BY <1>1, FreeInode DEF OpenTmp, StoreType, Files
  <2>2. /\ data' = [data EXCEPT ![i] = Truncated] /\ fd' = [fd EXCEPT ![p] = i]
        /\ pc' = [pc EXCEPT ![p] = "write"] /\ UNCHANGED <<store, mem, overlapped, crashes>>
    BY <1>1 DEF OpenTmp, Goto
  <2>3. data'[store] = data[store] /\ pc'[p] = "write" /\ fd'[p] = i
        /\ \A q \in Procs \ {p} : pc'[q] = pc[q] /\ fd'[q] = fd[q]
    BY <2>1, <2>2 DEF StoreType
  <2>4. i # None
    BY <2>1, StoreAssumption
  <2>5. Written(store)' /\ Written(tmp)'
    <3>1. Written(tmp)'
      BY <2>3
    <3>2. ASSUME data[store].torn, crashes = 0 PROVE \E q \in Procs : pc'[q] = "write" /\ fd'[q] = store
      <4>1. PICK q \in Procs : pc[q] = "write" /\ fd[q] = store
        BY <3>2 DEF Files, StoreType
      <4> QED BY <2>1, <2>3, <4>1
    <3> QED BY <2>2, <2>3, <3>1, <3>2 DEF StoreType
  <2> HIDE DEF i
  <2>6. \A q \in Procs : pc'[q] \in {"write", "rename"} /\ ~overlapped => fd'[q] = i /\ q = p
    BY <2>1, <2>3 DEF Files
  <2> QED BY <2>1, <2>2, <2>3, <2>4, <2>5, <2>6 DEF Files, i
<1>2. ASSUME WriteTmp(p) PROVE Files'
  <2>1. /\ pc[p] = "write" /\ data' = [data EXCEPT ![fd[p]] = mem[p]]
        /\ pc' = [pc EXCEPT ![p] = "rename"] /\ UNCHANGED <<store, tmp, mem, fd, overlapped, crashes>>
    BY <1>2 DEF WriteTmp, Goto
  <2>2. /\ pc'[p] = "rename" /\ \A q \in Procs \ {p} : pc'[q] = pc[q]
        /\ fd[p] \in Inodes /\ data'[fd[p]] = mem[p]
        /\ \A i \in Inodes \ {fd[p]} : data'[i] = data[i]
    BY <2>1 DEF StoreType
  <2>3. ASSUME NEW i \in Inodes, Written(i) PROVE Written(i)'
    BY <2>1, <2>2, <2>3 DEF Files
  <2>4. Written(store)' /\ (tmp' # None => Written(tmp)')
    BY <2>1, <2>3 DEF Files, StoreType
  <2>5. ASSUME ~overlapped
        PROVE  /\ ~data'[store].torn
               /\ \A q \in Procs : pc'[q] \in {"write", "rename"} => tmp # None /\ fd[q] = tmp
               /\ \A q \in Procs : pc'[q] = "rename" => data'[tmp] = mem[q]
    <3>1. tmp # None /\ fd[p] = tmp /\ \A q \in Procs \ {p} : pc[q] = "idle"
      BY <2>1, <2>5 DEF Files
    <3> QED BY <2>1, <2>2, <2>5, <3>1 DEF Files, StoreType
  <2> QED BY <2>1, <2>2, <2>4, <2>5 DEF Files
<1>3. ASSUME Rename(p) PROVE Files'
  <2>1. /\ pc[p] = "rename" /\ tmp \in Inodes \ {store} /\ store' = tmp /\ tmp' = None
        /\ data'[tmp] = data[tmp] /\ UNCHANGED <<overlapped, crashes>>
    BY <1>3 DEF Rename, StoreType, Files
  <2>2. /\ pc'[p] \in {"idle", "gateway"} /\ ~mem'[p].torn /\ ~mem'[p].newer
        /\ \A q \in Procs \ {p} : pc'[q] = pc[q] /\ mem'[q] = mem[q] /\ fd'[q] = fd[q]
    <3>1. CASE Ends(p)
      BY <3>1, End
    <3>2. CASE Goto(p, "gateway") /\ UNCHANGED <<cmd, mem, fd>>
      BY <3>2 DEF Goto, StoreType, Files
    <3> QED BY <1>3, <3>1, <3>2 DEF Rename
  <2>3. Written(store)'
    <3>1. data[tmp].torn => crashes > 0 \/ \E q \in Procs : pc[q] = "write" /\ fd[q] = tmp
      BY <2>1, StoreAssumption DEF Files
    <3>2. \A q \in Procs : pc[q] = "write" /\ fd[q] = tmp => pc'[q] = "write" /\ fd'[q] = tmp
      BY <2>1, <2>2
    <3> QED BY <2>1, <3>1, <3>2
  <2>4. \A q, r \in Procs : q # r /\ pc'[q] # "idle" /\ pc'[r] # "idle" => overlapped
    BY <2>1, <2>2 DEF Files
  <2>5. ASSUME ~overlapped PROVE ~data[tmp].torn /\ \A q \in Procs \ {p} : pc[q] = "idle"
    BY <2>1, <2>5 DEF Files
  <2> QED BY <2>1, <2>2, <2>3, <2>4, <2>5, StoreAssumption DEF Files
<1>4. ASSUME Ends(p), UNCHANGED <<store, tmp, data, overlapped>>,
             \/ crashes' = crashes /\ pc[p] # "write"
             \/ crashes' = crashes + 1
      PROVE  Files'
  <2>1. /\ pc'[p] = "idle" /\ ~mem'[p].torn /\ ~mem'[p].newer
        /\ \A q \in Procs \ {p} : pc'[q] = pc[q] /\ mem'[q] = mem[q] /\ fd'[q] = fd[q]
    BY <1>4, End
  <2>2. ASSUME NEW i, Written(i) PROVE Written(i)'
    BY <1>4, <2>1, <2>2 DEF StoreType
  <2> QED BY <1>4, <2>1, <2>2 DEF Files
<1>5. ASSUME RenameFails(p) \/ CommandFails(p) \/ Crash(p) PROVE Files'
  BY <1>4, <1>5 DEF RenameFails, CommandFails, Crash
<1>6. ASSUME pc[p] \in {"idle", "login", "gateway"}, pc' = [pc EXCEPT ![p] = "login"]
               \/ pc' = [pc EXCEPT ![p] = "open"],
             NEW m \in Stores, mem' = [mem EXCEPT ![p] = m], ~m.torn, ~m.newer,
             UNCHANGED <<store, tmp, data, fd, crashes>>, overlapped => overlapped',
             pc[p] = "idle" /\ ~overlapped' => \A q \in Procs \ {p} : pc[q] = "idle"
      PROVE  Files'
  <2>1. /\ pc'[p] \in {"login", "open"} /\ mem'[p] = m
        /\ \A q \in Procs \ {p} : pc'[q] = pc[q] /\ mem'[q] = mem[q]
    BY <1>6 DEF StoreType
  <2>2. ASSUME NEW i, Written(i) PROVE Written(i)'
    BY <1>6, <2>1, <2>2
  <2> QED BY <1>6, <2>1, <2>2 DEF Files
<1>7. ASSUME LoggedIn(p) PROVE Files'
  <2>1. cmd[p].account \in Accounts /\ mem[p] \in Stores /\ ~mem[p].torn /\ ~mem[p].newer
    BY <1>7 DEF LoggedIn, StoreType, Roles, Files
  <2> DEFINE m == Added(mem[p], cmd[p].account)
  <2>2. m \in Stores /\ ~m.torn /\ ~m.newer
    BY <2>1, AddedStore
  <2>3. mem' = [mem EXCEPT ![p] = m]
    BY <1>7 DEF LoggedIn
  <2> HIDE DEF m
  <2> QED BY <1>6, <1>7, <2>2, <2>3 DEF LoggedIn, Goto
<1>8. ASSUME Gateway(p) PROVE Files'
  <2> DEFINE m == [Loaded EXCEPT !.active = NameOf[cmd[p].account]]
  <2>1. cmd[p].account \in Accounts
    BY <1>8 DEF Gateway, Roles
  <2>2. m \in Stores /\ ~m.torn /\ ~m.newer
    BY <2>1, LoadedStore DEF Stores, Names
  <2>3. mem' = [mem EXCEPT ![p] = m]
    BY <1>8 DEF Gateway
  <2> HIDE DEF m
  <2> QED BY <1>6, <1>8, <2>2, <2>3 DEF Gateway, Goto
<1>9. ASSUME Use(p) \/ \E a \in Accounts : Connect(p, a) \/ Renew(p, a) PROVE Files'
  <2>1. Begins(p) /\ mem' = [mem EXCEPT ![p] = Loaded]
        /\ UNCHANGED <<store, tmp, data, fd, crashes>>
        /\ (Goto(p, "open") \/ Goto(p, "login"))
    BY <1>9 DEF Use, Connect, Renew
  <2> QED BY <1>6, <2>1, LoadedStore, Start DEF Goto
<1>10. ASSUME NEW n \in Names, Logout(p, n) PROVE Files'
  <2>1. PICK i \in RowsNamed(Loaded, n) : mem' = [mem EXCEPT ![p] = Removed(Loaded, i)]
    BY <1>10 DEF Logout
  <2>2. Removed(Loaded, i) \in Stores /\ ~Removed(Loaded, i).torn /\ ~Removed(Loaded, i).newer
    BY LoadedRow, LoadedStore, RemovedStore
  <2>3. Begins(p) /\ Goto(p, "open") /\ UNCHANGED <<store, tmp, data, fd, crashes>>
    BY <1>10 DEF Logout
  <2> QED BY <1>6, <2>1, <2>2, <2>3, Start DEF Goto
<1> QED BY <1>1, <1>2, <1>3, <1>5, <1>7, <1>8, <1>9, <1>10 DEF Save

-----------------------------------------------------------------------------
(* What was said to the users.                                              *)

\* A command that has met no other is alone.
LEMMA Alone ==
  ASSUME Files, ~overlapped, NEW p \in Procs, pc[p] # "idle"
  PROVE  \A q \in Procs \ {p} : pc[q] = "idle"
BY DEF Files

\* Every step keeps on disk, and in what will be saved, what was said.
LEMMA AccountedStep ==
  ASSUME StoreInv, StoreType', Files', NEW p \in Procs,
         \/ Save(p) \/ CommandFails(p) \/ LoggedIn(p) \/ Gateway(p) \/ Use(p) \/ Crash(p)
         \/ \E a \in Accounts : Connect(p, a) \/ Renew(p, a)
         \/ \E n \in Names : Logout(p, n)
  PROVE  Accounted'
<1> SUFFICES ASSUME ~overlapped'
             PROVE  /\ OnDisk'
                    /\ pc'[p] \in {"login", "open", "write", "rename"} => Carries(p)'
                    /\ pc'[p] = "gateway" => cmd'[p].account \in joined'
                    /\ \A q \in Procs \ {p} : pc'[q] = "idle"
  BY DEF Accounted
<1> DEFINE Kept == /\ OnDisk'
                   /\ pc'[p] \in {"login", "open", "write", "rename"} => Carries(p)'
                   /\ pc'[p] = "gateway" => cmd'[p].account \in joined'
           Rest == \A q \in Procs \ {p} : pc'[q] = pc[q]
<1>1. /\ ~overlapped /\ OnDisk /\ ~data[store].torn
      /\ \A q \in Procs \ {p} : pc[q] = "idle"
      /\ pc[p] \in {"login", "open", "write", "rename"} => Carries(p)
      /\ pc[p] = "gateway" => cmd[p].account \in joined
  <2>1. pc[p] = "idle" => Begins(p)
    BY DEF Save, OpenTmp, WriteTmp, Rename, RenameFails, CommandFails, LoggedIn, Gateway, Use,
           Crash, Connect, Renew, Logout
  <2>2. CASE pc[p] = "idle"
    BY <2>1, <2>2, Start DEF StoreInv, Accounted, Files
  <2>3. CASE pc[p] # "idle"
    <3>1. UNCHANGED overlapped
      BY <2>3 DEF Save, OpenTmp, WriteTmp, Rename, RenameFails, CommandFails, LoggedIn, Gateway, Use,
             Crash, Connect, Renew, Logout, Begins
    <3> QED BY <2>3, <3>1, Alone DEF StoreInv, Accounted, Files
  <2> QED BY <2>2, <2>3
<1>2. Good(Loaded) /\ \A a : Has(Loaded, a) <=> Has(data[store], a)
  BY <1>1, LoadedStore DEF StoreInv, OnDisk
<1>3. ASSUME data'[store'] = data[store], joined' \subseteq joined, out' \subseteq out,
             certs' \subseteq certs
      PROVE  OnDisk'
  BY <1>1, <1>3 DEF OnDisk, JoinedSurvives
<1>4. ASSUME UNCHANGED <<mem, cmd, joined, out, certs>>, pc[p] \in {"open", "write"},
             pc'[p] \in {"write", "rename"}
      PROVE  Carries(p)'
  BY <1>1, <1>4 DEF Carries
<1>5. ASSUME OpenTmp(p) PROVE Kept /\ Rest
  <2>1. /\ data' = [data EXCEPT ![tmp'] = Truncated] /\ UNCHANGED store /\ pc[p] = "open"
        /\ pc' = [pc EXCEPT ![p] = "write"]
        /\ UNCHANGED <<mem, cmd, joined, out, certs>>
    BY <1>5 DEF OpenTmp, Goto
  <2>2. data'[store'] = data[store] /\ pc'[p] = "write" /\ Rest
    BY <2>1 DEF Files, StoreInv, StoreType
  <2> QED BY <1>3, <1>4, <2>1, <2>2
<1>6. ASSUME WriteTmp(p) PROVE Kept /\ Rest
  <2>1. /\ data' = [data EXCEPT ![fd[p]] = mem[p]] /\ UNCHANGED store /\ pc[p] = "write"
        /\ pc' = [pc EXCEPT ![p] = "rename"] /\ UNCHANGED <<mem, cmd, joined, out, certs>>
    BY <1>6 DEF WriteTmp, Goto
  <2>2. fd[p] # store
    BY <1>1, <2>1 DEF Files, StoreInv
  <2>3. data'[store'] = data[store] /\ pc'[p] = "rename" /\ Rest
    BY <2>1, <2>2 DEF StoreInv, StoreType
  <2> QED BY <1>3, <1>4, <2>1, <2>3
<1>7. ASSUME Ends(p), data'[store'] = data[store], UNCHANGED <<joined, out, certs>>
      PROVE  Kept /\ Rest
  BY <1>3, <1>7, End DEF StoreInv
<1>8. ASSUME RenameFails(p) \/ CommandFails(p) \/ Crash(p) PROVE Kept /\ Rest
  BY <1>7, <1>8 DEF RenameFails, CommandFails, Crash
<1>9. ASSUME Rename(p) PROVE Kept /\ Rest
  <2>1. /\ pc[p] = "rename" /\ store' = tmp /\ data'[tmp] = data[tmp] /\ data[tmp] = mem[p]
        /\ certs' = certs
    BY <1>1, <1>9 DEF Rename, Files, StoreInv, StoreType
  <2>2. Carries(p) /\ Told(p) /\ data'[store'] = mem[p]
    BY <1>1, <1>9, <2>1 DEF Rename
  <2>3. OnDisk'
    <3>1. CASE cmd[p].kind = "connect"
      BY <1>1, <2>1, <2>2, <3>1 DEF Told, Carries, OnDisk, JoinedSurvives
    <3>2. CASE cmd[p].kind = "logout"
      BY <1>1, <2>1, <2>2, <3>2 DEF Told, Carries, OnDisk, JoinedSurvives
    <3>3. CASE cmd[p].kind \notin {"connect", "logout"}
      BY <1>1, <2>1, <2>2, <3>3 DEF Told, Carries, OnDisk, JoinedSurvives
    <3> QED BY <3>1, <3>2, <3>3
  <2>4. CASE Ends(p)
    BY <2>3, <2>4, End DEF StoreInv
  <2>5. CASE cmd[p].kind = "connect" /\ Goto(p, "gateway") /\ UNCHANGED <<cmd, mem, fd>>
    <3>1. pc'[p] = "gateway" /\ Rest /\ cmd' = cmd /\ cmd[p].account \in joined'
      BY <2>2, <2>5 DEF Goto, Told, StoreInv, StoreType
    <3> QED BY <2>3, <3>1
  <2> QED BY <1>9, <2>4, <2>5 DEF Rename
<1>10. ASSUME LoggedIn(p) PROVE Kept /\ Rest
  <2> DEFINE a == cmd[p].account
  <2>1. /\ pc[p] = "login" /\ Carries(p) /\ a \in Accounts /\ cmd[p].kind \in {"connect", "renew"}
        /\ mem[p] \in Stores /\ ~mem[p].newer
    BY <1>1, <1>10 DEF LoggedIn, StoreInv, StoreType, Roles, Files
  <2>2. /\ certs' = certs \cup {a} /\ mem'[p] = Added(mem[p], a) /\ pc'[p] = "open" /\ Rest
        /\ UNCHANGED <<store, data, cmd, joined, out>>
    BY <1>10 DEF LoggedIn, Goto, StoreInv, StoreType
  <2>3. Good(mem'[p]) /\ \A b : Has(mem'[p], b) <=> Has(mem[p], b) \/ b = a
    BY <2>1, <2>2, AddedStore DEF Carries
  <2>4. a \notin out
    BY <2>1 DEF Carries
  <2>5. OnDisk'
    BY <1>1, <2>2, <2>4 DEF OnDisk, JoinedSurvives
  <2>6. Carries(p)'
    BY <2>1, <2>2, <2>3, <2>4 DEF Carries
  <2> QED BY <2>2, <2>5, <2>6
<1>11. ASSUME Gateway(p) PROVE Kept /\ Rest
  <2> DEFINE a == cmd[p].account
             m == [Loaded EXCEPT !.active = NameOf[a]]
  <2>1. pc[p] = "gateway" /\ a \in joined
    BY <1>1, <1>11 DEF Gateway
  <2>2. /\ mem'[p] = m /\ cmd'[p].kind = "activate" /\ pc'[p] = "open" /\ Rest
        /\ UNCHANGED <<store, data, certs, joined, out>>
    BY <1>11 DEF Gateway, Goto, StoreInv, StoreType
  <2>3. OnDisk'
    BY <1>3, <2>2
  <2>4. /\ m.rows = Loaded.rows /\ m.active = NameOf[a] /\ m.newer = Loaded.newer
        /\ Loaded \in Stores /\ ~Loaded.newer
    BY LoadedStore DEF Stores, StoreInv
  <2> HIDE DEF m
  <2>5. \A b : Has(m, b) <=> Has(data[store], b)
    BY <1>2, <2>4 DEF Has
  <2>6. \E i \in DOMAIN m.rows : NameOf[m.rows[i]] = m.active
    <3>1. Has(Loaded, a)
      BY <1>1, <1>2, <2>1 DEF OnDisk, JoinedSurvives
    <3> QED BY <2>4, <3>1, Rows
  <2>7. Good(m)
    BY <1>2, <2>4, <2>6 DEF Good, RowsNamed
  <2>8. Carries(p)'
    BY <1>1, <2>2, <2>5, <2>7 DEF Carries, OnDisk, JoinedSurvives
  <2> QED BY <2>2, <2>3, <2>8
<1>12. ASSUME Use(p) PROVE Kept /\ Rest
  <2>1. /\ mem'[p] = Loaded /\ cmd'[p].kind = "use" /\ pc'[p] = "open" /\ Rest
        /\ UNCHANGED <<store, data, certs, joined, out>>
    BY <1>12 DEF Use, Goto, StoreInv, StoreType
  <2>2. Carries(p)'
    BY <1>1, <1>2, <2>1 DEF Carries, OnDisk, JoinedSurvives
  <2> QED BY <1>3, <2>1, <2>2
<1>13. ASSUME NEW a \in Accounts, Connect(p, a) \/ Renew(p, a) PROVE Kept /\ Rest
  <2>1. /\ mem'[p] = Loaded /\ cmd'[p].kind \in {"connect", "renew"} /\ cmd'[p].account = a
        /\ pc'[p] = "login" /\ Rest /\ UNCHANGED <<store, data, certs, joined>>
    BY <1>13 DEF Connect, Renew, Goto, StoreInv, StoreType
  <2>2. out' \subseteq out /\ a \notin out'
    <3>1. CASE Connect(p, a)
      BY <3>1 DEF Connect
    <3>2. CASE Renew(p, a)
      BY <1>1, <1>2, <3>2 DEF Renew, OnDisk
    <3> QED BY <1>13, <3>1, <3>2
  <2>3. Carries(p)'
    BY <1>1, <1>2, <2>1, <2>2 DEF Carries, OnDisk, JoinedSurvives
  <2> QED BY <1>3, <2>1, <2>2, <2>3
<1>14. ASSUME NEW n \in Names, Logout(p, n) PROVE Kept /\ Rest
  <2>1. PICK i \in RowsNamed(Loaded, n) :
          /\ cmd' = [cmd EXCEPT ![p] = [kind |-> "logout", account |-> Loaded.rows[i]]]
          /\ mem' = [mem EXCEPT ![p] = Removed(Loaded, i)]
          /\ certs' = certs \ {Loaded.rows[i]}
    BY <1>14 DEF Logout, Unlinked
  <2> DEFINE a == Loaded.rows[i]
             m == Removed(Loaded, i)
  <2>2. /\ mem'[p] = m /\ cmd'[p].kind = "logout" /\ cmd'[p].account = a
        /\ pc'[p] = "open" /\ Rest /\ UNCHANGED <<store, data, joined, out>>
    BY <1>14, <2>1 DEF Logout, Goto, StoreInv, StoreType
  <2>3. Good(m) /\ \A b : Has(m, b) <=> Has(Loaded, b) /\ b # a
    BY <1>2, LoadedStore, LoadedRow, RemovedStore DEF StoreInv
  <2>4. OnDisk'
    BY <1>3, <2>1, <2>2
  <2> HIDE DEF a, m
  <2>5. a \notin certs'
    BY <2>1 DEF a
  <2>6. Carries(p)'
    BY <1>1, <1>2, <2>2, <2>3, <2>5 DEF Carries, OnDisk, JoinedSurvives
  <2> QED BY <2>2, <2>4, <2>6
<1>15. Kept /\ Rest
  BY <1>5, <1>6, <1>8, <1>9, <1>10, <1>11, <1>12, <1>13, <1>14 DEF Save
<1> QED BY <1>1, <1>15

-----------------------------------------------------------------------------
(* The theorems.                                                            *)

\* Before any command the store is empty, or unreadable for being newer.
LEMMA StoreInit == Init => StoreInv
<1> SUFFICES ASSUME Init PROVE StoreInv
  OBVIOUS
<1>1. 0 \in Inodes /\ None \notin Inodes
  BY StoreAssumption, FS_CardinalityType DEF Inodes
<1>2. PICK newer \in BOOLEAN : data = [i \in Inodes |-> [Empty EXCEPT !.newer = newer]]
  BY DEF Init
<1> DEFINE first == [Empty EXCEPT !.newer = newer]
<1>3. first \in Stores /\ ~first.torn /\ first.rows = <<>> /\ first.active = None
  BY EmptySeq DEF Stores, Empty
<1> HIDE DEF first
<1>4. DOMAIN first.rows = {} /\ Len(first.rows) = 0
  BY <1>3
<1>5. Idle \in [kind : Kinds, account : Accounts \cup {None}] /\ Idle.kind = "none"
  BY DEF Idle, Kinds
<1>6. data = [i \in Inodes |-> first] /\ data[store] = first /\ store = 0
  BY <1>1, <1>2 DEF Init, first
<1>7. StoreType
  BY <1>1, <1>3, <1>5, <1>6, Empties DEF Init, StoreType, Places
<1>8. Roles /\ Files
  BY <1>1, <1>3, <1>5, <1>6, Empties DEF Init, Roles, Files, Written
<1>9. Accounted
  BY <1>3, <1>4, <1>6 DEF Init, Accounted, OnDisk, JoinedSurvives, Good, Has, Contains
<1> QED BY <1>7, <1>8, <1>9 DEF StoreInv

\* Every step keeps all of it.
LEMMA StoreNext == StoreInv /\ [Next]_vars => StoreInv'
<1> SUFFICES ASSUME StoreInv, [Next]_vars PROVE StoreInv'
  OBVIOUS
<1>1. CASE Next
  <2> PICK p \in Procs :
         \/ Save(p) \/ CommandFails(p) \/ LoggedIn(p) \/ Gateway(p) \/ Use(p) \/ Crash(p)
         \/ \E a \in Accounts : Connect(p, a) \/ Renew(p, a)
         \/ \E n \in Names : Logout(p, n)
    BY <1>1 DEF Next
  <2>1. StoreType' /\ Roles'
    BY TypeStep DEF StoreInv
  <2>2. Files'
    BY FilesStep DEF StoreInv
  <2> QED BY <2>1, <2>2, AccountedStep DEF StoreInv
<1>2. CASE UNCHANGED vars
  BY <1>2 DEF vars, StoreInv, StoreType, Roles, Files, Written, Accounted, OnDisk, JoinedSurvives,
              Carries, Loaded
<1> QED BY <1>1, <1>2

\* The file is never half-written, unless commands overlap and one of them is still
\* writing what another has renamed, or was killed.
THEOREM AlwaysSavedAtomically == Spec => []SavedAtomically
<1>1. StoreInv => SavedAtomically
  BY DEF StoreInv, Files, Written, SavedAtomically
<1> QED BY <1>1, StoreInit, StoreNext, PTL DEF Spec

\* As long as commands do not overlap, what a user has joined stays in the file until
\* that user logs out, whatever fails or is killed.
THEOREM JoinedIsAlwaysKept == Spec => []JoinedIsKept
<1>1. StoreInv => JoinedIsKept
  BY DEF StoreInv, Accounted, OnDisk, JoinedIsKept
<1> QED BY <1>1, StoreInit, StoreNext, PTL DEF Spec

\* As long as commands do not overlap, logging out leaves neither row nor certificate,
\* and the active network has a row.
THEOREM LogoutAlwaysForgets == Spec => []LogoutForgets
<1>1. StoreInv => LogoutForgets
  BY DEF StoreInv, Accounted, OnDisk, Good, LogoutForgets
<1> QED BY <1>1, StoreInit, StoreNext, PTL DEF Spec

=============================================================================
