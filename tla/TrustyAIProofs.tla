--------------------------- MODULE TrustyAIProofs ---------------------------
(***************************************************************************)
(* Proofs about TrustyAI, for any services, namespaces, metrics,           *)
(* orchestrators and InferenceServices, any number of commands and any     *)
(* number of failures: type correctness, that a command that reports no    *)
(* failure has done what the user agreed to, and that a directory with     *)
(* metadata has all the files of its service, where no other pod of the    *)
(* namespace can be taken for that of the service.                         *)
(***************************************************************************)
EXTENDS TrustyAI, WellFoundedInduction, FiniteSetTheorems, TLAPS

-----------------------------------------------------------------------------
(* The two goroutines of a copy. A pipe that CopyFromPod's reader has broken *)
(* has left an error behind; so has a writer that stopped early, unless the  *)
(* other side has one.                                                       *)
CopySound ==
    /\ copy.pipe = "eof" => copy.writer = "done"
    /\ copy.errCh = "empty" <=> copy.writer \in {"write", "report"}
    /\ copy.errCh = "nil" => ~copy.writeErr
    /\ copy.reader = "done" => copy.errCh # "empty" /\ (copy.errCh = "error" => copy.readErr)
    /\ copy.way = "from" =>
         /\ copy.writer = "write" => ~copy.writeErr
         /\ copy.reader = "close" => copy.readErr \/ copy.pipe # "open"
         /\ copy.pipe = "broken" => copy.readErr
    /\ copy.writer # "write" /\ ~copy.writeErr /\ ~copy.readErr => copy.left = {}

(* Nothing of F is lost without an error of the writer.                      *)
Whole(F) == copy.writeErr \/ F \subseteq copy.left \cup copy.landed

(* Where each command can be, and what it holds there.                       *)
Position ==
    /\ IF cli.pc = "copy"
       THEN /\ cli.dir \in Dir /\ cli.pod \in Services /\ CopySound
            /\ \/ cmd.do = "backup data" /\ copy.way = "from"
               \/ cmd.do = "restore data" /\ copy.way = "to" /\ dirs[cli.dir].kind = "data"
       ELSE copy = NoCopy
    /\ cli.pc \in {"service", "mkdir", "dump", "metadata"} => cmd.do = "backup data"
    /\ cli.pc \in {"dump", "metadata"} => cli.dir \in Dir
    /\ cli.pc = "mkdir" =>
         \A s \in Services : Cur(s) /\ Format[s] = "PVC" => cli.pod \in Services
    /\ cli.pc = "list" /\ cmd.do = "restore data" => cli.dir \in Dir
    /\ cli.pc = "target" => cmd.do = "restore data" /\ cli.dir \in Dir
    /\ cli.pc \in {"confirm", "go"} /\ cmd.do = "restore data" =>
         cli.dir \in Dir /\ cli.pod \in Services
    /\ cli.pc = "confirm" \/ cli.confirmed => cmd.do \notin Backups
    /\ cli.pc = "namespace" => cmd.do \in {"backup metrics", "restore metrics"}
    /\ cli.pc = "post" => cmd.do = "restore metrics" /\ Cur(cli.ns) /\ cli.ns \in Namespaces
    /\ cli.pc = "get" => cmd.do = "guardrails"
    /\ cli.pc = "patch" => cmd.do \in {"otel", "guardrails", "deadlock"}
    /\ cmd.do \in {"otel", "guardrails"} => cli.cand \subseteq Orchestrators
    /\ cmd.do = "deadlock" => cli.cand \subseteq Isvcs

-----------------------------------------------------------------------------
(* What the user has agreed to, and what of it is done.                      *)
Agreed ==
    /\ cli.pc = "confirm" =>
         /\ ~Flag("dry-run")
         /\ cmd.do = "restore metrics" => cli.todo = cli.reached
         /\ cmd.do \in {"otel", "guardrails", "deadlock"} => cli.todo = cli.cand
    /\ cli.confirmed =>
         ~Flag("dry-run") /\ cli.pc \in {"go", "copy", "namespace", "post", "patch", "end", "idle"}

Counting == cli.confirmed /\ ~cli.failed /\ cli.pc # "idle"
Past(x) == x \notin cli.todo \/ cli.pc = "end"

FilesDone ==
    cmd.do = "restore data" /\ Counting /\ dirs[cli.dir].kind = "data" =>
      /\ cli.pc = "copy" => Whole(dirs[cli.dir].files)
      /\ cli.pc = "end" => cli.pod \in Services /\ dirs[cli.dir].files \subseteq data[cli.pod]

Scheduled(n, r) ==
    \E q \in Requests : KeyOf[q] = KeyOf[r] /\ sched[n][q] > 0 /\ (~Flag("skip-existing") => q = r)

MetricsDone ==
    cmd.do = "restore metrics" /\ Counting =>
      /\ \A n \in cli.reached : Past(n) => \A r \in Requests : cli.entries[r] > 0 => Scheduled(n, r)
      /\ cli.pc = "post" =>
           /\ \A r \in Requests : cli.left[r] < cli.entries[r] => Scheduled(cli.ns, r)
           /\ \A k \in cli.have : /\ Flag("skip-existing")
                                  /\ \E q \in Requests : KeyOf[q] = k /\ sched[cli.ns][q] > 0

Changed(x) ==
    /\ cmd.do = "otel" => ~hasAnyOldFields(otel[x])
    /\ cmd.do = "guardrails" => probe[x] = "ok"
    /\ cmd.do = "deadlock" => ~pods[x].old

PatchesDone ==
    cmd.do \in {"otel", "guardrails", "deadlock"} /\ Counting =>
      \A x \in cli.cand : Past(x) => Changed(x)

-----------------------------------------------------------------------------
(* No pod but its own can be taken for that of a service with files.         *)
Apart ==
    \A s, t \in Services :
      Format[s] = "PVC" /\ Ns[s] = Ns[t] /\ s # t => t \in Unmounted /\ Format[t] # "PVC"

Metadata ==
    /\ \A d \in Dir :
         /\ dirs[d].kind = "data" => Format[d[2]] = "PVC"
         /\ Format[d[2]] = "PVC" /\ dirs[d].meta # 0 => dirs[d].had \subseteq dirs[d].files
    /\ cli.pc = "mkdir" => \A s \in Services : Cur(s) /\ Format[s] = "PVC" => cli.pod = s
    /\ cli.pc = "copy" /\ cmd.do = "backup data" => Whole(cli.had)
    /\ cli.pc = "dump" => Format[cli.dir[2]] = "DATABASE"
    /\ cli.pc = "metadata" /\ Format[cli.dir[2]] = "PVC" => cli.had \subseteq dirs[cli.dir].files
-----------------------------------------------------------------------------
(* The smallest of a set, and the one in hand.                               *)

LEMMA Least == ASSUME NEW S, S \subseteq Nat, S # {} PROVE First(S) \in S
<1>1. PICK m \in S : \A y \in S : ~(<<y, m>> \in OpToRel(<, Nat))
  BY WFMin, NatLessThanWellFounded
<1>2. \A y \in S : y < m => <<y, m>> \in OpToRel(<, Nat)
  <2> SUFFICES ASSUME NEW y \in S, y < m PROVE <<y, m>> \in OpToRel(<, Nat)
    OBVIOUS
  <2>1. <<y, m>> \in Nat \X Nat /\ <<y, m>>[1] < <<y, m>>[2]
    OBVIOUS
  <2> QED
    BY <2>1 DEF OpToRel
<1>3. \A y \in S : ~(y < m)
  BY <1>1, <1>2, Zenon
<1>4. \A y \in S : m <= y
  BY <1>3
<1> QED
  BY <1>4 DEF First

LEMMA CurIsFirst == ASSUME cli \in Process, NEW c, Cur(c) PROVE First(cli.todo) = c
<1>1. cli.todo \subseteq Nat
  BY DEF Process
<1> QED
  BY <1>1 DEF Cur, First

-----------------------------------------------------------------------------
(* What the steps do to the process.                                         *)

Places ==
    {"start", "list", "service", "mkdir", "copy", "dump", "metadata", "target",
     "confirm", "go", "namespace", "post", "get", "patch", "end", "idle"}

Members ==
    /\ cli'.pc \in Places /\ cli'.todo \in SUBSET Nat /\ cli'.cand \in SUBSET Nat
    /\ cli'.dir \in Dir \cup {NoDir} /\ cli'.pod \in Services \cup {0}
    /\ cli'.target \in Services \cup {0} /\ cli'.had \in SUBSET Items
    /\ cli'.entries \in Counts /\ cli'.left \in Counts
    /\ cli'.have \in SUBSET {KeyOf[r] : r \in Requests} /\ cli'.ns \in Namespaces \cup {0}
    /\ cli'.reached \in SUBSET Namespaces
    /\ cli'.patch \in [Orchestrators -> SUBSET (newSchemaFields \X Texts)]
    /\ cli'.failed \in BOOLEAN /\ cli'.skipped \in BOOLEAN /\ cli'.confirmed \in BOOLEAN

LEMMA Goes ==
    ASSUME cli \in Process, NEW l \in Places,
           cli' = [cli EXCEPT !.pc = l]
    PROVE  /\ cli' \in Process
           /\ cli'.pc = l /\ cli'.todo = cli.todo /\ cli'.cand = cli.cand
           /\ cli'.dir = cli.dir /\ cli'.pod = cli.pod /\ cli'.target = cli.target
           /\ cli'.had = cli.had /\ cli'.entries = cli.entries /\ cli'.left = cli.left
           /\ cli'.have = cli.have /\ cli'.ns = cli.ns /\ cli'.reached = cli.reached
           /\ cli'.patch = cli.patch /\ cli'.failed = cli.failed
           /\ cli'.skipped = cli.skipped /\ cli'.confirmed = cli.confirmed
<1>1. /\ cli'.pc = l /\ cli'.todo = cli.todo /\ cli'.cand = cli.cand /\ cli'.dir = cli.dir
      /\ cli'.pod = cli.pod /\ cli'.target = cli.target /\ cli'.had = cli.had
      /\ cli'.entries = cli.entries /\ cli'.left = cli.left /\ cli'.have = cli.have
      /\ cli'.ns = cli.ns /\ cli'.reached = cli.reached /\ cli'.patch = cli.patch
      /\ cli'.failed = cli.failed /\ cli'.skipped = cli.skipped
      /\ cli'.confirmed = cli.confirmed
  BY DEF Process
<1>2. Members
  BY <1>1 DEF Process, Members
<1>3. cli' \in Process
  BY <1>2 DEF Process, Members, Places
<1> QED
  BY <1>1, <1>3

LEMMA Selects ==
    ASSUME cli \in Process, NEW l \in Places, NEW d \in Dir \cup {NoDir},
           cli' = [cli EXCEPT !.pc = l, !.dir = d]
    PROVE  /\ cli' \in Process
           /\ cli'.pc = l /\ cli'.todo = cli.todo /\ cli'.cand = cli.cand /\ cli'.dir = d
           /\ cli'.pod = cli.pod /\ cli'.target = cli.target /\ cli'.had = cli.had
           /\ cli'.entries = cli.entries /\ cli'.left = cli.left /\ cli'.have = cli.have
           /\ cli'.ns = cli.ns /\ cli'.reached = cli.reached /\ cli'.patch = cli.patch
           /\ cli'.failed = cli.failed /\ cli'.skipped = cli.skipped
           /\ cli'.confirmed = cli.confirmed
<1>1. /\ cli'.pc = l /\ cli'.todo = cli.todo /\ cli'.cand = cli.cand /\ cli'.dir = d
      /\ cli'.pod = cli.pod /\ cli'.target = cli.target /\ cli'.had = cli.had
      /\ cli'.entries = cli.entries /\ cli'.left = cli.left /\ cli'.have = cli.have
      /\ cli'.ns = cli.ns /\ cli'.reached = cli.reached /\ cli'.patch = cli.patch
      /\ cli'.failed = cli.failed /\ cli'.skipped = cli.skipped
      /\ cli'.confirmed = cli.confirmed
  BY DEF Process
<1>2. Members
  BY <1>1 DEF Process, Members
<1>3. cli' \in Process
  BY <1>2 DEF Process, Members, Places
<1> QED
  BY <1>1, <1>3

LEMMA Enters ==
    ASSUME cli \in Process, NEW l \in Places, NEW e \in Counts,
           cli' = [cli EXCEPT !.pc = l, !.entries = e]
    PROVE  /\ cli' \in Process
           /\ cli'.pc = l /\ cli'.todo = cli.todo /\ cli'.cand = cli.cand
           /\ cli'.dir = cli.dir /\ cli'.pod = cli.pod /\ cli'.target = cli.target
           /\ cli'.had = cli.had /\ cli'.entries = e /\ cli'.left = cli.left
           /\ cli'.have = cli.have /\ cli'.ns = cli.ns /\ cli'.reached = cli.reached
           /\ cli'.patch = cli.patch /\ cli'.failed = cli.failed
           /\ cli'.skipped = cli.skipped /\ cli'.confirmed = cli.confirmed
<1>1. /\ cli'.pc = l /\ cli'.todo = cli.todo /\ cli'.cand = cli.cand /\ cli'.dir = cli.dir
      /\ cli'.pod = cli.pod /\ cli'.target = cli.target /\ cli'.had = cli.had
      /\ cli'.entries = e /\ cli'.left = cli.left /\ cli'.have = cli.have
      /\ cli'.ns = cli.ns /\ cli'.reached = cli.reached /\ cli'.patch = cli.patch
      /\ cli'.failed = cli.failed /\ cli'.skipped = cli.skipped
      /\ cli'.confirmed = cli.confirmed
  BY DEF Process
<1>2. Members
  BY <1>1 DEF Process, Members
<1>3. cli' \in Process
  BY <1>2 DEF Process, Members, Places
<1> QED
  BY <1>1, <1>3

LEMMA Lists ==
    ASSUME cli \in Process, NEW l \in Places, NEW td \in SUBSET Nat,
           cli' = [cli EXCEPT !.pc = l, !.todo = td]
    PROVE  /\ cli' \in Process
           /\ cli'.pc = l /\ cli'.todo = td /\ cli'.cand = cli.cand /\ cli'.dir = cli.dir
           /\ cli'.pod = cli.pod /\ cli'.target = cli.target /\ cli'.had = cli.had
           /\ cli'.entries = cli.entries /\ cli'.left = cli.left /\ cli'.have = cli.have
           /\ cli'.ns = cli.ns /\ cli'.reached = cli.reached /\ cli'.patch = cli.patch
           /\ cli'.failed = cli.failed /\ cli'.skipped = cli.skipped
           /\ cli'.confirmed = cli.confirmed
<1>1. /\ cli'.pc = l /\ cli'.todo = td /\ cli'.cand = cli.cand /\ cli'.dir = cli.dir
      /\ cli'.pod = cli.pod /\ cli'.target = cli.target /\ cli'.had = cli.had
      /\ cli'.entries = cli.entries /\ cli'.left = cli.left /\ cli'.have = cli.have
      /\ cli'.ns = cli.ns /\ cli'.reached = cli.reached /\ cli'.patch = cli.patch
      /\ cli'.failed = cli.failed /\ cli'.skipped = cli.skipped
      /\ cli'.confirmed = cli.confirmed
  BY DEF Process
<1>2. Members
  BY <1>1 DEF Process, Members
<1>3. cli' \in Process
  BY <1>2 DEF Process, Members, Places
<1> QED
  BY <1>1, <1>3

LEMMA Finds ==
    ASSUME cli \in Process, NEW l \in Places, NEW p \in Services \cup {0},
           cli' = [cli EXCEPT !.pc = l, !.pod = p]
    PROVE  /\ cli' \in Process
           /\ cli'.pc = l /\ cli'.todo = cli.todo /\ cli'.cand = cli.cand
           /\ cli'.dir = cli.dir /\ cli'.pod = p /\ cli'.target = cli.target
           /\ cli'.had = cli.had /\ cli'.entries = cli.entries /\ cli'.left = cli.left
           /\ cli'.have = cli.have /\ cli'.ns = cli.ns /\ cli'.reached = cli.reached
           /\ cli'.patch = cli.patch /\ cli'.failed = cli.failed
           /\ cli'.skipped = cli.skipped /\ cli'.confirmed = cli.confirmed
<1>1. /\ cli'.pc = l /\ cli'.todo = cli.todo /\ cli'.cand = cli.cand /\ cli'.dir = cli.dir
      /\ cli'.pod = p /\ cli'.target = cli.target /\ cli'.had = cli.had
      /\ cli'.entries = cli.entries /\ cli'.left = cli.left /\ cli'.have = cli.have
      /\ cli'.ns = cli.ns /\ cli'.reached = cli.reached /\ cli'.patch = cli.patch
      /\ cli'.failed = cli.failed /\ cli'.skipped = cli.skipped
      /\ cli'.confirmed = cli.confirmed
  BY DEF Process
<1>2. Members
  BY <1>1 DEF Process, Members
<1>3. cli' \in Process
  BY <1>2 DEF Process, Members, Places
<1> QED
  BY <1>1, <1>3

LEMMA Opens ==
    ASSUME cli \in Process, NEW l \in Places, NEW d \in Dir \cup {NoDir}, NEW h \in SUBSET
           Items,
           cli' = [cli EXCEPT !.pc = l, !.dir = d, !.had = h]
    PROVE  /\ cli' \in Process
           /\ cli'.pc = l /\ cli'.todo = cli.todo /\ cli'.cand = cli.cand /\ cli'.dir = d
           /\ cli'.pod = cli.pod /\ cli'.target = cli.target /\ cli'.had = h
           /\ cli'.entries = cli.entries /\ cli'.left = cli.left /\ cli'.have = cli.have
           /\ cli'.ns = cli.ns /\ cli'.reached = cli.reached /\ cli'.patch = cli.patch
           /\ cli'.failed = cli.failed /\ cli'.skipped = cli.skipped
           /\ cli'.confirmed = cli.confirmed
<1>1. /\ cli'.pc = l /\ cli'.todo = cli.todo /\ cli'.cand = cli.cand /\ cli'.dir = d
      /\ cli'.pod = cli.pod /\ cli'.target = cli.target /\ cli'.had = h
      /\ cli'.entries = cli.entries /\ cli'.left = cli.left /\ cli'.have = cli.have
      /\ cli'.ns = cli.ns /\ cli'.reached = cli.reached /\ cli'.patch = cli.patch
      /\ cli'.failed = cli.failed /\ cli'.skipped = cli.skipped
      /\ cli'.confirmed = cli.confirmed
  BY DEF Process
<1>2. Members
  BY <1>1 DEF Process, Members
<1>3. cli' \in Process
  BY <1>2 DEF Process, Members, Places
<1> QED
  BY <1>1, <1>3

LEMMA Aims ==
    ASSUME cli \in Process, NEW l \in Places, NEW t \in Services \cup {0},
           cli' = [cli EXCEPT !.pc = l, !.target = t]
    PROVE  /\ cli' \in Process
           /\ cli'.pc = l /\ cli'.todo = cli.todo /\ cli'.cand = cli.cand
           /\ cli'.dir = cli.dir /\ cli'.pod = cli.pod /\ cli'.target = t
           /\ cli'.had = cli.had /\ cli'.entries = cli.entries /\ cli'.left = cli.left
           /\ cli'.have = cli.have /\ cli'.ns = cli.ns /\ cli'.reached = cli.reached
           /\ cli'.patch = cli.patch /\ cli'.failed = cli.failed
           /\ cli'.skipped = cli.skipped /\ cli'.confirmed = cli.confirmed
<1>1. /\ cli'.pc = l /\ cli'.todo = cli.todo /\ cli'.cand = cli.cand /\ cli'.dir = cli.dir
      /\ cli'.pod = cli.pod /\ cli'.target = t /\ cli'.had = cli.had
      /\ cli'.entries = cli.entries /\ cli'.left = cli.left /\ cli'.have = cli.have
      /\ cli'.ns = cli.ns /\ cli'.reached = cli.reached /\ cli'.patch = cli.patch
      /\ cli'.failed = cli.failed /\ cli'.skipped = cli.skipped
      /\ cli'.confirmed = cli.confirmed
  BY DEF Process
<1>2. Members
  BY <1>1 DEF Process, Members
<1>3. cli' \in Process
  BY <1>2 DEF Process, Members, Places
<1> QED
  BY <1>1, <1>3

LEMMA Agrees ==
    ASSUME cli \in Process, NEW l \in Places, NEW c \in BOOLEAN,
           cli' = [cli EXCEPT !.pc = l, !.confirmed = c]
    PROVE  /\ cli' \in Process
           /\ cli'.pc = l /\ cli'.todo = cli.todo /\ cli'.cand = cli.cand
           /\ cli'.dir = cli.dir /\ cli'.pod = cli.pod /\ cli'.target = cli.target
           /\ cli'.had = cli.had /\ cli'.entries = cli.entries /\ cli'.left = cli.left
           /\ cli'.have = cli.have /\ cli'.ns = cli.ns /\ cli'.reached = cli.reached
           /\ cli'.patch = cli.patch /\ cli'.failed = cli.failed
           /\ cli'.skipped = cli.skipped /\ cli'.confirmed = c
<1>1. /\ cli'.pc = l /\ cli'.todo = cli.todo /\ cli'.cand = cli.cand /\ cli'.dir = cli.dir
      /\ cli'.pod = cli.pod /\ cli'.target = cli.target /\ cli'.had = cli.had
      /\ cli'.entries = cli.entries /\ cli'.left = cli.left /\ cli'.have = cli.have
      /\ cli'.ns = cli.ns /\ cli'.reached = cli.reached /\ cli'.patch = cli.patch
      /\ cli'.failed = cli.failed /\ cli'.skipped = cli.skipped /\ cli'.confirmed = c
  BY DEF Process
<1>2. Members
  BY <1>1 DEF Process, Members
<1>3. cli' \in Process
  BY <1>2 DEF Process, Members, Places
<1> QED
  BY <1>1, <1>3

LEMMA Reaches ==
    ASSUME cli \in Process, NEW l \in Places, NEW td \in SUBSET Nat, NEW re \in SUBSET
           Namespaces,
           cli' = [cli EXCEPT !.pc = l, !.todo = td, !.reached = re]
    PROVE  /\ cli' \in Process
           /\ cli'.pc = l /\ cli'.todo = td /\ cli'.cand = cli.cand /\ cli'.dir = cli.dir
           /\ cli'.pod = cli.pod /\ cli'.target = cli.target /\ cli'.had = cli.had
           /\ cli'.entries = cli.entries /\ cli'.left = cli.left /\ cli'.have = cli.have
           /\ cli'.ns = cli.ns /\ cli'.reached = re /\ cli'.patch = cli.patch
           /\ cli'.failed = cli.failed /\ cli'.skipped = cli.skipped
           /\ cli'.confirmed = cli.confirmed
<1>1. /\ cli'.pc = l /\ cli'.todo = td /\ cli'.cand = cli.cand /\ cli'.dir = cli.dir
      /\ cli'.pod = cli.pod /\ cli'.target = cli.target /\ cli'.had = cli.had
      /\ cli'.entries = cli.entries /\ cli'.left = cli.left /\ cli'.have = cli.have
      /\ cli'.ns = cli.ns /\ cli'.reached = re /\ cli'.patch = cli.patch
      /\ cli'.failed = cli.failed /\ cli'.skipped = cli.skipped
      /\ cli'.confirmed = cli.confirmed
  BY DEF Process
<1>2. Members
  BY <1>1 DEF Process, Members
<1>3. cli' \in Process
  BY <1>2 DEF Process, Members, Places
<1> QED
  BY <1>1, <1>3

LEMMA Asks ==
    ASSUME cli \in Process, NEW l \in Places, NEW n \in Namespaces \cup {0}, NEW hv \in
           SUBSET {KeyOf[r] : r \in Requests}, NEW lf \in Counts,
           cli' = [cli EXCEPT !.pc = l, !.ns = n, !.have = hv, !.left = lf]
    PROVE  /\ cli' \in Process
           /\ cli'.pc = l /\ cli'.todo = cli.todo /\ cli'.cand = cli.cand
           /\ cli'.dir = cli.dir /\ cli'.pod = cli.pod /\ cli'.target = cli.target
           /\ cli'.had = cli.had /\ cli'.entries = cli.entries /\ cli'.left = lf
           /\ cli'.have = hv /\ cli'.ns = n /\ cli'.reached = cli.reached
           /\ cli'.patch = cli.patch /\ cli'.failed = cli.failed
           /\ cli'.skipped = cli.skipped /\ cli'.confirmed = cli.confirmed
<1>1. /\ cli'.pc = l /\ cli'.todo = cli.todo /\ cli'.cand = cli.cand /\ cli'.dir = cli.dir
      /\ cli'.pod = cli.pod /\ cli'.target = cli.target /\ cli'.had = cli.had
      /\ cli'.entries = cli.entries /\ cli'.left = lf /\ cli'.have = hv /\ cli'.ns = n
      /\ cli'.reached = cli.reached /\ cli'.patch = cli.patch /\ cli'.failed = cli.failed
      /\ cli'.skipped = cli.skipped /\ cli'.confirmed = cli.confirmed
  BY DEF Process
<1>2. Members
  BY <1>1 DEF Process, Members
<1>3. cli' \in Process
  BY <1>2 DEF Process, Members, Places
<1> QED
  BY <1>1, <1>3

LEMMA Settles ==
    ASSUME cli \in Process, NEW l \in Places, NEW lf \in Counts, NEW f \in BOOLEAN, NEW k
           \in BOOLEAN,
           cli' = [cli EXCEPT !.pc = l, !.left = lf, !.failed = f, !.skipped = k]
    PROVE  /\ cli' \in Process
           /\ cli'.pc = l /\ cli'.todo = cli.todo /\ cli'.cand = cli.cand
           /\ cli'.dir = cli.dir /\ cli'.pod = cli.pod /\ cli'.target = cli.target
           /\ cli'.had = cli.had /\ cli'.entries = cli.entries /\ cli'.left = lf
           /\ cli'.have = cli.have /\ cli'.ns = cli.ns /\ cli'.reached = cli.reached
           /\ cli'.patch = cli.patch /\ cli'.failed = f /\ cli'.skipped = k
           /\ cli'.confirmed = cli.confirmed
<1>1. /\ cli'.pc = l /\ cli'.todo = cli.todo /\ cli'.cand = cli.cand /\ cli'.dir = cli.dir
      /\ cli'.pod = cli.pod /\ cli'.target = cli.target /\ cli'.had = cli.had
      /\ cli'.entries = cli.entries /\ cli'.left = lf /\ cli'.have = cli.have
      /\ cli'.ns = cli.ns /\ cli'.reached = cli.reached /\ cli'.patch = cli.patch
      /\ cli'.failed = f /\ cli'.skipped = k /\ cli'.confirmed = cli.confirmed
  BY DEF Process
<1>2. Members
  BY <1>1 DEF Process, Members
<1>3. cli' \in Process
  BY <1>2 DEF Process, Members, Places
<1> QED
  BY <1>1, <1>3

LEMMA Proposes ==
    ASSUME cli \in Process, NEW l \in Places, NEW td \in SUBSET Nat, NEW cd \in SUBSET Nat,
           cli' = [cli EXCEPT !.pc = l, !.todo = td, !.cand = cd]
    PROVE  /\ cli' \in Process
           /\ cli'.pc = l /\ cli'.todo = td /\ cli'.cand = cd /\ cli'.dir = cli.dir
           /\ cli'.pod = cli.pod /\ cli'.target = cli.target /\ cli'.had = cli.had
           /\ cli'.entries = cli.entries /\ cli'.left = cli.left /\ cli'.have = cli.have
           /\ cli'.ns = cli.ns /\ cli'.reached = cli.reached /\ cli'.patch = cli.patch
           /\ cli'.failed = cli.failed /\ cli'.skipped = cli.skipped
           /\ cli'.confirmed = cli.confirmed
<1>1. /\ cli'.pc = l /\ cli'.todo = td /\ cli'.cand = cd /\ cli'.dir = cli.dir
      /\ cli'.pod = cli.pod /\ cli'.target = cli.target /\ cli'.had = cli.had
      /\ cli'.entries = cli.entries /\ cli'.left = cli.left /\ cli'.have = cli.have
      /\ cli'.ns = cli.ns /\ cli'.reached = cli.reached /\ cli'.patch = cli.patch
      /\ cli'.failed = cli.failed /\ cli'.skipped = cli.skipped
      /\ cli'.confirmed = cli.confirmed
  BY DEF Process
<1>2. Members
  BY <1>1 DEF Process, Members
<1>3. cli' \in Process
  BY <1>2 DEF Process, Members, Places
<1> QED
  BY <1>1, <1>3

LEMMA Ends ==
    ASSUME cli \in Process, NEW l \in Places, NEW f \in BOOLEAN, NEW k \in BOOLEAN,
           cli' = [cli EXCEPT !.pc = l, !.failed = f, !.skipped = k]
    PROVE  /\ cli' \in Process
           /\ cli'.pc = l /\ cli'.todo = cli.todo /\ cli'.cand = cli.cand
           /\ cli'.dir = cli.dir /\ cli'.pod = cli.pod /\ cli'.target = cli.target
           /\ cli'.had = cli.had /\ cli'.entries = cli.entries /\ cli'.left = cli.left
           /\ cli'.have = cli.have /\ cli'.ns = cli.ns /\ cli'.reached = cli.reached
           /\ cli'.patch = cli.patch /\ cli'.failed = f /\ cli'.skipped = k
           /\ cli'.confirmed = cli.confirmed
<1>1. /\ cli'.pc = l /\ cli'.todo = cli.todo /\ cli'.cand = cli.cand /\ cli'.dir = cli.dir
      /\ cli'.pod = cli.pod /\ cli'.target = cli.target /\ cli'.had = cli.had
      /\ cli'.entries = cli.entries /\ cli'.left = cli.left /\ cli'.have = cli.have
      /\ cli'.ns = cli.ns /\ cli'.reached = cli.reached /\ cli'.patch = cli.patch
      /\ cli'.failed = f /\ cli'.skipped = k /\ cli'.confirmed = cli.confirmed
  BY DEF Process
<1>2. Members
  BY <1>1 DEF Process, Members
<1>3. cli' \in Process
  BY <1>2 DEF Process, Members, Places
<1> QED
  BY <1>1, <1>3

LEMMA Passes ==
    ASSUME cli \in Process, NEW l \in Places, NEW td \in SUBSET Nat, NEW f \in BOOLEAN,
           NEW k \in BOOLEAN,
           cli' = [cli EXCEPT !.pc = l, !.todo = td, !.failed = f, !.skipped = k]
    PROVE  /\ cli' \in Process
           /\ cli'.pc = l /\ cli'.todo = td /\ cli'.cand = cli.cand /\ cli'.dir = cli.dir
           /\ cli'.pod = cli.pod /\ cli'.target = cli.target /\ cli'.had = cli.had
           /\ cli'.entries = cli.entries /\ cli'.left = cli.left /\ cli'.have = cli.have
           /\ cli'.ns = cli.ns /\ cli'.reached = cli.reached /\ cli'.patch = cli.patch
           /\ cli'.failed = f /\ cli'.skipped = k /\ cli'.confirmed = cli.confirmed
<1>1. /\ cli'.pc = l /\ cli'.todo = td /\ cli'.cand = cli.cand /\ cli'.dir = cli.dir
      /\ cli'.pod = cli.pod /\ cli'.target = cli.target /\ cli'.had = cli.had
      /\ cli'.entries = cli.entries /\ cli'.left = cli.left /\ cli'.have = cli.have
      /\ cli'.ns = cli.ns /\ cli'.reached = cli.reached /\ cli'.patch = cli.patch
      /\ cli'.failed = f /\ cli'.skipped = k /\ cli'.confirmed = cli.confirmed
  BY DEF Process
<1>2. Members
  BY <1>1 DEF Process, Members
<1>3. cli' \in Process
  BY <1>2 DEF Process, Members, Places
<1> QED
  BY <1>1, <1>3

LEMMA NoteEffect ==
    ASSUME cli \in Process, NEW st, NEW l \in Places, Note(st, l)
    PROVE  /\ cli' \in Process
           /\ cli'.pc = l /\ cli'.todo = cli.todo /\ cli'.cand = cli.cand
           /\ cli'.dir = cli.dir /\ cli'.pod = cli.pod /\ cli'.target = cli.target
           /\ cli'.had = cli.had /\ cli'.entries = cli.entries /\ cli'.left = cli.left
           /\ cli'.have = cli.have /\ cli'.ns = cli.ns /\ cli'.reached = cli.reached
           /\ cli'.patch = cli.patch /\ cli'.confirmed = cli.confirmed
           /\ cli'.failed = (cli.failed \/ st = "failed")
<1> DEFINE F == cli.failed \/ st = "failed"
           K == cli.skipped \/ st = "skipped"
<1>1. cli' = [cli EXCEPT !.pc = l, !.failed = F, !.skipped = K]
  BY DEF Note
<1>2. F \in BOOLEAN /\ K \in BOOLEAN
  OBVIOUS
<1> HIDE DEF F, K
<1>3. cli'.failed = F
  BY <1>1, <1>2, Ends
<1> QED
  BY <1>1, <1>2, <1>3, Ends DEF F

LEMMA Next1Effect ==
    ASSUME cli \in Process, NEW st, NEW l \in Places, Next1(st, l)
    PROVE  /\ cli' \in Process
           /\ cli'.pc = l /\ cli'.todo = cli.todo \ {First(cli.todo)} /\ cli'.cand = cli.cand
           /\ cli'.dir = cli.dir /\ cli'.pod = cli.pod /\ cli'.target = cli.target
           /\ cli'.had = cli.had /\ cli'.entries = cli.entries /\ cli'.left = cli.left
           /\ cli'.have = cli.have /\ cli'.ns = cli.ns /\ cli'.reached = cli.reached
           /\ cli'.patch = cli.patch /\ cli'.confirmed = cli.confirmed
           /\ cli'.failed = (cli.failed \/ st = "failed")
<1> DEFINE F == cli.failed \/ st = "failed"
           K == cli.skipped \/ st = "skipped"
           T == cli.todo \ {First(cli.todo)}
<1>1. cli' = [cli EXCEPT !.pc = l, !.todo = T, !.failed = F, !.skipped = K]
  BY DEF Next1
<1>2. F \in BOOLEAN /\ K \in BOOLEAN
  OBVIOUS
<1>3. T \in SUBSET Nat
  BY DEF Process
<1> HIDE DEF F, K, T
<1>4. cli'.failed = F /\ cli'.todo = T
  BY <1>1, <1>2, <1>3, Passes
<1> QED
  BY <1>1, <1>2, <1>3, <1>4, Passes DEF F, T

-----------------------------------------------------------------------------
(* The copy                                                                  *)

LEMMA CopyStarts ==
    ASSUME NEW way \in {"from", "to"}, NEW files \in SUBSET Items, StartCopy(way, files)
    PROVE  /\ copy' \in CopyType(Items) /\ CopySound' /\ copy'.way = way
           /\ Whole(files)'
BY DEF StartCopy, NoCopy, CopyType, CopySound, Whole

LEMMA NoCopyType == NoCopy \in CopyType(Items)
BY DEF NoCopy, CopyType

LEMMA CopyGoesOn ==
    ASSUME copy \in CopyType(Items), CopySound, copy.way \in {"from", "to"},
           CopyStep \/ CopyFailure
    PROVE  copy' \in CopyType(Items) /\ CopySound' /\ copy'.way = copy.way
<1>1. CASE WriteEntry
  <2>1. PICK f \in copy.left :
          copy' = [copy EXCEPT !.left = @ \ {f}, !.landed = @ \cup {f}]
    BY <1>1 DEF WriteEntry
  <2>2. copy' \in CopyType(Items)
    BY <2>1 DEF CopyType
  <2> QED
    BY <1>1, <2>1, <2>2 DEF WriteEntry, Meet, CopyType, CopySound
<1>2. CASE WriteTrailer
  BY <1>2 DEF WriteTrailer, Meet, CopyType, CopySound
<1>3. CASE WriteBroken
  BY <1>3 DEF WriteBroken, CopyType, CopySound
<1>4. CASE Report
  BY <1>4 DEF Report, CopyType, CopySound
<1>5. CASE CloseWriter
  BY <1>5 DEF CloseWriter, CopyType, CopySound
<1>6. CASE ReadEOF
  BY <1>6 DEF ReadEOF, CopyType, CopySound
<1>7. CASE Drain
  BY <1>7 DEF Drain, CopyType, CopySound
<1>8. CASE CloseReader
  BY <1>8 DEF CloseReader, CopyType, CopySound
<1>9. CASE Receive
  BY <1>9 DEF Receive, CopyType, CopySound
<1>10. CASE ExecFails
  BY <1>10 DEF ExecFails, CopyType, CopySound
<1>11. CASE WalkFails
  BY <1>11 DEF WalkFails, CopyType, CopySound
<1>12. CASE UnpackFails
  BY <1>12 DEF UnpackFails, CopyType, CopySound
<1> QED
  BY <1>1, <1>2, <1>3, <1>4, <1>5, <1>6, <1>7, <1>8, <1>9, <1>10, <1>11, <1>12
     DEF CopyStep, CopyFailure

LEMMA CopyLosesNothing ==
    ASSUME copy \in CopyType(Items), CopySound, copy.way \in {"from", "to"},
           CopyStep \/ CopyFailure, NEW F, Whole(F)
    PROVE  Whole(F)'
<1>1. CASE WriteEntry
  BY <1>1 DEF WriteEntry, CopyType, Whole
<1>2. CASE WriteTrailer \/ Report \/ CloseWriter \/ ReadEOF \/ Drain \/ CloseReader \/ Receive
             \/ UnpackFails
  BY <1>2 DEF WriteTrailer, Report, CloseWriter, ReadEOF, Drain, CloseReader, Receive,
              UnpackFails, CopyType, Whole
<1>3. CASE WriteBroken
  BY <1>3 DEF WriteBroken, CopyType, CopySound, Whole
<1>4. CASE ExecFails \/ WalkFails
  BY <1>4 DEF ExecFails, WalkFails, CopyType, Whole
<1> QED
  BY <1>1, <1>2, <1>3, <1>4 DEF CopyStep, CopyFailure

LEMMA CopyEnds ==
    ASSUME copy \in CopyType(Items), CopySound, Copied, ~CopyFailed, NEW F, Whole(F)
    PROVE  F \subseteq copy.landed
BY DEF CopyType, CopySound, Copied, CopyFailed, Whole

-----------------------------------------------------------------------------
(* Types and positions. The steps that only read change the process and the  *)
(* limits.                                                                   *)

Inv == TypeOK /\ Position

LEMMA LimitsTyped ==
    ASSUME TypeOK, Works \/ Fails \/ Hit \/ Event \/ UNCHANGED limits
    PROVE  events' \in 0 .. MaxEvents /\ expired' \in BOOLEAN
BY TrustyAIAssumption DEF TypeOK, Works, Fails, Hit, Event, limits

LEMMA ReaderTyped ==
    ASSUME TypeOK, Reads, cli' \in Process, Works \/ Fails \/ UNCHANGED limits
    PROVE  TypeOK'
<1>1. events' \in 0 .. MaxEvents /\ expired' \in BOOLEAN
  BY LimitsTyped
<1> QED
  BY <1>1 DEF TypeOK, Reads, Same, cluster, disk

LEMMA ReaderKeeps ==
    ASSUME Reads
    PROVE  /\ there' = there /\ up' = up /\ data' = data /\ sched' = sched /\ otel' = otel
           /\ probe' = probe /\ pods' = pods /\ dirs' = dirs /\ mfiles' = mfiles
           /\ cmd' = cmd /\ copy' = copy
BY DEF Reads, Same, cluster, disk

(* Where the position asks for nothing.                                      *)
Free ==
    /\ cli'.pc \in {"start", "service", "list", "end", "idle", "namespace", "patch", "get"}
    /\ cli'.pc = "service" => cmd.do = "backup data"
    /\ cli'.pc = "list" => cmd.do # "restore data"
    /\ cli'.pc = "namespace" => cmd.do \in {"backup metrics", "restore metrics"}
    /\ cli'.pc = "patch" => cmd.do \in {"otel", "guardrails", "deadlock"}
    /\ cli'.pc = "get" => cmd.do = "guardrails"

LEMMA FreePosition ==
    ASSUME Position, Free, cmd' = cmd, copy' = NoCopy, cli'.cand = cli.cand,
           cli'.confirmed = cli.confirmed
    PROVE  Position'
BY DEF Position, Free

LEMMA EndsFree ==
    ASSUME NEW st, NEW l \in {"end", "idle"}, Inv, Note(st, l), cmd' = cmd, copy' = NoCopy
    PROVE  cli' \in Process /\ Position'
<1>1. cli \in Process /\ l \in Places
  BY DEF Inv, TypeOK, Places
<1>2. /\ cli' \in Process /\ cli'.pc = l /\ cli'.cand = cli.cand
      /\ cli'.confirmed = cli.confirmed
  BY <1>1, NoteEffect
<1> QED
  BY <1>2, FreePosition DEF Free, Inv

LEMMA PassesFree ==
    ASSUME NEW st, Inv, copy' = NoCopy, cmd' = cmd,
           \/ Next1(st, "service") /\ cmd.do = "backup data"
           \/ Next1(st, "namespace") /\ cmd.do \in {"backup metrics", "restore metrics"}
           \/ Next1(st, "patch") /\ cmd.do \in {"otel", "guardrails", "deadlock"}
           \/ Next1(st, "get") /\ cmd.do = "guardrails"
    PROVE  cli' \in Process /\ Position'
<1>1. PICK l \in {"service", "namespace", "patch", "get"} :
        /\ Next1(st, l)
        /\ l = "service" => cmd.do = "backup data"
        /\ l = "namespace" => cmd.do \in {"backup metrics", "restore metrics"}
        /\ l = "patch" => cmd.do \in {"otel", "guardrails", "deadlock"}
        /\ l = "get" => cmd.do = "guardrails"
  OBVIOUS
<1>2. cli \in Process /\ l \in Places
  BY DEF Inv, TypeOK, Places
<1>3. /\ cli' \in Process /\ cli'.pc = l /\ cli'.cand = cli.cand
      /\ cli'.confirmed = cli.confirmed
  BY <1>1, <1>2, Next1Effect
<1> QED
  BY <1>1, <1>3, FreePosition DEF Free, Inv

LEMMA NotCopying == ASSUME Inv, cli.pc # "copy" PROVE copy = NoCopy
BY DEF Inv, Position

LEMMA StartKeeps == ASSUME Inv, Start PROVE Inv'
<1>0. /\ cli \in Process /\ cli.pc = "start" /\ copy = NoCopy /\ copy' = copy /\ cmd' = cmd
      /\ Reads /\ UNCHANGED limits
  BY NotCopying, ReaderKeeps DEF Start, Inv, TypeOK
<1>1. CASE cmd.do \notin {"restore data", "restore metrics"} /\ Note("completed", "list")
  <2>1. /\ cli' \in Process /\ cli'.pc = "list" /\ cli'.cand = cli.cand
        /\ cli'.confirmed = cli.confirmed
    BY <1>0, <1>1, NoteEffect DEF Places
  <2>2. Position'
    BY <1>0, <1>1, <2>1, FreePosition DEF Free, Inv
  <2> QED
    BY <1>0, <2>1, <2>2, ReaderTyped DEF Inv
<1>2. CASE Note("skipped", "end") \/ Note("failed", "end")
  BY <1>0, <1>2, EndsFree, ReaderTyped DEF Inv
<1>3. CASE \E d \in Dir : /\ cmd.do = "restore data"
                          /\ cli' = [cli EXCEPT !.pc = "list", !.dir = d]
  <2>1. PICK d \in Dir : cli' = [cli EXCEPT !.pc = "list", !.dir = d]
    BY <1>3
  <2>2. /\ cli' \in Process /\ cli'.pc = "list" /\ cli'.dir = d /\ cli'.cand = cli.cand
        /\ cli'.confirmed = cli.confirmed
    BY <1>0, <2>1, Selects DEF Places
  <2>3. Position'
    BY <1>0, <1>3, <2>2 DEF Position, Inv
  <2> QED
    BY <1>0, <2>2, <2>3, ReaderTyped DEF Inv
<1>4. CASE /\ cmd.do = "restore metrics"
           /\ \E f \in DOMAIN mfiles :
                cli' = [cli EXCEPT !.pc = "list", !.entries = mfiles[f].requests]
  <2>1. PICK f \in DOMAIN mfiles :
          cli' = [cli EXCEPT !.pc = "list", !.entries = mfiles[f].requests]
    BY <1>4
  <2>2. mfiles[f].requests \in Counts
    BY DEF Inv, TypeOK
  <2>3. /\ cli' \in Process /\ cli'.pc = "list" /\ cli'.cand = cli.cand
        /\ cli'.confirmed = cli.confirmed
    BY <1>0, <2>1, <2>2, Enters DEF Places
  <2>4. Position'
    BY <1>0, <1>4, <2>3, FreePosition DEF Free, Inv
  <2> QED
    BY <1>0, <2>3, <2>4, ReaderTyped DEF Inv
<1> QED
  BY <1>1, <1>2, <1>3, <1>4 DEF Start

LEMMA FinishKeeps == ASSUME Inv, Finish PROVE Inv'
<1>1. /\ cli \in Process /\ cli.pc = "end" /\ copy' = NoCopy /\ cmd' = cmd
      /\ cli' = [cli EXCEPT !.pc = "idle"]
  BY NotCopying DEF Finish, Inv, TypeOK
<1>2. /\ cli' \in Process /\ cli'.pc = "idle" /\ cli'.cand = cli.cand
      /\ cli'.confirmed = cli.confirmed
  BY <1>1, Goes DEF Places
<1>3. exit' \in {"ok", "skips", "failures"}
  BY DEF Finish
<1>4. Position'
  BY <1>1, <1>2, FreePosition DEF Free, Inv
<1>5. TypeOK'
  BY <1>2, <1>3 DEF Finish, Inv, TypeOK, cluster, disk, limits
<1> QED
  BY <1>4, <1>5 DEF Inv

(* The steps of the backup of data that only read.                           *)
LEMMA BackupReads ==
    ASSUME Inv, NEW s,
           discoverTrustyAIServices \/ BackupPVC(s) \/ BackupDatabase(s) \/ UnsupportedFormat(s)
    PROVE  Inv'
<1>0. /\ cli \in Process /\ cli.pc # "copy" /\ copy = NoCopy /\ copy' = copy /\ cmd' = cmd
      /\ Reads /\ cmd.do = "backup data" /\ there \subseteq Services /\ up \subseteq there
      /\ dirs' = dirs
  <2>1. Reads /\ cli.pc # "copy" /\ cmd.do = "backup data"
    BY DEF discoverTrustyAIServices, BackupPVC, BackupDatabase, UnsupportedFormat, Inv, Position
  <2> QED
    BY <2>1, NotCopying, ReaderKeeps DEF Inv, TypeOK
<1>1. Works \/ Fails \/ UNCHANGED limits
  BY DEF discoverTrustyAIServices, BackupPVC, BackupDatabase, UnsupportedFormat
<1>2. CASE \/ Note("skipped", "end") \/ Note("failed", "end")
           \/ Next1("skipped", "service") \/ Next1("failed", "service")
  BY <1>0, <1>1, <1>2, EndsFree, PassesFree, ReaderTyped DEF Inv
<1>3. CASE cli' = [cli EXCEPT !.pc = "service", !.todo = there \cap cmd.scope]
  <2>1. there \cap cmd.scope \in SUBSET Nat
    BY <1>0, TrustyAIAssumption
  <2>2. /\ cli' \in Process /\ cli'.pc = "service" /\ cli'.cand = cli.cand
        /\ cli'.confirmed = cli.confirmed
    BY <1>0, <1>3, <2>1, Lists DEF Places
  <2>3. Position'
    BY <1>0, <2>2, FreePosition DEF Free, Inv
  <2> QED
    BY <1>0, <1>1, <2>2, <2>3, ReaderTyped DEF Inv
<1>4. CASE \E t \in findMountPath(s) : cli' = [cli EXCEPT !.pc = "mkdir", !.pod = t]
  <2>1. PICK t \in findMountPath(s) : cli' = [cli EXCEPT !.pc = "mkdir", !.pod = t]
    BY <1>4
  <2>2. t \in Services
    BY <1>0 DEF findMountPath, findServicePod
  <2>3. /\ cli' \in Process /\ cli'.pc = "mkdir" /\ cli'.pod = t /\ cli'.cand = cli.cand
        /\ cli'.confirmed = cli.confirmed
    BY <1>0, <2>1, <2>2, Finds DEF Places
  <2>4. Position'
    BY <1>0, <2>2, <2>3 DEF Inv, Position
  <2> QED
    BY <1>0, <1>1, <2>3, <2>4, ReaderTyped DEF Inv
<1>5. CASE Note("completed", "mkdir") /\ Cur(s) /\ Format[s] = "DATABASE"
  <2>1. /\ cli' \in Process /\ cli'.pc = "mkdir" /\ cli'.cand = cli.cand
        /\ cli'.confirmed = cli.confirmed /\ cli'.todo = cli.todo
    BY <1>0, <1>5, NoteEffect DEF Places
  <2>2. \A t \in Services : (Cur(t))' => t = s
    <3>1. cli.todo \subseteq Nat
      BY <1>0 DEF Process
    <3> QED
      BY <1>5, <2>1, <3>1 DEF Cur
  <2>3. Position'
    BY <1>0, <1>5, <2>1, <2>2 DEF Inv, Position
  <2> QED
    BY <1>0, <1>1, <2>1, <2>3, ReaderTyped DEF Inv
<1> QED
  <2>1. CASE discoverTrustyAIServices
    BY <2>1, <1>2, <1>3 DEF discoverTrustyAIServices
  <2>2. CASE BackupPVC(s)
    BY <2>2, <1>2, <1>4 DEF BackupPVC
  <2>3. CASE BackupDatabase(s)
    BY <2>3, <1>2, <1>5 DEF BackupDatabase
  <2>4. CASE UnsupportedFormat(s)
    BY <2>4, <1>2 DEF UnsupportedFormat
  <2> QED
    BY <2>1, <2>2, <2>3, <2>4

LEMMA DirsForTyped ==
    ASSUME TypeOK, NEW s \in Services, NEW d \in DirsFor(s)
    PROVE  /\ d \in Dir /\ d[1] = run /\ d[2] \in Services
           /\ Format[d[2]] = Format[s] /\ Ns[d[2]] = Ns[s]
<1>1. PICK t \in Services : d = <<run, t>> /\ Format[t] = Format[s] /\ Ns[t] = Ns[s]
  BY DEF DirsFor
<1>2. run \in 1 .. MaxRuns
  BY DEF TypeOK
<1> QED
  BY <1>1, <1>2 DEF Dir

(* The steps that write below the backup directory.                          *)
LEMMA SavesTyped ==
    ASSUME TypeOK, Same, UNCHANGED <<cluster, mfiles>>, cli' \in Process,
           dirs' \in [Dir -> Directory], copy' \in CopyType(Items),
           Works \/ Fails \/ Hit \/ UNCHANGED limits
    PROVE  TypeOK'
<1>1. events' \in 0 .. MaxEvents /\ expired' \in BOOLEAN
  BY LimitsTyped
<1> QED
  BY <1>1 DEF TypeOK, Same, cluster

LEMMA CopyFromPodKeeps == ASSUME Inv, NEW s \in Services, CopyFromPod(s) PROVE Inv'
<1>0. /\ cli \in Process /\ cli.pc = "mkdir" /\ copy = NoCopy /\ cmd' = cmd /\ Same
      /\ cmd.do = "backup data" /\ Cur(s) /\ Format[s] = "PVC" /\ UNCHANGED <<cluster, mfiles>>
      /\ dirs \in [Dir -> Directory] /\ data \in [Services -> SUBSET Items]
      /\ cli.pod \in Services
  BY NotCopying DEF CopyFromPod, Inv, TypeOK, Position, Same
<1>1. CASE Hit /\ Next1("failed", "service") /\ UNCHANGED <<dirs, copy>>
  <2>1. cli' \in Process /\ Position'
    BY <1>0, <1>1, PassesFree
  <2> QED
    BY <1>0, <1>1, <2>1, SavesTyped, NoCopyType DEF Inv
<1>2. CASE /\ \E d \in DirsFor(s) :
                /\ dirs' = [dirs EXCEPT ![d].kind = "data"]
                /\ cli' = [cli EXCEPT !.pc = "copy", !.dir = d, !.had = data[s]]
           /\ StartCopy("from", data[cli.pod]) /\ UNCHANGED limits
  <2>1. PICK d \in DirsFor(s) :
                /\ dirs' = [dirs EXCEPT ![d].kind = "data"]
                /\ cli' = [cli EXCEPT !.pc = "copy", !.dir = d, !.had = data[s]]
    BY <1>2
  <2>2. /\ d \in Dir /\ d \in Dir \cup {NoDir} /\ data[s] \in SUBSET Items
        /\ data[cli.pod] \in SUBSET Items
    BY <1>0, DirsForTyped DEF Inv
  <2>3. /\ cli' \in Process /\ cli'.pc = "copy" /\ cli'.dir = d /\ cli'.pod = cli.pod
        /\ cli'.cand = cli.cand /\ cli'.confirmed = cli.confirmed
    <3> DEFINE H == data[s]
    <3>1. cli' = [cli EXCEPT !.pc = "copy", !.dir = d, !.had = H] /\ H \in SUBSET Items
      BY <2>1, <2>2
    <3> HIDE DEF H
    <3> QED
      BY <1>0, <2>2, <3>1, Opens DEF Places
  <2>4. copy' \in CopyType(Items) /\ CopySound' /\ copy'.way = "from"
    BY <1>2, <2>2, CopyStarts
  <2>5. dirs' \in [Dir -> Directory]
    BY <1>0, <2>1, <2>2 DEF Directory
  <2>6. Position'
    BY <1>0, <2>2, <2>3, <2>4 DEF Inv, Position
  <2> QED
    BY <1>0, <1>2, <2>3, <2>4, <2>5, <2>6, SavesTyped DEF Inv
<1> QED
  BY <1>1, <1>2 DEF CopyFromPod

LEMMA CopiedFromPodKeeps == ASSUME Inv, NEW s \in Services, CopiedFromPod(s) PROVE Inv'
<1>0. /\ cli \in Process /\ cli.pc = "copy" /\ copy' = NoCopy /\ cmd' = cmd /\ Same
      /\ cmd.do = "backup data" /\ UNCHANGED <<cluster, mfiles>> /\ UNCHANGED limits
      /\ dirs \in [Dir -> Directory] /\ cli.dir \in Dir /\ copy \in CopyType(Items)
      /\ dirs' = [dirs EXCEPT ![cli.dir].files = @ \cup copy.landed]
      /\ Next1("failed", "service") \/ Note("completed", "metadata")
  BY DEF CopiedFromPod, Inv, TypeOK, Position, Same
<1>1. dirs' \in [Dir -> Directory]
  <2>1. copy.landed \in SUBSET Items
    BY <1>0 DEF CopyType
  <2> QED
    BY <1>0, <2>1 DEF Directory
<1>2. CASE Next1("failed", "service")
  <2>1. cli' \in Process /\ Position'
    BY <1>0, <1>2, PassesFree
  <2> QED
    BY <1>0, <1>1, <2>1, SavesTyped, NoCopyType DEF Inv
<1>3. CASE Note("completed", "metadata")
  <2>1. /\ cli' \in Process /\ cli'.pc = "metadata" /\ cli'.dir = cli.dir
        /\ cli'.cand = cli.cand /\ cli'.confirmed = cli.confirmed
    BY <1>0, <1>3, NoteEffect DEF Places
  <2>2. Position'
    BY <1>0, <2>1 DEF Inv, Position
  <2> QED
    BY <1>0, <1>1, <2>1, <2>2, SavesTyped, NoCopyType DEF Inv
<1> QED
  BY <1>0, <1>2, <1>3

LEMMA DumpKeeps ==
    ASSUME Inv, NEW s \in Services, CreateDump(s) \/ Dump(s) \/ writeMetadata(s)
    PROVE  Inv'
<1>0. /\ cli \in Process /\ cli.pc \in {"mkdir", "dump", "metadata"} /\ copy = NoCopy
      /\ copy' = copy /\ cmd' = cmd /\ Same /\ cmd.do = "backup data"
      /\ UNCHANGED <<cluster, mfiles>> /\ dirs \in [Dir -> Directory]
      /\ data \in [Services -> SUBSET Items]
  BY NotCopying DEF CreateDump, Dump, writeMetadata, Inv, TypeOK, Position, Same
<1>1. Works \/ Fails \/ Hit \/ UNCHANGED limits
  BY DEF CreateDump, Dump, writeMetadata
<1>2. dirs' \in [Dir -> Directory]
  <2>1. CASE CreateDump(s)
    <3>1. PICK d \in DirsFor(s) :
            \/ dirs' = [dirs EXCEPT ![d].kind = "stub", ![d].files = {}]
            \/ dirs' = [dirs EXCEPT ![d].kind = IF @ = "absent" THEN "empty" ELSE @]
      BY <2>1 DEF CreateDump
    <3>2. d \in Dir /\ dirs[d] \in Directory
      BY <1>0, DirsForTyped DEF Inv
    <3>3. /\ [dirs[d] EXCEPT !.kind = "stub", !.files = {}] \in Directory
          /\ [dirs[d] EXCEPT !.kind = IF @ = "absent" THEN "empty" ELSE @] \in Directory
      BY <3>2 DEF Directory
    <3> QED
      BY <1>0, <3>1, <3>2, <3>3
  <2>2. CASE Dump(s)
    <3>1. PICK rows \in SUBSET data[s] :
            \/ dirs' = [dirs EXCEPT ![cli.dir].kind = "dump", ![cli.dir].files = rows]
            \/ dirs' = [dirs EXCEPT ![cli.dir] = NoDirectory]
      BY <2>2 DEF Dump
    <3>2. rows \in SUBSET Items
      BY <1>0
    <3>3. cli.dir \in Dir /\ dirs[cli.dir] \in Directory
      BY <1>0, <2>2 DEF Inv, Position, Dump
    <3>4. /\ [dirs[cli.dir] EXCEPT !.kind = "dump", !.files = rows] \in Directory
          /\ NoDirectory \in Directory
      BY <3>2, <3>3 DEF Directory, NoDirectory
    <3> QED
      BY <1>0, <3>1, <3>3, <3>4
  <2>3. CASE writeMetadata(s)
    <3>1. \/ dirs' = [dirs EXCEPT ![cli.dir].meta = s, ![cli.dir].had = cli.had]
          \/ dirs' = [dirs EXCEPT ![cli.dir].meta = 0]
      BY <2>3 DEF writeMetadata
    <3>2. cli.had \in SUBSET Items
      BY <1>0 DEF Process
    <3>3. cli.dir \in Dir /\ dirs[cli.dir] \in Directory
      BY <1>0, <2>3 DEF Inv, Position, writeMetadata
    <3>4. /\ [dirs[cli.dir] EXCEPT !.meta = s, !.had = cli.had] \in Directory
          /\ [dirs[cli.dir] EXCEPT !.meta = 0] \in Directory
      BY <3>2, <3>3 DEF Directory
    <3> QED
      BY <1>0, <3>1, <3>3, <3>4
  <2> QED
    BY <2>1, <2>2, <2>3
<1>3. CASE Next1("completed", "service") \/ Next1("failed", "service")
  BY <1>0, <1>1, <1>2, <1>3, PassesFree, SavesTyped, NoCopyType DEF Inv
<1>4. CASE Note("completed", "metadata") /\ Dump(s)
  <2>1. /\ cli' \in Process /\ cli'.pc = "metadata" /\ cli'.dir = cli.dir
        /\ cli'.cand = cli.cand /\ cli'.confirmed = cli.confirmed
    BY <1>0, <1>4, NoteEffect DEF Places
  <2>2. cli.pc = "dump"
    BY <1>4 DEF Dump
  <2>3. Position'
    BY <1>0, <2>1, <2>2 DEF Inv, Position
  <2> QED
    BY <1>0, <1>1, <1>2, <2>1, <2>3, SavesTyped, NoCopyType DEF Inv
<1>5. CASE \E d \in DirsFor(s) : cli' = [cli EXCEPT !.pc = "dump", !.dir = d, !.had = data[s]]
  <2>1. PICK d \in DirsFor(s) : cli' = [cli EXCEPT !.pc = "dump", !.dir = d, !.had = data[s]]
    BY <1>5
  <2>2. d \in Dir /\ d \in Dir \cup {NoDir} /\ data[s] \in SUBSET Items
    BY <1>0, DirsForTyped DEF Inv
  <2>3. /\ cli' \in Process /\ cli'.pc = "dump" /\ cli'.dir = d
        /\ cli'.cand = cli.cand /\ cli'.confirmed = cli.confirmed
    <3> DEFINE H == data[s]
    <3>1. cli' = [cli EXCEPT !.pc = "dump", !.dir = d, !.had = H] /\ H \in SUBSET Items
      BY <2>1, <2>2
    <3> HIDE DEF H
    <3> QED
      BY <1>0, <2>2, <3>1, Opens DEF Places
  <2>4. Position'
    BY <1>0, <2>2, <2>3 DEF Inv, Position
  <2> QED
    BY <1>0, <1>1, <1>2, <2>3, <2>4, SavesTyped, NoCopyType DEF Inv
<1> QED
  BY <1>3, <1>4, <1>5 DEF CreateDump, Dump, writeMetadata

LEMMA ResolveKeeps == ASSUME Inv, resolveTargetService PROVE Inv'
<1>0. /\ cli \in Process /\ cli.pc = "list" /\ copy = NoCopy /\ copy' = copy /\ cmd' = cmd
      /\ Reads /\ cmd.do = "restore data" /\ cli.dir \in Dir /\ there \subseteq Services
      /\ dirs \in [Dir -> Directory]
  BY NotCopying, ReaderKeeps DEF resolveTargetService, Inv, TypeOK, Position
<1>1. Works \/ Fails \/ UNCHANGED limits
  BY DEF resolveTargetService
<1> DEFINE found == there \cap cmd.scope
           meta == dirs[cli.dir].meta
           near == {s \in found : meta # 0 /\ Ns[s] = Ns[meta]}
           to == CASE meta \in found -> meta
                   [] meta \notin found /\ near # {} -> First(near)
                   [] OTHER -> First(found)
<1>2. CASE Note("failed", "end")
  BY <1>0, <1>1, <1>2, EndsFree, ReaderTyped DEF Inv
<1>3. CASE found # {} /\ cli' = [cli EXCEPT !.pc = "target", !.target = to]
  <2>1. found \subseteq Nat /\ near \subseteq Nat
    BY <1>0, TrustyAIAssumption
  <2>2. near # {} => First(near) \in Services
    BY <1>0, <2>1, Least
  <2>3. First(found) \in Services
    BY <1>0, <1>3, <2>1, Least
  <2>4. to \in Services \cup {0}
    BY <1>0, <2>2, <2>3
  <2> HIDE DEF to
  <2>5. /\ cli' \in Process /\ cli'.pc = "target" /\ cli'.dir = cli.dir /\ cli'.cand = cli.cand
        /\ cli'.confirmed = cli.confirmed
    BY <1>0, <1>3, <2>4, Aims DEF Places
  <2>6. Position'
    BY <1>0, <2>5 DEF Inv, Position
  <2> QED
    BY <1>0, <1>1, <2>5, <2>6, ReaderTyped DEF Inv
<1> QED
  BY <1>2, <1>3 DEF resolveTargetService

LEMMA TargetKeeps == ASSUME Inv, RestorePVC \/ RestoreDatabase PROVE Inv'
<1>0. /\ cli \in Process /\ cli.pc = "target" /\ copy = NoCopy /\ copy' = copy /\ cmd' = cmd
      /\ Reads /\ cmd.do = "restore data" /\ cli.dir \in Dir /\ up \subseteq Services
  BY NotCopying, ReaderKeeps DEF RestorePVC, RestoreDatabase, Inv, TypeOK, Position
<1>1. Works \/ Fails \/ UNCHANGED limits
  BY DEF RestorePVC, RestoreDatabase
<1>2. CASE Note("failed", "end") \/ Note("skipped", "end")
  BY <1>0, <1>1, <1>2, EndsFree, ReaderTyped DEF Inv
<1>3. CASE \E p \in up : cli' = [cli EXCEPT !.pc = "confirm", !.pod = p]
  <2>1. PICK p \in up : cli' = [cli EXCEPT !.pc = "confirm", !.pod = p]
    BY <1>3
  <2>2. /\ cli' \in Process /\ cli'.pc = "confirm" /\ cli'.pod = p /\ cli'.dir = cli.dir
        /\ cli'.cand = cli.cand /\ cli'.confirmed = cli.confirmed /\ p \in Services
    BY <1>0, <2>1, Finds DEF Places
  <2>3. Position'
    BY <1>0, <2>2 DEF Inv, Position, Backups
  <2> QED
    BY <1>0, <1>1, <2>2, <2>3, ReaderTyped DEF Inv
<1>4. \A t : findMountPath(t) \subseteq up /\ findServicePod(t) \subseteq up
                                           /\ DatabasesOf(t) \subseteq up
  BY DEF findMountPath, findServicePod, DatabasesOf
<1>5. CASE RestorePVC
  BY <1>2, <1>3, <1>4, <1>5 DEF RestorePVC
<1>6. CASE RestoreDatabase
  BY <1>2, <1>3, <1>4, <1>6 DEF RestoreDatabase
<1> QED
  BY <1>5, <1>6

LEMMA ConfirmKeeps == ASSUME Inv, Confirm PROVE Inv'
<1>0. /\ cli \in Process /\ cli.pc = "confirm" /\ copy = NoCopy /\ copy' = copy /\ cmd' = cmd
      /\ Reads /\ UNCHANGED limits
  BY NotCopying, ReaderKeeps DEF Confirm, Inv, TypeOK
<1>1. CASE Note("skipped", "end")
  BY <1>0, <1>1, EndsFree, ReaderTyped DEF Inv
<1>2. CASE cli' = [cli EXCEPT !.pc = "go", !.confirmed = TRUE]
  <2>1. /\ cli' \in Process /\ cli'.pc = "go" /\ cli'.pod = cli.pod /\ cli'.dir = cli.dir
        /\ cli'.cand = cli.cand
    BY <1>0, <1>2, Agrees DEF Places
  <2>2. Position'
    BY <1>0, <2>1 DEF Inv, Position
  <2> QED
    BY <1>0, <2>1, <2>2, ReaderTyped DEF Inv
<1> QED
  BY <1>1, <1>2 DEF Confirm

LEMMA CopyToPodKeeps == ASSUME Inv, CopyToPod PROVE Inv'
<1>0. /\ cli \in Process /\ cli.pc = "go" /\ cmd' = cmd /\ cmd.do = "restore data"
      /\ cli.dir \in Dir /\ cli.pod \in Services /\ dirs \in [Dir -> Directory]
      /\ dirs' = dirs /\ dirs[cli.dir].kind = "data"
  BY DEF CopyToPod, Inv, TypeOK, Position, Same, disk
<1>1. dirs[cli.dir].files \in SUBSET Items
  BY <1>0 DEF Directory
<1>2. copy' \in CopyType(Items) /\ CopySound' /\ copy'.way = "to"
  BY <1>1, CopyStarts DEF CopyToPod
<1>3. /\ cli' \in Process /\ cli'.pc = "copy" /\ cli'.pod = cli.pod /\ cli'.dir = cli.dir
      /\ cli'.cand = cli.cand /\ cli'.confirmed = cli.confirmed
  BY <1>0, NoteEffect DEF Places, CopyToPod
<1>4. Position'
  BY <1>0, <1>2, <1>3 DEF Inv, Position
<1>5. TypeOK'
  BY <1>2, <1>3 DEF CopyToPod, Inv, TypeOK, Same, cluster, disk, limits
<1> QED
  BY <1>4, <1>5 DEF Inv

LEMMA CopiedToPodKeeps == ASSUME Inv, CopiedToPod PROVE Inv'
<1>0. /\ cli \in Process /\ cli.pc = "copy" /\ cmd' = cmd /\ copy' = NoCopy
      /\ copy \in CopyType(Items) /\ data \in [Services -> SUBSET Items]
      /\ data' = [data EXCEPT ![cli.pod] = @ \cup copy.landed]
      /\ (Note("failed", "end") \/ Note("completed", "end"))
  BY DEF CopiedToPod, Inv, TypeOK, Same
<1>1. cli' \in Process /\ Position'
  BY <1>0, EndsFree
<1>2. data' \in [Services -> SUBSET Items]
  BY <1>0 DEF CopyType
<1>3. TypeOK'
  BY <1>0, <1>1, <1>2, NoCopyType DEF CopiedToPod, Inv, TypeOK, Same, disk, limits
<1> QED
  BY <1>1, <1>3 DEF Inv

LEMMA LoadDumpKeeps == ASSUME Inv, LoadDump PROVE Inv'
<1>0. /\ cli \in Process /\ cli.pc = "go" /\ cmd' = cmd /\ copy' = NoCopy
      /\ cli.dir \in Dir /\ cli.pod \in Services /\ dirs \in [Dir -> Directory]
      /\ data \in [Services -> SUBSET Items] /\ (Works \/ Fails)
      /\ (Note("failed", "end") \/ Note("completed", "end"))
  BY NotCopying DEF LoadDump, Inv, TypeOK, Position, Same
<1>1. cli' \in Process /\ Position'
  BY <1>0, EndsFree
<1>2. dirs[cli.dir].files \in SUBSET Items
  BY <1>0 DEF Directory
<1>3. PICK rows \in (SUBSET dirs[cli.dir].files) \cup {data[cli.pod]} :
        data' = [data EXCEPT ![cli.pod] = rows]
  BY DEF LoadDump
<1>4. data' \in [Services -> SUBSET Items]
  <2>1. data[cli.pod] \in SUBSET Items
    BY <1>0
  <2>2. rows \subseteq dirs[cli.dir].files \/ rows = data[cli.pod]
    BY <1>3
  <2>3. rows \in SUBSET Items
    BY <1>2, <2>1, <2>2
  <2> QED
    BY <1>0, <1>3, <2>3
<1>5. events' \in 0 .. MaxEvents /\ expired' \in BOOLEAN
  BY <1>0, LimitsTyped DEF Inv
<1>6. copy' \in CopyType(Items)
  BY <1>0, NoCopyType
<1>7. TypeOK'
  BY <1>1, <1>4, <1>5, <1>6 DEF LoadDump, Inv, TypeOK, Same, disk
<1> QED
  BY <1>1, <1>7 DEF Inv

(* Metrics                                                                   *)
LEMMA MetricsReads ==
    ASSUME Inv, NEW n,
           DiscoverRoutes \/ (n \in Namespaces /\ restoreToNamespace(n)) \/ RestoredToNamespace
    PROVE  Inv'
<1>0. /\ cli \in Process /\ cli.pc # "copy" /\ copy = NoCopy /\ copy' = copy /\ cmd' = cmd
      /\ Reads /\ cmd.do \in {"backup metrics", "restore metrics"} /\ there \subseteq Services
  <2>1. Reads /\ cli.pc # "copy" /\ cmd.do \in {"backup metrics", "restore metrics"}
    BY DEF DiscoverRoutes, restoreToNamespace, RestoredToNamespace, Inv, Position
  <2> QED
    BY <2>1, NotCopying, ReaderKeeps DEF Inv, TypeOK
<1>1. CASE DiscoverRoutes
  <2> DEFINE routed == {Ns[s] : s \in there}
  <2>1. CASE Fails /\ Note("failed", "end")
    BY <1>0, <2>1, EndsFree, ReaderTyped DEF Inv
  <2>2. ASSUME NEW found \in SUBSET routed,
               LET missed == Cardinality(routed \ found)
                             + (IF found = {} /\ routed # {} THEN 1 ELSE 0) IN
                 /\ ~expired /\ events + missed <= MaxEvents
                 /\ events' = events + missed /\ UNCHANGED expired
                 /\ IF found = {}
                    THEN Note(IF cmd.do = "backup metrics" THEN "skipped" ELSE "failed", "end")
                    ELSE cli' = [cli EXCEPT !.todo = found, !.reached = found,
                                            !.pc = IF cmd.do = "backup metrics" \/ Flag("dry-run")
                                                   THEN "namespace" ELSE "confirm"]
        PROVE  Inv'
    <3>0. PICK missed : /\ missed = Cardinality(routed \ found)
                                  + (IF found = {} /\ routed # {} THEN 1 ELSE 0)
                        /\ events + missed <= MaxEvents /\ events' = events + missed
      BY <2>2
    <3>1. events' \in 0 .. MaxEvents /\ expired' \in BOOLEAN
      <4>1. Cardinality(routed \ found) \in Nat
        <5>1. IsFiniteSet(Services)
          BY TrustyAIAssumption
        <5>2. IsFiniteSet(there)
          BY <1>0, <5>1, FS_Subset
        <5>3. IsFiniteSet(routed)
          <6> DEFINE f == [s \in there |-> Ns[s]]
          <6>1. f \in Surjection(there, routed)
            BY DEF Surjection
          <6> HIDE DEF f
          <6> QED
            BY <5>2, <6>1, FS_Surjection
        <5>4. IsFiniteSet(routed \ found)
          BY <5>3, FS_Subset
        <5> QED
          BY <5>4, FS_CardinalityType
      <4>2. missed \in Nat
        BY <3>0, <4>1
      <4>3. events \in Nat /\ MaxEvents \in Nat /\ expired' = expired /\ expired \in BOOLEAN
        <5>1. expired' = expired
          BY <2>2
        <5> QED
          BY <5>1, TrustyAIAssumption DEF Inv, TypeOK
      <4> QED
        BY <3>0, <4>2, <4>3
    <3>2. CASE found = {}
      <4>1. PICK st : Note(st, "end")
        BY <2>2, <3>2
      <4>2. cli' \in Process /\ Position'
        BY <1>0, <4>1, EndsFree
      <4> QED
        BY <1>0, <3>1, <4>2 DEF Inv, TypeOK, Reads, Same, cluster, disk
    <3>3. CASE found # {}
      <4>1. PICK l \in {"namespace", "confirm"} :
              /\ cli' = [cli EXCEPT !.todo = found, !.reached = found, !.pc = l]
              /\ l = "confirm" => cmd.do = "restore metrics"
        BY <1>0, <2>2, <3>3
      <4>2. cli' = [cli EXCEPT !.pc = l, !.todo = found, !.reached = found]
        BY <1>0, <4>1 DEF Process
      <4>3. found \subseteq Namespaces /\ found \subseteq Nat
        <5>1. \A s \in Services : Ns[s] \in Nat /\ Ns[s] \in Namespaces
          BY TrustyAIAssumption DEF Namespaces
        <5> QED
          BY <1>0, <5>1
      <4>4. /\ cli' \in Process /\ cli'.pc = l /\ cli'.cand = cli.cand
            /\ cli'.confirmed = cli.confirmed
        BY <1>0, <4>2, <4>3, Reaches DEF Places
      <4>5. Position'
        BY <1>0, <4>1, <4>4 DEF Inv, Position, Backups
      <4> QED
        BY <1>0, <3>1, <4>4, <4>5 DEF Inv, TypeOK, Reads, Same, cluster, disk
    <3> QED
      BY <3>2, <3>3
  <2> QED
    BY <1>1, <2>1, <2>2 DEF DiscoverRoutes
<1>2. CASE n \in Namespaces /\ restoreToNamespace(n)
  <2>1. Works \/ Fails \/ UNCHANGED limits
    BY <1>2 DEF restoreToNamespace
  <2>2. PICK have \in {{}, {KeyOf[r] : r \in {q \in Requests : sched[n][q] > 0}}} :
          cli' = [cli EXCEPT !.pc = "post", !.ns = n, !.have = have, !.left = cli.entries]
    BY <1>2 DEF restoreToNamespace
  <2>3. have \in SUBSET {KeyOf[r] : r \in Requests}
    OBVIOUS
  <2>4. cli.entries \in Counts /\ n \in Namespaces \cup {0}
    BY <1>0, <1>2 DEF Process
  <2>5. /\ cli' \in Process /\ cli'.pc = "post" /\ cli'.ns = n /\ cli'.cand = cli.cand
        /\ cli'.confirmed = cli.confirmed /\ cli'.todo = cli.todo
    <3> DEFINE e == cli.entries
    <3>1. e \in Counts
      BY <2>4
    <3>2. cli' = [cli EXCEPT !.pc = "post", !.ns = n, !.have = have, !.left = e]
      BY <2>2
    <3> HIDE DEF e
    <3>3. cli \in Process /\ "post" \in Places /\ n \in Namespaces \cup {0}
      BY <1>0, <2>4 DEF Places
    <3> QED
      BY <2>3, <3>1, <3>2, <3>3, Asks
  <2>6. cmd.do = "restore metrics" /\ Cur(n)
    BY <1>2 DEF restoreToNamespace
  <2>7. Position'
    BY <1>0, <1>2, <2>5, <2>6 DEF Inv, Position, Cur
  <2> QED
    BY <1>0, <2>1, <2>5, <2>7, ReaderTyped DEF Inv
<1>3. CASE RestoredToNamespace
  <2>1. UNCHANGED limits /\ (Next1("skipped", "namespace") \/ Next1("completed", "namespace"))
    BY <1>3 DEF RestoredToNamespace
  <2> QED
    BY <1>0, <2>1, PassesFree, ReaderTyped DEF Inv
<1> QED
  BY <1>1, <1>2, <1>3

LEMMA BackupNamespaceKeeps == ASSUME Inv, NEW n \in Namespaces, backupNamespace(n) PROVE Inv'
<1> DEFINE MFile == [state : {"none", "torn", "whole"}, requests : Counts]
           asked == IF Flag("fairness") THEN Fairness ELSE Requests
           got == [r \in Requests |-> IF r \in asked THEN sched[n][r] ELSE 0]
<1>0. /\ cli.pc = "namespace" /\ copy' = NoCopy /\ copy = NoCopy /\ cmd' = cmd
      /\ cmd.do = "backup metrics" /\ (Works \/ Fails \/ Hit)
      /\ mfiles \in [(1 .. MaxRuns) \X Namespaces -> MFile]
      /\ sched \in [Namespaces -> Counts]
      /\ \/ Next1("skipped", "namespace") \/ Next1("completed", "namespace")
         \/ Next1("failed", "namespace")
  BY NotCopying DEF backupNamespace, Inv, TypeOK, Same
<1>1. cli' \in Process /\ Position'
  BY <1>0, PassesFree
<1>2. got \in Counts /\ Nothing \in Counts
  BY <1>0 DEF Counts, Nothing
<1>3. \/ UNCHANGED mfiles
      \/ mfiles' = [mfiles EXCEPT ![<<run, n>>] = [state |-> "whole", requests |-> got]]
      \/ mfiles' = [mfiles EXCEPT ![<<run, n>>] = [state |-> "torn", requests |-> Nothing]]
  BY DEF backupNamespace
<1> HIDE DEF got
<1>4. mfiles' \in [(1 .. MaxRuns) \X Namespaces -> MFile]
  <2>1. /\ [state |-> "whole", requests |-> got] \in MFile
        /\ [state |-> "torn", requests |-> Nothing] \in MFile
    BY <1>2
  <2> HIDE DEF MFile
  <2> QED
    BY <1>0, <1>3, <2>1
<1>5. events' \in 0 .. MaxEvents /\ expired' \in BOOLEAN
  BY <1>0, LimitsTyped DEF Inv
<1>6. TypeOK'
  BY <1>0, <1>1, <1>4, <1>5, NoCopyType DEF backupNamespace, Inv, TypeOK, Same, cluster
<1> QED
  BY <1>1, <1>6 DEF Inv

LEMMA EntryEffect ==
    ASSUME cli \in Process, NEW r \in Requests, cli.left[r] > 0, NEW st, Entry(r, st)
    PROVE  /\ cli' \in Process
           /\ cli'.pc = cli.pc /\ cli'.todo = cli.todo /\ cli'.cand = cli.cand
           /\ cli'.dir = cli.dir /\ cli'.pod = cli.pod /\ cli'.entries = cli.entries
           /\ cli'.left = [cli.left EXCEPT ![r] = @ - 1]
           /\ cli'.have = cli.have /\ cli'.ns = cli.ns /\ cli'.reached = cli.reached
           /\ cli'.confirmed = cli.confirmed
           /\ cli'.failed = (cli.failed \/ st = "failed")
<1> DEFINE F == cli.failed \/ st = "failed"
           K == cli.skipped \/ st = "skipped"
           L == [cli.left EXCEPT ![r] = @ - 1]
           P == cli.pc
<1>1. cli' = [cli EXCEPT !.left = L, !.failed = F, !.skipped = K]
  BY DEF Entry, Process
<1>2. F \in BOOLEAN /\ K \in BOOLEAN
  OBVIOUS
<1>3. L \in Counts
  <2>1. cli.left \in [Requests -> Nat]
    BY DEF Process, Counts
  <2> QED
    BY <2>1 DEF Counts
<1>4. P \in Places
  BY DEF Process, Places
<1> HIDE DEF F, K, L
<1>5. cli' = [cli EXCEPT !.pc = P, !.left = L, !.failed = F, !.skipped = K]
  BY <1>1 DEF Process
<1> HIDE DEF P
<1>6. cli'.left = L /\ cli'.failed = F /\ cli'.pc = P
  BY <1>2, <1>3, <1>4, <1>5, Settles
<1> QED
  BY <1>2, <1>3, <1>4, <1>5, <1>6, Settles DEF F, L, P

LEMMA RestoreMetricKeeps == ASSUME Inv, NEW r \in Requests, restoreMetric(r) PROVE Inv'
<1>0. /\ cli \in Process /\ cli.pc = "post" /\ cli.left[r] > 0 /\ cmd' = cmd /\ copy = NoCopy
      /\ copy' = copy /\ (Works \/ Fails \/ Hit \/ UNCHANGED limits)
      /\ sched \in [Namespaces -> Counts] /\ (UNCHANGED sched \/ Posted(r))
  BY NotCopying DEF restoreMetric, Inv, TypeOK, Same
<1>1. PICK st : Entry(r, st)
  BY DEF restoreMetric
<1>2. /\ cli' \in Process /\ cli'.pc = "post" /\ cli'.todo = cli.todo /\ cli'.cand = cli.cand
      /\ cli'.ns = cli.ns /\ cli'.confirmed = cli.confirmed
  BY <1>0, <1>1, EntryEffect
<1>3. sched' \in [Namespaces -> Counts]
  BY <1>0 DEF Posted, Counts
<1>4. events' \in 0 .. MaxEvents /\ expired' \in BOOLEAN
  BY <1>0, LimitsTyped DEF Inv
<1>5. Position'
  BY <1>0, <1>2 DEF Inv, Position, Cur
<1>6. TypeOK'
  BY <1>0, <1>2, <1>3, <1>4, NoCopyType DEF restoreMetric, Inv, TypeOK, Same, disk
<1> QED
  BY <1>5, <1>6 DEF Inv

(* The otelExporter section: a patch leaves no field of the old schema.      *)
LEMMA OtelTyped ==
    ASSUME NEW o \in SUBSET Settings
    PROVE  /\ mapOtelFields(o) \in SUBSET (newSchemaFields \X Texts)
           /\ \A n \in SUBSET (newSchemaFields \X Texts) :
                /\ buildOtelMigrationPatch(o, n) \in SUBSET Settings
                /\ ~hasAnyOldFields(buildOtelMigrationPatch(o, n))
<1>0. {"", "true", "new"} \subseteq Texts
  BY DEF Texts
<1>1. ASSUME NEW f PROVE getString(o, f) \in Texts
  <2>1. CASE isString(o, f)
    <3>1. \E s \in o : s[1] = f
      BY <2>1 DEF isString, Fields
    <3>2. (CHOOSE s \in o : s[1] = f) \in o
      BY <3>1
    <3>3. (CHOOSE s \in o : s[1] = f)[2] \in Texts
      BY <3>2 DEF Settings
    <3> QED
      BY <2>1, <3>3 DEF getString
  <2>2. CASE ~isString(o, f)
    BY <1>0, <2>2 DEF getString
  <2> QED
    BY <2>1, <2>2
<1>2. resolveProtocol(o) \in Texts /\ \A f : resolveEndpoint(o, f) \in Texts
  BY <1>1 DEF resolveProtocol, resolveEndpoint
<1>3. mapOtelFields(o) \in SUBSET (newSchemaFields \X Texts)
  <2> DEFINE p == resolveProtocol(o)
             t == resolveEndpoint(o, "tracesEndpoint")
             m == resolveEndpoint(o, "metricsEndpoint")
  <2>1. p \in Texts /\ t \in Texts /\ m \in Texts
    BY <1>2
  <2>2. mapOtelFields(o) \subseteq
          {<<"otlpProtocol", p>>, <<"otlpTracesEndpoint", t>>, <<"otlpMetricsEndpoint", m>>,
           <<"enableTraces", "true">>, <<"enableMetrics", "true">>}
    BY DEF mapOtelFields
  <2> HIDE DEF p, t, m
  <2>3. /\ <<"otlpProtocol", p>> \in newSchemaFields \X Texts
        /\ <<"otlpTracesEndpoint", t>> \in newSchemaFields \X Texts
        /\ <<"otlpMetricsEndpoint", m>> \in newSchemaFields \X Texts
        /\ <<"enableTraces", "true">> \in newSchemaFields \X Texts
        /\ <<"enableMetrics", "true">> \in newSchemaFields \X Texts
    BY <1>0, <2>1 DEF newSchemaFields
  <2> QED
    BY <2>2, <2>3
<1>4. ASSUME NEW n \in SUBSET (newSchemaFields \X Texts)
      PROVE  /\ buildOtelMigrationPatch(o, n) \in SUBSET Settings
             /\ ~hasAnyOldFields(buildOtelMigrationPatch(o, n))
  <2>1. n \subseteq Settings
    BY DEF Settings
  <2>2. \A f \in newSchemaFields : f \notin oldSchemaFields
    BY DEF newSchemaFields, oldSchemaFields
  <2>3. \A s \in n : s[1] \notin oldSchemaFields
    BY <2>2
  <2> QED
    BY <2>1, <2>3 DEF buildOtelMigrationPatch, hasAnyOldFields, Fields
<1> QED
  BY <1>3, <1>4

(* The steps of the three other actions that only read.                      *)
LEMMA ProposeKeeps ==
    ASSUME Inv, Reads, Works \/ Fails \/ UNCHANGED limits, cli.pc # "copy", NEW st,
           NEW cand \in SUBSET Nat, Propose(cand, st), cmd.do \in {"guardrails", "deadlock"},
           cmd.do = "guardrails" => cand \subseteq Orchestrators,
           cmd.do = "deadlock" => cand \subseteq Isvcs
    PROVE  Inv'
<1>0. cli \in Process /\ copy = NoCopy /\ copy' = copy /\ cmd' = cmd
  BY NotCopying, ReaderKeeps DEF Inv, TypeOK
<1>1. CASE Note(st, "end") \/ Note("skipped", "end")
  BY <1>0, <1>1, EndsFree, ReaderTyped DEF Inv
<1>2. CASE cli' = [cli EXCEPT !.pc = "confirm", !.todo = cand, !.cand = cand]
  <2>1. /\ cli' \in Process /\ cli'.pc = "confirm" /\ cli'.cand = cand
        /\ cli'.confirmed = cli.confirmed
    BY <1>0, <1>2, Proposes DEF Places
  <2>2. Position'
    BY <1>0, <2>1 DEF Inv, Position, Backups
  <2> QED
    BY <2>1, <2>2, ReaderTyped DEF Inv
<1> QED
  BY <1>1, <1>2 DEF Propose

LEMMA ExportersListed ==
    ASSUME TypeOK, ListExporters, ~Note("failed", "end")
    PROVE  \E C \in SUBSET Orchestrators,
              P \in [Orchestrators -> SUBSET (newSchemaFields \X Texts)],
              f \in BOOLEAN, k \in BOOLEAN :
             cli' = [cli EXCEPT !.pc = IF C = {} \/ Flag("dry-run") THEN "end" ELSE "confirm",
                                !.todo = C, !.cand = C, !.patch = P, !.failed = f, !.skipped = k]
<1> DEFINE class(g) == classifyCR(otel[g])
           new(g) == IF class(g) = "NEEDS_MIGRATION" THEN mapOtelFields(otel[g]) ELSE {}
           C == {g \in Orchestrators : new(g) # {}}
           P == [g \in Orchestrators |-> new(g)]
           f == \E g \in Orchestrators : class(g) = "INVALID"
           k == \/ \E g \in Orchestrators : class(g) # "INVALID" /\ new(g) = {}
                \/ Orchestrators = {}
                \/ (C # {} /\ Flag("dry-run"))
<1>1. cli' = [cli EXCEPT !.pc = IF C = {} \/ Flag("dry-run") THEN "end" ELSE "confirm",
                         !.todo = C, !.cand = C, !.patch = P, !.failed = f, !.skipped = k]
  BY Zenon DEF ListExporters
<1>2. f \in BOOLEAN /\ k \in BOOLEAN /\ C \in SUBSET Orchestrators
  OBVIOUS
<1>3. P \in [Orchestrators -> SUBSET (newSchemaFields \X Texts)]
  <2>1. \A g \in Orchestrators : new(g) \in SUBSET (newSchemaFields \X Texts)
    BY OtelTyped DEF TypeOK
  <2> HIDE DEF new
  <2> QED
    BY <2>1
<1> HIDE DEF f, k, C, P
<1> QED
  BY <1>1, <1>2, <1>3

LEMMA ListExportersKeeps == ASSUME Inv, ListExporters PROVE Inv'
<1>0. /\ cli \in Process /\ cli.pc = "list" /\ copy = NoCopy /\ copy' = copy /\ cmd' = cmd
      /\ Reads /\ cmd.do = "otel" /\ otel \in [Orchestrators -> SUBSET Settings]
      /\ (Works \/ Fails)
  BY NotCopying, ReaderKeeps DEF ListExporters, Inv, TypeOK
<1>1. CASE Note("failed", "end")
  BY <1>0, <1>1, EndsFree, ReaderTyped DEF Inv
<1>2. CASE ~Note("failed", "end")
  <2>1. PICK c \in SUBSET Orchestrators,
             p \in [Orchestrators -> SUBSET (newSchemaFields \X Texts)],
             f \in BOOLEAN, k \in BOOLEAN :
          cli' = [cli EXCEPT !.pc = IF c = {} \/ Flag("dry-run") THEN "end" ELSE "confirm",
                             !.todo = c, !.cand = c, !.patch = p, !.failed = f, !.skipped = k]
    BY <1>2, ExportersListed DEF Inv
  <2>2. PICK l \in {"end", "confirm"} :
          l = IF c = {} \/ Flag("dry-run") THEN "end" ELSE "confirm"
    OBVIOUS
  <2>3. c \in SUBSET Nat
    BY TrustyAIAssumption
  <2>4. cli' = [cli EXCEPT !.pc = l, !.todo = c, !.cand = c, !.patch = p, !.failed = f,
                           !.skipped = k]
    BY <2>1, <2>2
  <2>5. /\ cli' \in Process /\ cli'.pc = l /\ cli'.cand = c /\ cli'.confirmed = cli.confirmed
    <3>1. /\ cli'.pc = l /\ cli'.todo = c /\ cli'.cand = c /\ cli'.dir = cli.dir
          /\ cli'.pod = cli.pod /\ cli'.target = cli.target /\ cli'.had = cli.had
          /\ cli'.entries = cli.entries /\ cli'.left = cli.left /\ cli'.have = cli.have
          /\ cli'.ns = cli.ns /\ cli'.reached = cli.reached /\ cli'.patch = p
          /\ cli'.failed = f /\ cli'.skipped = k /\ cli'.confirmed = cli.confirmed
      BY <1>0, <2>4 DEF Process
    <3>2. Members
      BY <1>0, <2>3, <3>1 DEF Process, Members, Places
    <3>3. cli' \in Process
      BY <1>0, <2>4, <3>2 DEF Process, Members, Places
    <3> QED
      BY <3>1, <3>3
  <2>6. Position'
    BY <1>0, <2>5 DEF Inv, Position, Backups
  <2> QED
    BY <1>0, <2>5, <2>6, ReaderTyped DEF Inv
<1> QED
  BY <1>1, <1>2

LEMMA GuardrailsReads ==
    ASSUME Inv, NEW g, discoverGorchs \/ (g \in Orchestrators /\ checkProbe(g))
    PROVE  Inv'
<1>0. /\ cli \in Process /\ cli.pc \in {"list", "get"} /\ copy = NoCopy /\ copy' = copy
      /\ cmd' = cmd /\ Reads /\ cmd.do = "guardrails" /\ cli.cand \subseteq Orchestrators
      /\ (Works \/ Fails)
  BY NotCopying, ReaderKeeps DEF discoverGorchs, checkProbe, Inv, TypeOK, Position
<1>1. CASE Note("skipped", "end") \/ Note("failed", "end") \/ Next1("skipped", "get")
  BY <1>0, <1>1, EndsFree, PassesFree, ReaderTyped DEF Inv
<1>2. CASE cli' = [cli EXCEPT !.pc = "get", !.todo = Orchestrators]
  <2>1. Orchestrators \in SUBSET Nat
    BY TrustyAIAssumption
  <2>2. /\ cli' \in Process /\ cli'.pc = "get" /\ cli'.cand = cli.cand
        /\ cli'.confirmed = cli.confirmed
    BY <1>0, <1>2, <2>1, Lists DEF Places
  <2>3. Position'
    BY <1>0, <2>2, FreePosition DEF Free, Inv
  <2> QED
    BY <1>0, <2>2, <2>3, ReaderTyped DEF Inv
<1>3. CASE /\ cli.pc = "get" /\ g \in Orchestrators
           /\ cli' = [cli EXCEPT !.todo = @ \ {g}, !.cand = @ \cup {g}]
  <2>1. cli.todo \ {g} \in SUBSET Nat /\ cli.cand \cup {g} \in SUBSET Nat
    BY <1>0, <1>3, TrustyAIAssumption DEF Process
  <2>2. cli' = [cli EXCEPT !.pc = "get", !.todo = cli.todo \ {g}, !.cand = cli.cand \cup {g}]
    BY <1>0, <1>3 DEF Process
  <2>3. PICK T \in SUBSET Nat, C \in SUBSET Nat :
          /\ cli' = [cli EXCEPT !.pc = "get", !.todo = T, !.cand = C]
          /\ C = cli.cand \cup {g}
    BY <2>1, <2>2
  <2>4. /\ cli' \in Process /\ cli'.pc = "get" /\ cli'.cand = C
        /\ cli'.confirmed = cli.confirmed
    <3>1. cli \in Process /\ "get" \in Places
      BY <1>0 DEF Places
    <3>2. cli' = [cli EXCEPT !.pc = "get", !.todo = T, !.cand = C]
      BY <2>3
    <3> QED
      BY <3>1, <3>2, Proposes
  <2>5. Position'
    BY <1>0, <1>3, <2>3, <2>4 DEF Inv, Position
  <2> QED
    BY <1>0, <2>4, <2>5, ReaderTyped DEF Inv
<1> QED
  BY <1>1, <1>2, <1>3 DEF discoverGorchs, checkProbe

LEMMA ProposalsKeep == ASSUME Inv, ProbesChecked \/ detectDeadlocks PROVE Inv'
<1>1. CASE ProbesChecked
  <2>1. /\ Reads /\ UNCHANGED limits /\ cli.pc = "get" /\ Propose(cli.cand, "completed")
        /\ cmd.do = "guardrails" /\ cli.cand \subseteq Orchestrators
    BY <1>1 DEF ProbesChecked, Inv, Position
  <2> DEFINE C == cli.cand
  <2>2. C \in SUBSET Nat /\ Propose(C, "completed") /\ C \subseteq Orchestrators
    BY <2>1, TrustyAIAssumption
  <2> HIDE DEF C
  <2> QED
    BY <2>1, <2>2, ProposeKeeps
<1>2. CASE detectDeadlocks
  <2> DEFINE C == {i \in Isvcs : pods[i].old /\ pods[i].new = "pending"}
  <2>1. Reads /\ cli.pc = "list" /\ cmd.do = "deadlock"
    BY <1>2 DEF detectDeadlocks
  <2>2. C \in SUBSET Nat /\ C \subseteq Isvcs
    BY TrustyAIAssumption
  <2>3. (Works /\ Propose(C, "skipped")) \/ (Fails /\ Note("failed", "end"))
    BY <1>2 DEF detectDeadlocks
  <2> HIDE DEF C
  <2>4. CASE Works /\ Propose(C, "skipped")
    BY <2>1, <2>2, <2>4, ProposeKeeps
  <2>5. CASE Fails /\ Note("failed", "end")
    <3>1. cli' \in Process /\ Position'
      BY <2>1, <2>5, NotCopying, ReaderKeeps, EndsFree
    <3> QED
      BY <2>1, <2>5, <3>1, ReaderTyped DEF Inv
  <2> QED
    BY <2>3, <2>4, <2>5
<1> QED
  BY <1>1, <1>2

LEMMA AllDoneKeeps == ASSUME Inv, AllDone PROVE Inv'
<1>1. /\ Reads /\ UNCHANGED limits /\ Note("completed", "end") /\ cli.pc # "copy"
  BY DEF AllDone
<1>2. cli' \in Process /\ Position'
  BY <1>1, NotCopying, ReaderKeeps, EndsFree
<1> QED
  BY <1>1, <1>2, ReaderTyped DEF Inv

(* The steps that change an object.                                          *)
LEMMA PatchesKeep ==
    ASSUME Inv, \/ \E g \in Orchestrators : PatchExporter(g) \/ PatchProbe(g)
                \/ \E i \in Isvcs : DeletePod(i)
    PROVE  Inv'
<1>0. /\ copy' = NoCopy /\ cmd' = cmd /\ (Works \/ Hit \/ Fails)
      /\ cmd.do \in {"otel", "guardrails", "deadlock"}
      /\ (Next1("completed", "patch") \/ Next1("failed", "patch"))
      /\ UNCHANGED <<there, up, data, sched, disk, run, exit>> /\ copy = NoCopy
  BY NotCopying DEF PatchExporter, PatchProbe, DeletePod, Same
<1>1. cli' \in Process /\ Position'
  BY <1>0, PassesFree
<1>2. events' \in 0 .. MaxEvents /\ expired' \in BOOLEAN
  BY <1>0, LimitsTyped DEF Inv
<1>3. otel' \in [Orchestrators -> SUBSET Settings]
  <2>1. /\ otel \in [Orchestrators -> SUBSET Settings]
        /\ cli.patch \in [Orchestrators -> SUBSET (newSchemaFields \X Texts)]
    BY DEF Inv, TypeOK, Process
  <2>2. \A g \in Orchestrators :
          buildOtelMigrationPatch(otel[g], cli.patch[g]) \in SUBSET Settings
    BY <2>1, OtelTyped
  <2>3. \/ UNCHANGED otel
        \/ \E g \in Orchestrators :
             otel' = [otel EXCEPT ![g] = buildOtelMigrationPatch(@, cli.patch[g])]
    BY DEF PatchExporter, PatchProbe, DeletePod
  <2> QED
    BY <2>1, <2>2, <2>3
<1>4. probe' \in [Orchestrators -> Probe]
  <2>1. UNCHANGED probe \/ \E g \in Orchestrators : probe' = [probe EXCEPT ![g] = "ok"]
    BY DEF PatchExporter, PatchProbe, DeletePod
  <2> QED
    BY <2>1 DEF Inv, TypeOK, Probe
<1>5. pods' \in [Isvcs -> Predictor]
  <2>1. UNCHANGED pods \/ \E i \in Isvcs : pods' = [pods EXCEPT ![i].old = FALSE]
    BY DEF PatchExporter, PatchProbe, DeletePod
  <2> QED
    BY <2>1 DEF Inv, TypeOK, Predictor
<1>6. TypeOK'
  BY <1>0, <1>1, <1>2, <1>3, <1>4, <1>5, NoCopyType DEF Inv, TypeOK, disk
<1> QED
  BY <1>1, <1>6 DEF Inv

-----------------------------------------------------------------------------
(* The goroutines, and what comes in between                                 *)

LEMMA CopyingKeeps == ASSUME Inv, Copying \/ CopyBreaks PROVE Inv'
<1>0. /\ cli.pc = "copy" /\ CopySound /\ copy \in CopyType(Items)
      /\ copy.way \in {"from", "to"} /\ (CopyStep \/ CopyFailure)
      /\ UNCHANGED <<cluster, disk, cli>> /\ Same /\ (Hit \/ UNCHANGED limits)
  BY DEF Copying, CopyBreaks, Inv, Position, TypeOK
<1>1. copy' \in CopyType(Items) /\ CopySound' /\ copy'.way = copy.way
  BY <1>0, CopyGoesOn
<1>2. events' \in 0 .. MaxEvents /\ expired' \in BOOLEAN
  BY <1>0, LimitsTyped DEF Inv
<1>3. cli' = cli /\ cmd' = cmd /\ dirs' = dirs
  BY <1>0 DEF Same, disk
<1>4. Position'
  BY <1>0, <1>1, <1>3 DEF Inv, Position, Cur
<1>5. TypeOK'
  BY <1>0, <1>1, <1>2 DEF Inv, TypeOK, Same, cluster, disk
<1> QED
  BY <1>4, <1>5 DEF Inv

LEMMA KilledKeeps == ASSUME Inv, Killed PROVE Inv'
<1>0. /\ cli \in Process /\ copy' = NoCopy /\ cmd' = cmd /\ cli' = [cli EXCEPT !.pc = "idle"]
      /\ copy \in CopyType(Items) /\ dirs \in [Dir -> Directory]
      /\ data \in [Services -> SUBSET Items]
  BY DEF Killed, Inv, TypeOK
<1>1. /\ cli' \in Process /\ cli'.pc = "idle" /\ cli'.cand = cli.cand
      /\ cli'.confirmed = cli.confirmed
  BY <1>0, Goes DEF Places
<1>2. Position'
  BY <1>0, <1>1, FreePosition DEF Free, Inv
<1>3. copy.landed \in SUBSET Items
  BY <1>0 DEF CopyType
<1>4. dirs' \in [Dir -> Directory]
  <2>1. CASE copy.way = "from"
    <3>1. cli.dir \in Dir
      <4>1. copy # NoCopy
        BY <2>1 DEF NoCopy
      <4>2. cli.pc = "copy"
        BY <4>1, NotCopying
      <4> QED
        BY <4>2 DEF Inv, Position
    <3>2. dirs' = [dirs EXCEPT ![cli.dir].files = @ \cup copy.landed]
      BY <2>1 DEF Killed
    <3> QED
      BY <1>0, <1>3, <3>1, <3>2 DEF Directory
  <2>2. CASE copy.way # "from"
    BY <1>0, <2>2 DEF Killed
  <2> QED
    BY <2>1, <2>2
<1>5. data' \in [Services -> SUBSET Items]
  BY <1>0, <1>3 DEF Killed
<1>6. events' \in 0 .. MaxEvents /\ expired' \in BOOLEAN
  BY LimitsTyped DEF Inv, Killed
<1>7. TypeOK'
  BY <1>0, <1>1, <1>4, <1>5, <1>6, NoCopyType DEF Killed, Inv, TypeOK
<1> QED
  BY <1>2, <1>7 DEF Inv

LEMMA StartedTyped == Started \in Process
BY DEF Started, Process, NoDir, Nothing, Counts

LEMMA RunAgainKeeps == ASSUME Inv, RunAgain PROVE Inv'
<1>1. /\ run' \in 1 .. MaxRuns /\ cmd' \in Command /\ cli' = Started /\ copy' = NoCopy
      /\ exit' = "none" /\ expired' = FALSE
  BY NotCopying, TrustyAIAssumption DEF RunAgain, Inv, TypeOK
<1>2. TypeOK'
  BY <1>1, StartedTyped, NoCopyType DEF RunAgain, Inv, TypeOK, cluster, disk
<1>3. Position'
  BY <1>1 DEF Position, Started
<1> QED
  BY <1>2, <1>3 DEF Inv

LEMMA OthersKeep ==
    ASSUME Inv, \/ Expire \/ Operator \/ Over
                \/ \E s \in Services : Upgrade(s) \/ Observe(s) \/ PodGoes(s)
                \/ \E i \in Isvcs : GPUComesFree(i)
                \/ \E g \in Orchestrators : EditExporter(g)
    PROVE  Inv'
<1>0. UNCHANGED <<dirs, mfiles, cmd, run, cli, exit, copy>>
  BY DEF Expire, Operator, Over, Upgrade, Observe, PodGoes, GPUComesFree, EditExporter, Others,
         Same, disk, vars
<1>1. Position'
  BY <1>0 DEF Inv, Position, Cur, CopySound
<1>2. events' \in 0 .. MaxEvents /\ expired' \in BOOLEAN
  <2>1. CASE Expire
    BY <2>1, TrustyAIAssumption DEF Expire, Inv, TypeOK
  <2>2. CASE ~Expire
    <3>1. Event \/ UNCHANGED limits
      BY <2>2 DEF Operator, Over, Upgrade, Observe, PodGoes, GPUComesFree, EditExporter, Others,
                  vars
    <3> QED
      BY <3>1, LimitsTyped DEF Inv
  <2> QED
    BY <2>1, <2>2
<1>3. up' \subseteq there' /\ there' \subseteq Services
  BY DEF Expire, Operator, Over, Upgrade, Observe, PodGoes, GPUComesFree, EditExporter,
         cluster, vars, Inv, TypeOK
<1>4. data' \in [Services -> SUBSET Items]
  <2>1. \/ UNCHANGED data
        \/ \E s \in Services : \/ data' = [data EXCEPT ![s] = {}]
                               \/ data' = [data EXCEPT ![s] = @ \cup {<<s, "new">>}]
    BY DEF Expire, Operator, Over, Upgrade, Observe, PodGoes, GPUComesFree, EditExporter,
           cluster, vars
  <2>2. \A s \in Services : <<s, "new">> \in Items
    BY DEF Items, Names
  <2> QED
    BY <2>1, <2>2 DEF Inv, TypeOK
<1>5. sched' \in [Namespaces -> Counts]
  <2>1. UNCHANGED sched \/ \E s \in Services : sched' = [sched EXCEPT ![Ns[s]] = Nothing]
    BY DEF Expire, Operator, Over, Upgrade, Observe, PodGoes, GPUComesFree, EditExporter,
           cluster, vars
  <2>2. Nothing \in Counts
    BY DEF Nothing, Counts
  <2> QED
    BY <2>1, <2>2 DEF Inv, TypeOK
<1>6. otel' \in [Orchestrators -> SUBSET Settings]
  <2>1. \/ UNCHANGED otel
        \/ \E g \in Orchestrators :
             otel' = [otel EXCEPT ![g] = (@ \ {<<"tracesEndpoint", "old">>})
                                         \cup {<<"tracesEndpoint", "new">>}]
    BY DEF Expire, Operator, Over, Upgrade, Observe, PodGoes, GPUComesFree, EditExporter,
           cluster, vars
  <2>2. <<"tracesEndpoint", "new">> \in Settings
    BY DEF Settings, Texts, oldSchemaFields
  <2> QED
    BY <2>1, <2>2 DEF Inv, TypeOK
<1>7. probe' = probe
  BY DEF Expire, Operator, Over, Upgrade, Observe, PodGoes, GPUComesFree, EditExporter,
         cluster, vars
<1>8. pods' \in [Isvcs -> Predictor]
  <2>1. \/ UNCHANGED pods
        \/ \E i \in Isvcs : \/ pods' = [pods EXCEPT ![i].new = "running"]
                            \/ pods' = [pods EXCEPT ![i].old = FALSE]
    BY DEF Expire, Operator, Over, Upgrade, Observe, PodGoes, GPUComesFree, EditExporter,
           cluster, vars
  <2> QED
    BY <2>1 DEF Inv, TypeOK, Predictor
<1>9. TypeOK'
  BY <1>0, <1>2, <1>3, <1>4, <1>5, <1>6, <1>7, <1>8 DEF Inv, TypeOK
<1> QED
  BY <1>1, <1>9 DEF Inv

LEMMA InitInv == Init => Inv
<1> SUFFICES ASSUME Init PROVE Inv
  OBVIOUS
<1>1. PICK w \in Worlds : otel = w.otel /\ probe = w.probe /\ pods = w.pods
  BY DEF Init
<1>2. otel \in [Orchestrators -> SUBSET Settings]
  <2>1. otel \in [Orchestrators -> SUBSET (STRING \X STRING)]
    BY <1>1, TrustyAIAssumption
  <2>2. ASSUME NEW g \in Orchestrators, NEW s \in otel[g] PROVE s \in Settings
    <3>1. s = <<s[1], s[2]>>
      BY <2>1
    <3>2. s \in Given
      BY <1>1 DEF Given
    <3> QED
      BY <3>1, <3>2 DEF Settings, Texts
  <2> QED
    BY <2>1, <2>2
<1>3. probe \in [Orchestrators -> Probe] /\ pods \in [Isvcs -> Predictor]
  BY <1>1, TrustyAIAssumption
<1>4. cmd \in Command
  BY TrustyAIAssumption DEF Init
<1>5. sched \in [Namespaces -> Counts]
  BY DEF Init, Counts
<1>6. dirs \in [Dir -> Directory]
  <2>1. NoDirectory \in Directory
    BY DEF NoDirectory, Directory
  <2> QED
    BY <2>1 DEF Init
<1>7. mfiles \in [(1 .. MaxRuns) \X Namespaces ->
                     [state : {"none", "torn", "whole"}, requests : Counts]]
  <2>1. [state |-> "none", requests |-> Nothing] \in
          [state : {"none", "torn", "whole"}, requests : Counts]
    BY DEF Nothing, Counts
  <2> QED
    BY <2>1 DEF Init
<1>8. TypeOK
  <2>1. run \in 1 .. MaxRuns /\ events \in 0 .. MaxEvents
    BY TrustyAIAssumption DEF Init
  <2>2. /\ up \subseteq there /\ there \subseteq Services /\ exit = "none"
        /\ expired \in BOOLEAN
    BY DEF Init
  <2>3. data \in [Services -> SUBSET Items]
    BY TrustyAIAssumption DEF Init
  <2>4. cli \in Process /\ copy \in CopyType(Items)
    BY StartedTyped, NoCopyType DEF Init
  <2> QED
    BY <1>2, <1>3, <1>4, <1>5, <1>6, <1>7, <2>1, <2>2, <2>3, <2>4 DEF TypeOK
<1>9. Position
  BY DEF Init, Position, Started
<1> QED
  BY <1>8, <1>9 DEF Inv

LEMMA NextInv == Inv /\ [Next]_vars => Inv'
<1> SUFFICES ASSUME Inv, [Next]_vars PROVE Inv'
  OBVIOUS
<1>1. CASE UNCHANGED vars
  <2>1. TypeOK'
    BY <1>1 DEF vars, cluster, disk, limits, Inv, TypeOK
  <2>2. Position'
    BY <1>1 DEF vars, disk, Inv, Position, Cur, CopySound
  <2> QED
    BY <2>1, <2>2 DEF Inv
<1>2. CASE CLI
  <2>1. CASE Start \/ Finish \/ Confirm \/ AllDone
    BY <2>1, StartKeeps, FinishKeeps, ConfirmKeeps, AllDoneKeeps
  <2>2. CASE discoverTrustyAIServices
    BY <2>2, BackupReads
  <2>3. CASE resolveTargetService \/ RestorePVC \/ RestoreDatabase
    BY <2>3, ResolveKeeps, TargetKeeps
  <2>4. CASE CopyToPod \/ CopiedToPod \/ LoadDump
    BY <2>4, CopyToPodKeeps, CopiedToPodKeeps, LoadDumpKeeps
  <2>5. CASE DiscoverRoutes \/ RestoredToNamespace
    BY <2>5, MetricsReads
  <2>6. CASE ListExporters \/ ProbesChecked \/ detectDeadlocks
    BY <2>6, ListExportersKeeps, ProposalsKeep
  <2>7. CASE discoverGorchs
    BY <2>7, GuardrailsReads
  <2>8. ASSUME NEW s \in Services,
               \/ BackupPVC(s) \/ CopyFromPod(s) \/ CopiedFromPod(s) \/ BackupDatabase(s)
               \/ CreateDump(s) \/ Dump(s) \/ writeMetadata(s) \/ UnsupportedFormat(s)
        PROVE  Inv'
    BY <2>8, BackupReads, CopyFromPodKeeps, CopiedFromPodKeeps, DumpKeeps
  <2>9. ASSUME NEW n \in Namespaces, backupNamespace(n) \/ restoreToNamespace(n) PROVE Inv'
    BY <2>9, BackupNamespaceKeeps, MetricsReads
  <2>10. ASSUME NEW r \in Requests, restoreMetric(r) PROVE Inv'
    BY <2>10, RestoreMetricKeeps
  <2>11. ASSUME NEW g \in Orchestrators, PatchExporter(g) \/ checkProbe(g) \/ PatchProbe(g)
         PROVE  Inv'
    BY <2>11, PatchesKeep, GuardrailsReads
  <2>12. ASSUME NEW i \in Isvcs, DeletePod(i) PROVE Inv'
    BY <2>12, PatchesKeep
  <2> QED
    BY <1>2, <2>1, <2>2, <2>3, <2>4, <2>5, <2>6, <2>7, <2>8, <2>9, <2>10, <2>11, <2>12 DEF CLI
<1>3. CASE ~CLI /\ Next
  BY <1>3, CopyingKeeps, KilledKeeps, RunAgainKeeps, OthersKeep DEF Next
<1> QED
  BY <1>1, <1>2, <1>3 DEF Next

LEMMA Invariance == Spec => []Inv
BY InitInv, NextInv, PTL DEF Spec

(* The cluster, what has been saved and the memory of the command keep their *)
(* types.                                                                    *)
THEOREM TypeCorrect == Spec => []TypeOK
<1>1. Inv => TypeOK
  BY DEF Inv
<1> QED
  BY <1>1, Invariance, PTL

-----------------------------------------------------------------------------
(* The steps before the user is asked: they save nothing, and what is        *)
(* proposed is what there is to do.                                          *)

Asked ==
    cli'.pc = "confirm" =>
      /\ ~Flag("dry-run")
      /\ cmd.do = "restore metrics" => cli'.todo = cli'.reached
      /\ cmd.do \in {"otel", "guardrails", "deadlock"} => cli'.todo = cli'.cand

Early == {"list", "service", "target", "namespace", "get", "end", "confirm"}

LEMMA EarlySteps ==
    ASSUME Inv, NEW s, NEW g,
           \/ Start \/ discoverTrustyAIServices \/ UnsupportedFormat(s) \/ resolveTargetService
           \/ RestorePVC \/ RestoreDatabase \/ DiscoverRoutes \/ ListExporters \/ discoverGorchs
           \/ checkProbe(g) \/ ProbesChecked \/ detectDeadlocks
    PROVE  /\ cli.pc \in {"start", "list", "service", "target", "get"}
           /\ cli'.pc \in Early /\ cli'.confirmed = cli.confirmed
           /\ dirs' = dirs /\ cmd' = cmd /\ Asked
<1>0. cli \in Process
  BY DEF Inv, TypeOK
<1>1. Reads /\ cli.pc \in {"start", "list", "service", "target", "get"}
  BY DEF Start, discoverTrustyAIServices, UnsupportedFormat, resolveTargetService, RestorePVC,
         RestoreDatabase, DiscoverRoutes, ListExporters, discoverGorchs, checkProbe,
         ProbesChecked, detectDeadlocks
<1>2. dirs' = dirs /\ cmd' = cmd
  BY <1>1, ReaderKeeps
<1> DEFINE Goal == cli'.pc \in Early /\ cli'.confirmed = cli.confirmed /\ Asked
<1> SUFFICES Goal
  BY <1>1, <1>2
<1>3. ASSUME NEW st, NEW l \in {"list", "end", "service", "get"}, Note(st, l) \/ Next1(st, l)
      PROVE  Goal
  <2>1. l \in Places /\ l \in Early /\ l # "confirm"
    BY DEF Places, Early
  <2> QED
    BY <1>0, <1>3, <2>1, NoteEffect, Next1Effect DEF Asked
<1>4. ASSUME NEW cand, NEW st, Propose(cand, st), cmd.do \in {"guardrails", "deadlock"}
      PROVE  Goal
  <2>1. CASE Note(st, "end") \/ Note("skipped", "end")
    BY <1>3, <2>1
  <2>2. CASE /\ ~Flag("dry-run")
             /\ cli' = [cli EXCEPT !.pc = "confirm", !.todo = cand, !.cand = cand]
    BY <1>0, <1>4, <2>2 DEF Process, Asked, Early
  <2> QED
    BY <1>4, <2>1, <2>2 DEF Propose
<1>5. CASE Start
  <2>1. CASE \E d \in Dir : cli' = [cli EXCEPT !.pc = "list", !.dir = d]
    BY <1>0, <2>1 DEF Process, Asked, Early
  <2>2. CASE \E f \in DOMAIN mfiles :
               cli' = [cli EXCEPT !.pc = "list", !.entries = mfiles[f].requests]
    BY <1>0, <2>2 DEF Process, Asked, Early
  <2>3. CASE Note("completed", "list") \/ Note("skipped", "end") \/ Note("failed", "end")
    BY <1>3, <2>3
  <2> QED
    BY <1>5, <2>1, <2>2, <2>3 DEF Start
<1>6. CASE discoverTrustyAIServices \/ UnsupportedFormat(s)
  <2>1. CASE cli' = [cli EXCEPT !.pc = "service", !.todo = there \cap cmd.scope]
    BY <1>0, <2>1 DEF Process, Asked, Early
  <2>2. CASE Note("skipped", "end") \/ Note("failed", "end") \/ Next1("skipped", "service")
    BY <1>3, <2>2
  <2> QED
    BY <1>6, <2>1, <2>2 DEF discoverTrustyAIServices, UnsupportedFormat
<1>7. CASE resolveTargetService
  <2>1. CASE Note("failed", "end")
    BY <1>3, <2>1
  <2>2. CASE \E to : cli' = [cli EXCEPT !.pc = "target", !.target = to]
    BY <1>0, <2>2 DEF Process, Asked, Early
  <2> QED
    BY <1>7, <2>1, <2>2 DEF resolveTargetService
<1>8. CASE RestorePVC \/ RestoreDatabase
  <2>1. CASE Note("failed", "end") \/ Note("skipped", "end")
    BY <1>3, <2>1
  <2>2. CASE ~Flag("dry-run") /\ \E p : cli' = [cli EXCEPT !.pc = "confirm", !.pod = p]
    <3>1. cmd.do = "restore data"
      BY <1>8 DEF RestorePVC, RestoreDatabase, Inv, Position
    <3> QED
      BY <1>0, <2>2, <3>1 DEF Process, Asked, Early
  <2>3. CASE RestorePVC
    BY <2>1, <2>2, <2>3 DEF RestorePVC
  <2>4. CASE RestoreDatabase
    BY <2>1, <2>2, <2>4 DEF RestoreDatabase
  <2> QED
    BY <1>8, <2>3, <2>4
<1>9. CASE DiscoverRoutes
  <2>1. CASE \E st : Note(st, "end")
    BY <1>3, <2>1
  <2>2. CASE \E found : cli' = [cli EXCEPT !.todo = found, !.reached = found,
                                 !.pc = IF cmd.do = "backup metrics" \/ Flag("dry-run")
                                        THEN "namespace" ELSE "confirm"]
    <3>1. cmd.do \in {"backup metrics", "restore metrics"}
      BY <1>9 DEF DiscoverRoutes
    <3> QED
      BY <1>0, <2>2, <3>1 DEF Process, Asked, Early
  <2> QED
    BY <1>9, <2>1, <2>2 DEF DiscoverRoutes
<1>10. CASE ListExporters
  <2>1. CASE Note("failed", "end")
    BY <1>3, <2>1
  <2>2. CASE ~Note("failed", "end")
    <3>1. PICK C \in SUBSET Orchestrators,
               P \in [Orchestrators -> SUBSET (newSchemaFields \X Texts)],
               f \in BOOLEAN, k \in BOOLEAN :
            cli' = [cli EXCEPT !.pc = IF C = {} \/ Flag("dry-run") THEN "end" ELSE "confirm",
                               !.todo = C, !.cand = C, !.patch = P, !.failed = f,
                               !.skipped = k]
      BY <1>10, <2>2, ExportersListed DEF Inv
    <3>2. cmd.do = "otel"
      BY <1>10 DEF ListExporters
    <3> QED
      BY <1>0, <3>1, <3>2 DEF Process, Asked, Early
  <2> QED
    BY <2>1, <2>2
<1>11. CASE discoverGorchs \/ checkProbe(g)
  <2>1. CASE Note("skipped", "end") \/ Note("failed", "end") \/ Next1("skipped", "get")
    BY <1>3, <2>1
  <2>2. CASE cli' = [cli EXCEPT !.pc = "get", !.todo = Orchestrators]
    BY <1>0, <2>2 DEF Process, Asked, Early
  <2>3. CASE cli.pc = "get" /\ cli' = [cli EXCEPT !.todo = @ \ {g}, !.cand = @ \cup {g}]
    BY <1>0, <2>3 DEF Process, Asked, Early
  <2> QED
    BY <1>11, <2>1, <2>2, <2>3 DEF discoverGorchs, checkProbe
<1>12. CASE ProbesChecked \/ detectDeadlocks
  <2>1. cmd.do \in {"guardrails", "deadlock"}
    BY <1>12 DEF ProbesChecked, detectDeadlocks, Inv, Position
  <2>2. Note("failed", "end") \/ \E cand, st : Propose(cand, st)
    BY <1>12 DEF ProbesChecked, detectDeadlocks
  <2> QED
    BY <1>3, <1>4, <2>1, <2>2
<1> QED
  BY <1>5, <1>6, <1>7, <1>8, <1>9, <1>10, <1>11, <1>12

-----------------------------------------------------------------------------
(* A directory with metadata                                                 *)

Saving == {"mkdir", "copy", "dump", "metadata"}

LEMMA MetadataRests ==
    ASSUME Metadata, dirs' = dirs, cli'.pc \notin Saving
    PROVE  Metadata'
BY DEF Metadata, Saving

(* The later steps of the other commands save no data either.                *)
LEMMA LateSteps ==
    ASSUME Inv, NEW n, NEW r, NEW g, NEW i,
           \/ Finish \/ Confirm \/ AllDone \/ CopiedToPod \/ LoadDump \/ RestoredToNamespace
           \/ backupNamespace(n) \/ restoreToNamespace(n)
           \/ (r \in Requests /\ restoreMetric(r))
           \/ PatchExporter(g) \/ PatchProbe(g) \/ DeletePod(i)
    PROVE  dirs' = dirs /\ cli'.pc \notin Saving
<1>0. cli \in Process
  BY DEF Inv, TypeOK
<1>1. dirs' = dirs
  BY DEF Finish, Confirm, AllDone, CopiedToPod, LoadDump, RestoredToNamespace, backupNamespace,
         restoreToNamespace, restoreMetric, PatchExporter, PatchProbe, DeletePod, Reads, disk
<1>2. ASSUME NEW st, NEW l \in {"end", "namespace", "patch"}, Note(st, l) \/ Next1(st, l)
      PROVE  cli'.pc \notin Saving
  <2>1. l \in Places /\ l \notin Saving
    BY DEF Places, Saving
  <2> QED
    BY <1>0, <1>2, <2>1, NoteEffect, Next1Effect
<1>3. CASE Finish \/ Confirm
  <2>1. CASE Note("skipped", "end")
    BY <1>1, <1>2, <2>1
  <2>2. CASE \/ cli' = [cli EXCEPT !.pc = "idle"]
             \/ cli' = [cli EXCEPT !.pc = "go", !.confirmed = TRUE]
    BY <1>0, <1>1, <2>2 DEF Process, Saving
  <2> QED
    BY <1>3, <2>1, <2>2 DEF Finish, Confirm
<1>4. CASE restoreToNamespace(n)
  <2>1. PICK have :
          cli' = [cli EXCEPT !.pc = "post", !.ns = n, !.have = have, !.left = cli.entries]
    BY <1>4 DEF restoreToNamespace
  <2> QED
    BY <1>0, <1>1, <2>1 DEF Process, Saving
<1>5. CASE r \in Requests /\ restoreMetric(r)
  <2>1. PICK st : Entry(r, st) /\ cli.pc = "post" /\ cli.left[r] > 0
    BY <1>5 DEF restoreMetric
  <2> QED
    BY <1>0, <1>1, <1>5, <2>1, EntryEffect DEF Saving
<1>6. CASE AllDone \/ CopiedToPod \/ LoadDump \/ RestoredToNamespace \/ backupNamespace(n)
  <2>1. \E st : Note(st, "end") \/ Next1(st, "namespace")
    BY <1>6 DEF AllDone, CopiedToPod, LoadDump, RestoredToNamespace, backupNamespace
  <2> QED
    BY <1>1, <1>2, <2>1
<1>7. CASE PatchExporter(g) \/ PatchProbe(g) \/ DeletePod(i)
  <2>1. \E st : Next1(st, "patch")
    BY <1>7 DEF PatchExporter, PatchProbe, DeletePod
  <2> QED
    BY <1>1, <1>2, <2>1
<1> QED
  BY <1>3, <1>4, <1>5, <1>6, <1>7

LEMMA MetadataBackupReads ==
    ASSUME Apart, Inv, Metadata, NEW s \in Services, BackupPVC(s) \/ BackupDatabase(s)
    PROVE  Metadata'
<1>0. cli \in Process /\ dirs' = dirs /\ Cur(s) /\ cli.todo \subseteq Nat
  <2>1. cli \in Process /\ Reads /\ Cur(s)
    BY DEF BackupPVC, BackupDatabase, Inv, TypeOK
  <2> QED
    BY <2>1, ReaderKeeps DEF Process
<1>1. CASE Next1("skipped", "service") \/ Next1("failed", "service")
  <2>1. cli'.pc = "service"
    BY <1>0, <1>1, Next1Effect DEF Places
  <2> QED
    BY <1>0, <2>1, MetadataRests DEF Saving
<1>2. CASE /\ Format[s] = "PVC"
           /\ \E t \in findMountPath(s) : cli' = [cli EXCEPT !.pc = "mkdir", !.pod = t]
  <2>1. PICK t \in findMountPath(s) : cli' = [cli EXCEPT !.pc = "mkdir", !.pod = t]
    BY <1>2
  <2>2. t = s
    BY <1>2 DEF findMountPath, findServicePod, Apart, Inv, TypeOK
  <2>3. cli'.pc = "mkdir" /\ cli'.pod = s /\ cli'.todo = cli.todo
    BY <1>0, <2>1, <2>2 DEF Process
  <2>4. \A u \in Services : (Cur(u))' => u = s
    BY <1>0, <2>3 DEF Cur
  <2> QED
    BY <1>0, <2>3, <2>4 DEF Metadata
<1>3. CASE Format[s] = "DATABASE" /\ Note("completed", "mkdir")
  <2>1. cli'.pc = "mkdir" /\ cli'.todo = cli.todo
    BY <1>0, <1>3, NoteEffect DEF Places
  <2>2. \A u \in Services : (Cur(u))' => u = s
    BY <1>0, <2>1 DEF Cur
  <2> QED
    BY <1>0, <1>3, <2>1, <2>2 DEF Metadata
<1>4. CASE BackupPVC(s)
  BY <1>1, <1>2, <1>4 DEF BackupPVC
<1>5. CASE BackupDatabase(s)
  BY <1>1, <1>3, <1>5 DEF BackupDatabase
<1> QED
  BY <1>4, <1>5

LEMMA MetadataCopyFromPod ==
    ASSUME Apart, Inv, Metadata, NEW s \in Services, CopyFromPod(s)
    PROVE  Metadata'
<1>0. /\ cli \in Process /\ cli.pc = "mkdir" /\ Cur(s) /\ Format[s] = "PVC" /\ cli.pod = s
      /\ dirs \in [Dir -> Directory] /\ data \in [Services -> SUBSET Items]
  BY DEF CopyFromPod, Inv, TypeOK, Metadata
<1>1. CASE Next1("failed", "service") /\ UNCHANGED dirs
  <2>1. cli'.pc = "service"
    BY <1>0, <1>1, Next1Effect DEF Places
  <2> QED
    BY <1>1, <2>1, MetadataRests DEF Saving
<1>2. CASE /\ \E d \in DirsFor(s) :
                /\ dirs' = [dirs EXCEPT ![d].kind = "data"]
                /\ cli' = [cli EXCEPT !.pc = "copy", !.dir = d, !.had = data[s]]
           /\ StartCopy("from", data[cli.pod])
  <2>1. PICK d \in DirsFor(s) :
                /\ dirs' = [dirs EXCEPT ![d].kind = "data"]
                /\ cli' = [cli EXCEPT !.pc = "copy", !.dir = d, !.had = data[s]]
    BY <1>2
  <2>2. d \in Dir /\ Format[d[2]] = "PVC"
    BY <1>0, DirsForTyped DEF Inv
  <2>3. cli'.pc = "copy" /\ cli'.had = data[s]
    BY <1>0, <2>1 DEF Process
  <2>4. data[s] \subseteq copy'.left
    BY <1>0, <1>2 DEF StartCopy, NoCopy
  <2>5. Whole(cli.had)'
    BY <2>3, <2>4 DEF Whole
  <2>6. ASSUME NEW e \in Dir
        PROVE  /\ dirs'[e].kind = "data" => Format[e[2]] = "PVC"
               /\ dirs'[e].meta = dirs[e].meta /\ dirs'[e].had = dirs[e].had
               /\ dirs'[e].files = dirs[e].files
    BY <1>0, <2>1, <2>2 DEF Directory, Metadata
  <2> QED
    BY <2>3, <2>5, <2>6 DEF Metadata
<1> QED
  BY <1>1, <1>2 DEF CopyFromPod

LEMMA MetadataCopiedFromPod ==
    ASSUME Inv, Metadata, NEW s \in Services, CopiedFromPod(s)
    PROVE  Metadata'
<1>0. /\ cli \in Process /\ cli.pc = "copy" /\ cmd.do = "backup data" /\ Copied
      /\ dirs \in [Dir -> Directory] /\ cli.dir \in Dir /\ CopySound
      /\ copy \in CopyType(Items) /\ Whole(cli.had)
      /\ dirs' = [dirs EXCEPT ![cli.dir].files = @ \cup copy.landed]
      /\ \/ CopyFailed /\ Next1("failed", "service")
         \/ ~CopyFailed /\ Note("completed", "metadata")
  BY DEF CopiedFromPod, Inv, TypeOK, Position, Metadata
<1>1. \A d \in Dir : /\ dirs'[d].kind = dirs[d].kind /\ dirs'[d].meta = dirs[d].meta
                     /\ dirs'[d].had = dirs[d].had /\ dirs[d].files \subseteq dirs'[d].files
  BY <1>0 DEF Directory
<1>2. \A d \in Dir :
        /\ dirs'[d].kind = "data" => Format[d[2]] = "PVC"
        /\ Format[d[2]] = "PVC" /\ dirs'[d].meta # 0 => dirs'[d].had \subseteq dirs'[d].files
  BY <1>1 DEF Metadata
<1>3. CASE CopyFailed /\ Next1("failed", "service")
  <2>1. cli'.pc = "service"
    BY <1>0, <1>3, Next1Effect DEF Places
  <2> QED
    BY <1>2, <2>1 DEF Metadata
<1>4. CASE ~CopyFailed /\ Note("completed", "metadata")
  <2>1. cli'.pc = "metadata" /\ cli'.dir = cli.dir /\ cli'.had = cli.had
    BY <1>0, <1>4, NoteEffect DEF Places
  <2>2. cli.had \subseteq copy.landed
    BY <1>0, <1>4, CopyEnds
  <2>3. copy.landed \subseteq dirs'[cli.dir].files
    BY <1>0 DEF Directory
  <2> QED
    BY <1>2, <2>1, <2>2, <2>3 DEF Metadata
<1> QED
  BY <1>0, <1>3, <1>4

LEMMA MetadataDump ==
    ASSUME Inv, Metadata, NEW s \in Services, CreateDump(s) \/ Dump(s) \/ writeMetadata(s)
    PROVE  Metadata'
<1>0. cli \in Process /\ dirs \in [Dir -> Directory]
  BY DEF Inv, TypeOK
<1> DEFINE Kept == \A d \in Dir :
        /\ dirs'[d].kind = "data" => Format[d[2]] = "PVC"
        /\ Format[d[2]] = "PVC" /\ dirs'[d].meta # 0 => dirs'[d].had \subseteq dirs'[d].files
<1>1. CASE Next1("failed", "service") \/ Next1("completed", "service")
  <2>1. cli'.pc = "service"
    BY <1>0, <1>1, Next1Effect DEF Places
  <2>2. Kept => Metadata'
    BY <2>1 DEF Metadata
  <2>3. CASE CreateDump(s)
    <3>1. Format[s] = "DATABASE"
      BY <2>3 DEF CreateDump
    <3>2. PICK d \in DirsFor(s) :
            \/ dirs' = [dirs EXCEPT ![d].kind = "stub", ![d].files = {}]
            \/ dirs' = [dirs EXCEPT ![d].kind = IF @ = "absent" THEN "empty" ELSE @]
      BY <2>3 DEF CreateDump
    <3>3. d \in Dir /\ Format[d[2]] = "DATABASE"
      BY <3>1, DirsForTyped DEF Inv
    <3>4. \A e \in Dir : e # d => dirs'[e] = dirs[e]
      BY <1>0, <3>2
    <3>5. dirs'[d].kind # "data"
      BY <1>0, <3>2, <3>3 DEF Directory, Metadata
    <3>6. Kept
      BY <3>3, <3>4, <3>5 DEF Metadata
    <3> QED
      BY <2>2, <3>6
  <2>4. CASE Dump(s)
    <3>1. PICK rows :
            \/ dirs' = [dirs EXCEPT ![cli.dir].kind = "dump", ![cli.dir].files = rows]
            \/ dirs' = [dirs EXCEPT ![cli.dir] = NoDirectory]
      BY <2>4 DEF Dump
    <3>2. cli.dir \in Dir /\ Format[cli.dir[2]] = "DATABASE"
      BY <2>4 DEF Dump, Inv, Position, Metadata
    <3>3. \A e \in Dir : e # cli.dir => dirs'[e] = dirs[e]
      BY <1>0, <3>1
    <3>4. dirs'[cli.dir].kind # "data"
      BY <1>0, <3>1, <3>2 DEF Directory, NoDirectory
    <3>5. Kept
      BY <3>2, <3>3, <3>4 DEF Metadata
    <3> QED
      BY <2>2, <3>5
  <2>5. CASE writeMetadata(s)
    <3>1. /\ cli.pc = "metadata" /\ cli.dir \in Dir
          /\ \/ dirs' = [dirs EXCEPT ![cli.dir].meta = s, ![cli.dir].had = cli.had]
             \/ dirs' = [dirs EXCEPT ![cli.dir].meta = 0]
      BY <2>5 DEF writeMetadata, Inv, Position
    <3>2. \A e \in Dir : e # cli.dir => dirs'[e] = dirs[e]
      BY <1>0, <3>1
    <3>3. /\ dirs'[cli.dir].kind = dirs[cli.dir].kind
          /\ dirs'[cli.dir].files = dirs[cli.dir].files
          /\ dirs'[cli.dir].meta = 0 \/ dirs'[cli.dir].had = cli.had
      BY <1>0, <3>1 DEF Directory
    <3>4. Format[cli.dir[2]] = "PVC" => cli.had \subseteq dirs[cli.dir].files
      BY <3>1 DEF Metadata
    <3>5. Kept
      BY <3>1, <3>2, <3>3, <3>4 DEF Metadata
    <3> QED
      BY <2>2, <3>5
  <2> QED
    BY <2>3, <2>4, <2>5
<1>2. CASE Dump(s) /\ Note("completed", "metadata")
  <2>1. cli'.pc = "metadata" /\ cli'.dir = cli.dir
    BY <1>0, <1>2, NoteEffect DEF Places
  <2>2. cli.dir \in Dir /\ Format[cli.dir[2]] = "DATABASE"
    BY <1>2 DEF Dump, Inv, Position, Metadata
  <2>3. PICK rows :
          \/ dirs' = [dirs EXCEPT ![cli.dir].kind = "dump", ![cli.dir].files = rows]
          \/ dirs' = [dirs EXCEPT ![cli.dir] = NoDirectory]
    BY <1>2 DEF Dump
  <2>4. \A e \in Dir : e # cli.dir => dirs'[e] = dirs[e]
    BY <1>0, <2>3
  <2>5. dirs'[cli.dir].kind # "data"
    BY <1>0, <2>2, <2>3 DEF Directory, NoDirectory
  <2> QED
    BY <2>1, <2>2, <2>4, <2>5 DEF Metadata
<1>3. CASE CreateDump(s) /\ ~Next1("failed", "service")
  <2>1. PICK d \in DirsFor(s) :
          /\ dirs' = [dirs EXCEPT ![d].kind = "stub", ![d].files = {}]
          /\ cli' = [cli EXCEPT !.pc = "dump", !.dir = d, !.had = data[s]]
    BY <1>3 DEF CreateDump
  <2>2. Format[s] = "DATABASE"
    BY <1>3 DEF CreateDump
  <2>3. d \in Dir /\ Format[d[2]] = "DATABASE"
    BY <2>2, DirsForTyped DEF Inv
  <2>4. cli'.pc = "dump" /\ cli'.dir = d
    BY <1>0, <2>1 DEF Process
  <2>5. \A e \in Dir : e # d => dirs'[e] = dirs[e]
    BY <1>0, <2>1
  <2>6. dirs'[d].kind # "data"
    BY <1>0, <2>1, <2>3 DEF Directory
  <2> QED
    BY <2>3, <2>4, <2>5, <2>6 DEF Metadata
<1> QED
  BY <1>1, <1>2, <1>3 DEF CreateDump, Dump, writeMetadata

LEMMA MetadataCopying == ASSUME Inv, Metadata, Copying \/ CopyBreaks PROVE Metadata'
<1>0. /\ cli.pc = "copy" /\ CopySound /\ copy \in CopyType(Items)
      /\ copy.way \in {"from", "to"} /\ (CopyStep \/ CopyFailure)
      /\ cli' = cli /\ dirs' = dirs /\ cmd' = cmd
  BY DEF Copying, CopyBreaks, Inv, Position, TypeOK, Same, disk
<1>1. cmd.do = "backup data" => Whole(cli.had)
  BY <1>0 DEF Metadata
<1>2. ASSUME cmd.do = "backup data" PROVE Whole(cli.had)'
  <2> DEFINE F == cli.had
  <2>1. Whole(F)
    BY <1>1, <1>2
  <2> HIDE DEF F
  <2>2. copy'.writeErr \/ F \subseteq copy'.left \cup copy'.landed
    BY <1>0, <2>1, CopyLosesNothing DEF Whole
  <2> QED
    BY <1>0, <2>2 DEF Whole, F
<1> QED
  BY <1>0, <1>2 DEF Metadata

LEMMA MetadataNext ==
    ASSUME Apart, Inv, Metadata, [Next]_vars
    PROVE  Metadata'
<1>1. CASE \/ UNCHANGED vars \/ Expire \/ Operator \/ Over
           \/ \E s \in Services : Upgrade(s) \/ Observe(s) \/ PodGoes(s)
           \/ \E i \in Isvcs : GPUComesFree(i)
           \/ \E g \in Orchestrators : EditExporter(g)
  <2>1. UNCHANGED <<dirs, cmd, cli, copy>>
    BY <1>1 DEF Expire, Operator, Over, Upgrade, Observe, PodGoes, GPUComesFree, EditExporter,
                Others, Same, disk, vars
  <2> QED
    BY <2>1 DEF Metadata, Whole, Cur
<1>2. CASE CLI
  <2>1. CASE \/ Start \/ discoverTrustyAIServices \/ resolveTargetService \/ RestorePVC
             \/ RestoreDatabase \/ DiscoverRoutes \/ ListExporters \/ discoverGorchs
             \/ ProbesChecked \/ detectDeadlocks \/ \E s \in Services : UnsupportedFormat(s)
             \/ \E g \in Orchestrators : checkProbe(g)
    <3>1. dirs' = dirs /\ cli'.pc \in Early
      BY <2>1, EarlySteps
    <3> QED
      BY <3>1, MetadataRests DEF Early, Saving
  <2>2. CASE \/ Finish \/ Confirm \/ AllDone \/ CopiedToPod \/ LoadDump \/ RestoredToNamespace
             \/ \E n \in Namespaces : backupNamespace(n) \/ restoreToNamespace(n)
             \/ \E r \in Requests : restoreMetric(r)
             \/ \E g \in Orchestrators : PatchExporter(g) \/ PatchProbe(g)
             \/ \E i \in Isvcs : DeletePod(i)
    <3>1. dirs' = dirs /\ cli'.pc \notin Saving
      BY <2>2, LateSteps
    <3> QED
      BY <3>1, MetadataRests
  <2>3. CASE CopyToPod
    <3>1. cli'.pc = "copy" /\ cmd' = cmd /\ cmd.do # "backup data" /\ dirs' = dirs
      BY <2>3, NoteEffect DEF CopyToPod, Inv, TypeOK, Same, disk, Places
    <3> QED
      BY <3>1 DEF Metadata
  <2>4. ASSUME NEW s \in Services,
               \/ BackupPVC(s) \/ CopyFromPod(s) \/ CopiedFromPod(s) \/ BackupDatabase(s)
               \/ CreateDump(s) \/ Dump(s) \/ writeMetadata(s)
        PROVE  Metadata'
    BY <2>4, MetadataBackupReads, MetadataCopyFromPod, MetadataCopiedFromPod, MetadataDump
  <2> QED
    BY <1>2, <2>1, <2>2, <2>3, <2>4 DEF CLI
<1>3. CASE Copying \/ CopyBreaks
  BY <1>3, MetadataCopying
<1>4. CASE RunAgain
  <2>1. cli'.pc = "start" /\ dirs' = dirs
    BY <1>4 DEF RunAgain, Started, disk
  <2> QED
    BY <2>1, MetadataRests DEF Saving
<1>5. CASE Killed
  <2>1. cli'.pc = "idle" /\ dirs \in [Dir -> Directory]
    BY <1>5 DEF Killed, Inv, TypeOK, Process
  <2>2. \A d \in Dir : /\ dirs'[d].kind = dirs[d].kind /\ dirs'[d].meta = dirs[d].meta
                       /\ dirs'[d].had = dirs[d].had /\ dirs[d].files \subseteq dirs'[d].files
    <3>1. CASE copy.way = "from"
      <4>1. dirs' = [dirs EXCEPT ![cli.dir].files = @ \cup copy.landed]
        BY <1>5, <3>1 DEF Killed
      <4> QED
        BY <2>1, <4>1 DEF Directory
    <3>2. CASE copy.way # "from"
      BY <1>5, <3>2 DEF Killed
    <3> QED
      BY <3>1, <3>2
  <2> QED
    BY <2>1, <2>2 DEF Metadata
<1> QED
  BY <1>1, <1>2, <1>3, <1>4, <1>5 DEF Next

(* A directory with metadata has everything its service had stored when the  *)
(* copy began, for any interleaving of the two goroutines with failures,     *)
(* kills and what others do, where no other pod of the namespace can be      *)
(* taken for that of the service (backupPVC, CopyFromPod).                   *)
THEOREM MetadataIsWhole ==
    ASSUME Apart
    PROVE  Spec => []MetadataMeansWhole
<1>1. Init => Metadata
  BY DEF Init, Metadata, Started, NoDirectory
<1>2. Inv /\ Metadata /\ [Next]_vars => Metadata'
  BY MetadataNext
<1>3. Metadata => MetadataMeansWhole
  BY DEF Metadata, MetadataMeansWhole
<1> QED
  BY <1>1, <1>2, <1>3, Invariance, PTL DEF Spec

-----------------------------------------------------------------------------
(* A command that reports no failure                                         *)

Done == Agreed /\ FilesDone /\ MetricsDone /\ PatchesDone

LEMMA NotAgreed ==
    ASSUME ~cli'.confirmed, cli'.pc # "confirm" \/ (Asked /\ cmd' = cmd)
    PROVE  Done'
BY DEF Done, Agreed, FilesDone, MetricsDone, PatchesDone, Counting, Asked, Flag

LEMMA GivenUp ==
    ASSUME Done, cmd' = cmd, cli'.confirmed = cli.confirmed, cli'.failed \/ cli'.pc = "idle",
           cli'.pc \in {"copy", "namespace", "post", "patch", "end", "idle"}
    PROVE  Done'
BY DEF Done, Agreed, FilesDone, MetricsDone, PatchesDone, Counting, Flag

LEMMA AgreedStays ==
    ASSUME Agreed, cmd' = cmd, cli'.confirmed = cli.confirmed,
           cli'.pc \in {"copy", "namespace", "post", "patch", "end", "idle"}
    PROVE  Agreed'
BY DEF Agreed, Flag

LEMMA DoneConfirm == ASSUME Inv, Done, Confirm PROVE Done'
<1>0. cli \in Process /\ cli.pc = "confirm" /\ cmd' = cmd /\ ~cli.confirmed
  BY ReaderKeeps DEF Confirm, Inv, TypeOK, Done, Agreed
<1>1. CASE Note("skipped", "end")
  <2>1. cli'.pc = "end" /\ ~cli'.confirmed
    BY <1>0, <1>1, NoteEffect DEF Places
  <2> QED
    BY <2>1, NotAgreed
<1>2. CASE cli' = [cli EXCEPT !.pc = "go", !.confirmed = TRUE]
  <2>1. /\ cli'.pc = "go" /\ cli'.todo = cli.todo /\ cli'.cand = cli.cand
        /\ cli'.reached = cli.reached
    BY <1>0, <1>2 DEF Process
  <2>2. Agreed'
    BY <1>0, <2>1 DEF Done, Agreed, Flag
  <2>3. FilesDone'
    BY <2>1 DEF FilesDone
  <2>4. MetricsDone'
    BY <1>0, <2>1 DEF MetricsDone, Done, Agreed, Past
  <2>5. PatchesDone'
    BY <1>0, <2>1 DEF PatchesDone, Done, Agreed, Past
  <2> QED
    BY <2>2, <2>3, <2>4, <2>5 DEF Done
<1> QED
  BY <1>1, <1>2 DEF Confirm

LEMMA DoneAllDone == ASSUME Inv, Done, AllDone PROVE Done'
<1>0. /\ cli \in Process /\ cli.pc \in {"service", "namespace", "patch"} /\ cli.todo = {}
      /\ Note("completed", "end") /\ Reads
  BY DEF AllDone, Inv, TypeOK
<1>1. /\ cmd' = cmd /\ sched' = sched /\ otel' = otel /\ probe' = probe /\ pods' = pods
  BY <1>0, ReaderKeeps
<1>2. /\ cli'.pc = "end" /\ cli'.todo = {} /\ cli'.cand = cli.cand
      /\ cli'.reached = cli.reached /\ cli'.entries = cli.entries
      /\ cli'.confirmed = cli.confirmed /\ cli'.failed = cli.failed
  BY <1>0, NoteEffect DEF Places, Process
<1>3. cmd.do # "restore data"
  BY <1>0 DEF Inv, Position
<1>4. Agreed'
  BY <1>1, <1>2, AgreedStays DEF Done
<1>5. FilesDone'
  BY <1>1, <1>3 DEF FilesDone
<1>6. MetricsDone'
  <2> SUFFICES ASSUME cmd.do = "restore metrics", Counting', NEW n \in cli.reached,
                      NEW r \in Requests, cli.entries[r] > 0
               PROVE  Scheduled(n, r)'
    BY <1>1, <1>2 DEF MetricsDone
  <2>1. Counting /\ Past(n)
    BY <1>0, <1>2 DEF Counting, Past
  <2>2. Scheduled(n, r)
    BY <2>1 DEF Done, MetricsDone
  <2> QED
    BY <1>1, <2>2 DEF Scheduled, Flag
<1>7. PatchesDone'
  BY <1>0, <1>1, <1>2 DEF PatchesDone, Done, Past, Counting, Changed
<1> QED
  BY <1>4, <1>5, <1>6, <1>7 DEF Done

(* Files: nothing of the directory is lost on the way.                       *)
LEMMA DoneFiles ==
    ASSUME Inv, Done, CopyToPod \/ CopiedToPod \/ LoadDump
    PROVE  Done'
<1>0. /\ cli \in Process /\ cli.pc \in {"go", "copy"} /\ cmd' = cmd /\ cmd.do = "restore data"
      /\ cli.dir \in Dir /\ cli.pod \in Services /\ dirs' = dirs
      /\ data \in [Services -> SUBSET Items] /\ dirs \in [Dir -> Directory]
  BY DEF CopyToPod, CopiedToPod, LoadDump, Inv, TypeOK, Position, Same, disk
<1>1. ASSUME NEW st, NEW l \in {"copy", "end"}, Note(st, l)
      PROVE  /\ cli'.pc = l /\ cli'.dir = cli.dir /\ cli'.pod = cli.pod
             /\ cli'.confirmed = cli.confirmed /\ cli'.failed = (cli.failed \/ st = "failed")
  <2>1. l \in Places
    BY DEF Places
  <2> QED
    BY <1>0, <1>1, <2>1, NoteEffect
<1>2. /\ cli'.pc \in {"copy", "end"} /\ cli'.confirmed = cli.confirmed
      /\ cli'.dir = cli.dir /\ cli'.pod = cli.pod
  <2>1. \E st, l : l \in {"copy", "end"} /\ Note(st, l)
    BY DEF CopyToPod, CopiedToPod, LoadDump
  <2> QED
    BY <1>1, <2>1
<1>3. Agreed'
  BY <1>0, <1>2, AgreedStays DEF Done
<1>4. MetricsDone' /\ PatchesDone'
  BY <1>0 DEF MetricsDone, PatchesDone
<1>5. FilesDone'
  <2> SUFFICES ASSUME dirs[cli.dir].kind = "data", cli.confirmed, ~cli'.failed
               PROVE  /\ cli'.pc = "copy" => Whole(dirs[cli.dir].files)'
                      /\ cli'.pc = "end" => dirs[cli.dir].files \subseteq data'[cli.pod]
    BY <1>0, <1>2 DEF FilesDone, Counting, Whole
  <2>1. CASE CopyToPod
    <3>1. StartCopy("to", dirs[cli.dir].files) /\ cli'.pc = "copy"
      BY <1>1, <2>1 DEF CopyToPod
    <3> QED
      BY <1>0, <1>2, <3>1 DEF StartCopy, NoCopy, Whole
  <2>2. CASE CopiedToPod
    <3>0. PICK st : Note(st, "end") /\ (CopyFailed => st = "failed")
      BY <2>2 DEF CopiedToPod
    <3>1. /\ cli.pc = "copy" /\ ~cli.failed /\ ~CopyFailed /\ Copied /\ cli'.pc = "end"
          /\ data' = [data EXCEPT ![cli.pod] = @ \cup copy.landed]
      BY <1>1, <2>2, <3>0 DEF CopiedToPod
    <3>2. Whole(dirs[cli.dir].files)
      BY <1>0, <3>1 DEF Done, FilesDone, Counting
    <3>3. CopySound /\ copy \in CopyType(Items)
      BY <3>1 DEF Inv, TypeOK, Position
    <3>4. dirs[cli.dir].files \subseteq copy.landed
      BY <3>1, <3>2, <3>3, CopyEnds
    <3> QED
      BY <1>0, <3>1, <3>4
  <2>3. CASE LoadDump
    BY <2>3 DEF LoadDump
  <2> QED
    BY <2>1, <2>2, <2>3
<1> QED
  BY <1>3, <1>4, <1>5 DEF Done

LEMMA DoneCopying == ASSUME Inv, Done, Copying \/ CopyBreaks PROVE Done'
<1>0. /\ cli.pc = "copy" /\ CopySound /\ copy \in CopyType(Items)
      /\ copy.way \in {"from", "to"} /\ (CopyStep \/ CopyFailure)
      /\ cli' = cli /\ dirs' = dirs /\ cmd' = cmd /\ data' = data
      /\ cmd.do \in {"backup data", "restore data"}
  BY DEF Copying, CopyBreaks, Inv, Position, TypeOK, Same, disk, cluster
<1>1. Agreed'
  BY <1>0 DEF Done, Agreed, Flag
<1>2. MetricsDone' /\ PatchesDone'
  BY <1>0 DEF MetricsDone, PatchesDone
<1>3. ASSUME Whole(dirs[cli.dir].files) PROVE Whole(dirs[cli.dir].files)'
  <2> DEFINE F == dirs[cli.dir].files
  <2>1. Whole(F)
    BY <1>3
  <2> HIDE DEF F
  <2>2. copy'.writeErr \/ F \subseteq copy'.left \cup copy'.landed
    BY <1>0, <2>1, CopyLosesNothing DEF Whole
  <2> QED
    BY <1>0, <2>2 DEF Whole, F
<1>4. FilesDone'
  BY <1>0, <1>3 DEF Done, FilesDone, Counting
<1> QED
  BY <1>1, <1>2, <1>4 DEF Done

(* Metrics: an entry is settled once its request, or one that may stand for  *)
(* it, is scheduled.                                                         *)
LEMMA DoneNamespace ==
    ASSUME Inv, Done, NEW n \in Namespaces, restoreToNamespace(n)
    PROVE  Done'
<1> DEFINE Scheduling == {KeyOf[r] : r \in {q \in Requests : sched[n][q] > 0}}
<1>0. /\ cli \in Process /\ cli.pc \in {"go", "namespace"} /\ cmd.do = "restore metrics"
      /\ cmd' = cmd /\ sched' = sched
  BY ReaderKeeps DEF restoreToNamespace, Inv, TypeOK
<1>1. PICK have \in {{}, Scheduling} :
        /\ cli' = [cli EXCEPT !.pc = "post", !.ns = n, !.have = have, !.left = cli.entries]
        /\ have # {} => Flag("skip-existing")
  BY DEF restoreToNamespace
<1>2. /\ cli'.pc = "post" /\ cli'.ns = n /\ cli'.have = have /\ cli'.left = cli.entries
      /\ cli'.entries = cli.entries /\ cli'.todo = cli.todo /\ cli'.reached = cli.reached
      /\ cli'.confirmed = cli.confirmed /\ cli'.failed = cli.failed
  BY <1>0, <1>1 DEF Process
<1>3. Agreed'
  BY <1>0, <1>2, AgreedStays DEF Done
<1>4. FilesDone' /\ PatchesDone'
  BY <1>0 DEF FilesDone, PatchesDone
<1>5. MetricsDone'
  <2> SUFFICES ASSUME Counting' PROVE MetricsDone'
    BY DEF MetricsDone
  <2>1. Counting
    BY <1>0, <1>2 DEF Counting
  <2>2. ASSUME NEW m \in cli.reached, Past(m)', NEW r \in Requests, cli.entries[r] > 0
        PROVE  Scheduled(m, r)'
    <3>1. Past(m)
      BY <1>2, <2>2 DEF Past
    <3>2. Scheduled(m, r)
      BY <1>0, <2>1, <2>2, <3>1 DEF Done, MetricsDone
    <3> QED
      BY <1>0, <3>2 DEF Scheduled, Flag
  <2>3. \A k \in have : /\ Flag("skip-existing")
                        /\ \E q \in Requests : KeyOf[q] = k /\ sched[n][q] > 0
    BY <1>1
  <2>4. \A r \in Requests : ~(cli'.left[r] < cli'.entries[r])
    <3>1. cli.entries \in [Requests -> Nat]
      BY <1>0 DEF Process, Counts
    <3> QED
      BY <1>2, <3>1
  <2> QED
    BY <1>0, <1>2, <2>2, <2>3, <2>4 DEF MetricsDone, Flag
<1> QED
  BY <1>3, <1>4, <1>5 DEF Done

LEMMA PostedAdds ==
    ASSUME cli.ns \in Namespaces, sched \in [Namespaces -> Counts], NEW r \in Requests, Posted(r)
    PROVE  /\ sched'[cli.ns][r] > 0
           /\ \A m \in Namespaces, q \in Requests : sched[m][q] > 0 => sched'[m][q] > 0
<1>1. PICK n \in Namespaces : n = cli.ns
  OBVIOUS
<1> DEFINE row == [sched[n] EXCEPT ![r] = sched[n][r] + 1]
<1>2. sched' = [sched EXCEPT ![n] = row]
  BY <1>1 DEF Posted
<1>3. sched[n] \in [Requests -> Nat]
  BY DEF Counts
<1>4. row[r] = sched[n][r] + 1 /\ sched[n][r] \in Nat
  BY <1>3
<1>5. \A q \in Requests : q # r => row[q] = sched[n][q]
  BY <1>3
<1> HIDE DEF row
<1>6. sched'[n] = row /\ \A m \in Namespaces : m # n => sched'[m] = sched[m]
  BY <1>2
<1> QED
  BY <1>1, <1>4, <1>5, <1>6

LEMMA DoneEntry == ASSUME Inv, Done, NEW r \in Requests, restoreMetric(r) PROVE Done'
<1>0. /\ cli \in Process /\ cli.pc = "post" /\ cli.left[r] > 0 /\ cmd' = cmd
      /\ cmd.do = "restore metrics" /\ cli.ns \in Namespaces /\ sched \in [Namespaces -> Counts]
      /\ (sched' = sched \/ Posted(r))
  BY DEF restoreMetric, Inv, TypeOK, Position, Same
<1>1. PICK st :
        /\ Entry(r, st)
        /\ \/ st = "failed" \/ (st = "completed" /\ Posted(r)) \/ KeyOf[r] \in cli.have
           \/ Flag("dry-run")
  BY DEF restoreMetric
<1>2. /\ cli'.pc = "post" /\ cli'.todo = cli.todo /\ cli'.entries = cli.entries
      /\ cli'.left = [cli.left EXCEPT ![r] = @ - 1] /\ cli'.have = cli.have
      /\ cli'.ns = cli.ns /\ cli'.reached = cli.reached /\ cli'.confirmed = cli.confirmed
      /\ cli'.failed = (cli.failed \/ st = "failed")
  BY <1>0, <1>1, EntryEffect
<1>3. \A m \in Namespaces, q \in Requests : sched[m][q] > 0 => sched'[m][q] > 0
  BY <1>0, PostedAdds
<1>4. Agreed'
  BY <1>0, <1>2, AgreedStays DEF Done
<1>5. FilesDone' /\ PatchesDone'
  BY <1>0 DEF FilesDone, PatchesDone
<1>6. MetricsDone'
  <2> SUFFICES ASSUME Counting' PROVE MetricsDone'
    BY DEF MetricsDone
  <2>0. Counting /\ st # "failed" /\ ~Flag("dry-run")
    BY <1>0, <1>2 DEF Counting, Done, Agreed
  <2>1. \A m \in Namespaces, q \in Requests : Scheduled(m, q) => Scheduled(m, q)'
    BY <1>0, <1>3 DEF Scheduled, Flag
  <2>2. cli.reached \subseteq Namespaces
    BY <1>0 DEF Process
  <2>3. ASSUME NEW m \in cli.reached, Past(m)', NEW q \in Requests, cli.entries[q] > 0
        PROVE  Scheduled(m, q)'
    <3>1. Past(m)
      BY <1>0, <1>2, <2>3 DEF Past
    <3> QED
      BY <1>0, <2>0, <2>1, <2>2, <2>3, <3>1 DEF Done, MetricsDone
  <2>4. PICK N \in Namespaces : N = cli.ns /\ N = cli'.ns
    BY <1>0, <1>2
  <2>5. \A k \in cli.have : /\ Flag("skip-existing")
                            /\ \E q \in Requests : KeyOf[q] = k /\ sched[N][q] > 0
    BY <1>0, <2>0, <2>4 DEF Done, MetricsDone
  <2>6. \A k \in cli.have : /\ Flag("skip-existing")'
                            /\ \E q \in Requests : KeyOf[q] = k /\ sched'[N][q] > 0
    BY <1>0, <1>3, <2>4, <2>5 DEF Flag
  <2>7. Scheduled(N, r)'
    <3>1. CASE Posted(r)
      <4>1. sched'[N][r] > 0
        BY <1>0, <2>4, <3>1, PostedAdds
      <4> QED
        BY <4>1 DEF Scheduled
    <3>2. CASE KeyOf[r] \in cli.have
      BY <2>6, <3>2 DEF Scheduled
    <3> QED
      BY <1>1, <2>0, <3>1, <3>2
  <2>8. ASSUME NEW q \in Requests, cli'.left[q] < cli'.entries[q] PROVE Scheduled(N, q)'
    <3>1. CASE q = r
      BY <2>7, <3>1
    <3>2. CASE q # r
      <4>1. cli.left[q] < cli.entries[q]
        BY <1>0, <1>2, <2>8, <3>2 DEF Process, Counts
      <4>2. Scheduled(N, q)
        BY <1>0, <2>0, <2>4, <4>1 DEF Done, MetricsDone
      <4> QED
        BY <2>1, <2>4, <4>2
    <3> QED
      BY <3>1, <3>2
  <2> QED
    BY <1>0, <1>2, <2>3, <2>4, <2>6, <2>8 DEF MetricsDone
<1> QED
  BY <1>4, <1>5, <1>6 DEF Done

LEMMA DoneRestored == ASSUME Inv, Done, RestoredToNamespace PROVE Done'
<1>0. /\ cli \in Process /\ cli.pc = "post" /\ cli.left = Nothing /\ cmd' = cmd /\ sched' = sched
      /\ cmd.do = "restore metrics" /\ Cur(cli.ns)
  BY ReaderKeeps DEF RestoredToNamespace, Inv, TypeOK, Position
<1>1. PICK st : Next1(st, "namespace")
  BY DEF RestoredToNamespace
<1>2. /\ cli'.pc = "namespace" /\ cli'.todo = cli.todo \ {cli.ns} /\ cli'.entries = cli.entries
      /\ cli'.reached = cli.reached /\ cli'.confirmed = cli.confirmed
      /\ cli'.failed = (cli.failed \/ st = "failed")
  BY <1>0, <1>1, Next1Effect, CurIsFirst DEF Places
<1>3. Agreed'
  BY <1>0, <1>2, AgreedStays DEF Done
<1>4. FilesDone' /\ PatchesDone'
  BY <1>0 DEF FilesDone, PatchesDone
<1>5. MetricsDone'
  <2> SUFFICES ASSUME Counting', NEW m \in cli.reached, Past(m)', NEW q \in Requests,
                      cli.entries[q] > 0
               PROVE  Scheduled(m, q)'
    BY <1>2 DEF MetricsDone
  <2>1. Counting /\ (Past(m) \/ m = cli.ns)
    BY <1>0, <1>2 DEF Counting, Past
  <2>2. Scheduled(m, q)
    <3>1. CASE Past(m)
      BY <1>0, <2>1, <3>1 DEF Done, MetricsDone
    <3>2. CASE m = cli.ns
      <4>1. cli.left[q] < cli.entries[q]
        BY <1>0 DEF Process, Counts, Nothing
      <4> QED
        BY <1>0, <2>1, <3>2, <4>1 DEF Done, MetricsDone
    <3> QED
      BY <2>1, <3>1, <3>2
  <2> QED
    BY <1>0, <2>2 DEF Scheduled, Flag
<1> QED
  BY <1>3, <1>4, <1>5 DEF Done

(* Objects: what is taken from the list has been changed.                    *)
LEMMA DonePatch ==
    ASSUME Inv, Done, cmd' = cmd, cmd.do \in {"otel", "guardrails", "deadlock"},
           cli.pc \in {"go", "patch"}, NEW x, Cur(x),
           \/ Next1("failed", "patch")
           \/ /\ Next1("completed", "patch") /\ Changed(x)'
              /\ \A y \in cli.cand : y # x /\ Changed(y) => Changed(y)'
    PROVE  Done'
<1>0. cli \in Process
  BY DEF Inv, TypeOK
<1>1. CASE Next1("failed", "patch")
  <2>1. cli'.pc = "patch" /\ cli'.failed /\ cli'.confirmed = cli.confirmed
    BY <1>0, <1>1, Next1Effect DEF Places
  <2> QED
    BY <2>1, GivenUp
<1>2. CASE /\ Next1("completed", "patch") /\ Changed(x)'
           /\ \A y \in cli.cand : y # x /\ Changed(y) => Changed(y)'
  <2>1. /\ cli'.pc = "patch" /\ cli'.todo = cli.todo \ {x} /\ cli'.cand = cli.cand
        /\ cli'.confirmed = cli.confirmed /\ cli'.failed = cli.failed
    <3>1. "patch" \in Places /\ cli.failed \in BOOLEAN
      BY <1>0 DEF Places, Process
    <3> QED
      BY <1>0, <1>2, <3>1, Next1Effect, CurIsFirst
  <2>2. Agreed'
    BY <2>1, AgreedStays DEF Done
  <2>3. FilesDone' /\ MetricsDone'
    BY DEF FilesDone, MetricsDone
  <2>4. PatchesDone'
    <3> SUFFICES ASSUME Counting', NEW y \in cli.cand, Past(y)' PROVE Changed(y)'
      BY <2>1 DEF PatchesDone
    <3>1. Counting /\ (y = x \/ Past(y))
      BY <2>1 DEF Counting, Past
    <3> QED
      BY <1>2, <3>1 DEF Done, PatchesDone
  <2> QED
    BY <2>2, <2>3, <2>4 DEF Done
<1> QED
  BY <1>1, <1>2

LEMMA DonePatches ==
    ASSUME Inv, Done, \/ \E g \in Orchestrators : PatchExporter(g) \/ PatchProbe(g)
                      \/ \E i \in Isvcs : DeletePod(i)
    PROVE  Done'
<1>0. /\ cli \in Process /\ otel \in [Orchestrators -> SUBSET Settings]
      /\ probe \in [Orchestrators -> Probe] /\ pods \in [Isvcs -> Predictor]
  BY DEF Inv, TypeOK
<1>1. ASSUME NEW g \in Orchestrators, PatchExporter(g) PROVE Done'
  <2>0. /\ cmd' = cmd /\ cmd.do = "otel" /\ cli.pc \in {"go", "patch"} /\ Cur(g)
        /\ cli.cand \subseteq Orchestrators
    BY <1>1 DEF PatchExporter, Same, Inv, Position
  <2>1. CASE Next1("failed", "patch")
    BY <2>0, <2>1, DonePatch
  <2>2. CASE /\ Next1("completed", "patch")
             /\ otel' = [otel EXCEPT ![g] = buildOtelMigrationPatch(@, cli.patch[g])]
    <3>1. otel'[g] = buildOtelMigrationPatch(otel[g], cli.patch[g])
      BY <1>0, <2>2
    <3>2. otel[g] \in SUBSET Settings /\ cli.patch[g] \in SUBSET (newSchemaFields \X Texts)
      BY <1>0 DEF Process
    <3>3. ~hasAnyOldFields(otel'[g])
      BY <3>1, <3>2, OtelTyped
    <3>4. \A y \in Orchestrators : y # g => otel'[y] = otel[y]
      BY <1>0, <2>2
    <3>5. Changed(g)'
      BY <2>0, <3>3 DEF Changed
    <3>6. \A y \in cli.cand : y # g /\ Changed(y) => Changed(y)'
      BY <2>0, <3>4 DEF Changed
    <3> QED
      BY <2>0, <2>2, <3>5, <3>6, DonePatch
  <2> QED
    BY <1>1, <2>1, <2>2 DEF PatchExporter
<1>2. ASSUME NEW g \in Orchestrators, PatchProbe(g) PROVE Done'
  <2>0. /\ cmd' = cmd /\ cmd.do = "guardrails" /\ cli.pc \in {"go", "patch"} /\ Cur(g)
        /\ cli.cand \subseteq Orchestrators
    BY <1>2 DEF PatchProbe, Same, Inv, Position
  <2>1. CASE Next1("failed", "patch")
    BY <2>0, <2>1, DonePatch
  <2>2. CASE Next1("completed", "patch") /\ probe' = [probe EXCEPT ![g] = "ok"]
    <3>1. Changed(g)'
      BY <1>0, <2>0, <2>2 DEF Changed
    <3>2. \A y \in cli.cand : y # g /\ Changed(y) => Changed(y)'
      BY <1>0, <2>0, <2>2 DEF Changed
    <3> QED
      BY <2>0, <2>2, <3>1, <3>2, DonePatch
  <2> QED
    BY <1>2, <2>1, <2>2 DEF PatchProbe
<1>3. ASSUME NEW i \in Isvcs, DeletePod(i) PROVE Done'
  <2>0. /\ cmd' = cmd /\ cmd.do = "deadlock" /\ cli.pc \in {"go", "patch"} /\ Cur(i)
        /\ cli.cand \subseteq Isvcs
    BY <1>3 DEF DeletePod, Same, Inv, Position
  <2>1. CASE Next1("failed", "patch")
    BY <2>0, <2>1, DonePatch
  <2>2. CASE Next1("completed", "patch") /\ pods' = [pods EXCEPT ![i].old = FALSE]
    <3>0. ~pods'[i].old /\ \A y \in Isvcs : y # i => pods'[y] = pods[y]
      BY <1>0, <2>2 DEF Predictor
    <3>1. Changed(i)'
      BY <2>0, <3>0 DEF Changed
    <3>2. \A y \in cli.cand : y # i /\ Changed(y) => Changed(y)'
      BY <2>0, <3>0 DEF Changed
    <3> QED
      BY <2>0, <2>2, <3>1, <3>2, DonePatch
  <2> QED
    BY <1>3, <2>1, <2>2 DEF DeletePod
<1> QED
  BY <1>1, <1>2, <1>3

(* What others do in the meantime undoes none of it.                         *)
LEMMA DoneOthers ==
    ASSUME Inv, Done,
           \/ UNCHANGED vars \/ Expire \/ Operator \/ Over
           \/ \E s \in Services : Upgrade(s) \/ Observe(s) \/ PodGoes(s)
           \/ \E i \in Isvcs : GPUComesFree(i)
           \/ \E g \in Orchestrators : EditExporter(g)
    PROVE  Done'
<1>0. dirs' = dirs /\ cmd' = cmd /\ cli' = cli /\ copy' = copy
  BY DEF Expire, Operator, Over, Upgrade, Observe, PodGoes, GPUComesFree, EditExporter,
         Others, Same, disk, vars
<1>1. Agreed'
  BY <1>0 DEF Done, Agreed, Flag
<1>2. CASE cli.pc = "idle"
  BY <1>0, <1>1, <1>2 DEF Done, FilesDone, MetricsDone, PatchesDone, Counting
<1>3. CASE cli.pc # "idle"
  <2>0. /\ otel \in [Orchestrators -> SUBSET Settings] /\ pods \in [Isvcs -> Predictor]
        /\ data \in [Services -> SUBSET Items] /\ cli \in Process
    BY DEF Inv, TypeOK
  <2>1. sched' = sched /\ probe' = probe
    BY <1>3 DEF Expire, Operator, Over, Upgrade, Observe, PodGoes, GPUComesFree, EditExporter,
                cluster, vars
  <2>2. \A s \in Services : data[s] \subseteq data'[s]
    <3>1. CASE data' = data
      BY <3>1
    <3>2. ASSUME NEW s \in Services, Observe(s) PROVE \A t \in Services : data[t] \subseteq data'[t]
      BY <2>0, <3>2 DEF Observe
    <3> QED
      BY <1>3, <3>1, <3>2 DEF Expire, Operator, Over, Upgrade, PodGoes, GPUComesFree,
                              EditExporter, cluster, vars
  <2>3. \A i \in Isvcs : pods'[i].old => pods[i].old
    <3>1. CASE pods' = pods
      BY <3>1
    <3>2. CASE Operator /\ pods' # pods
      <4>1. PICK i \in Isvcs : \/ pods' = [pods EXCEPT ![i].new = "running"]
                               \/ pods' = [pods EXCEPT ![i].old = FALSE]
        BY <3>2 DEF Operator
      <4> QED
        BY <2>0, <4>1 DEF Predictor
    <3>3. ASSUME NEW i \in Isvcs, GPUComesFree(i) PROVE \A j \in Isvcs : pods'[j].old => pods[j].old
      BY <2>0, <3>3 DEF GPUComesFree, Predictor
    <3> QED
      BY <1>3, <3>1, <3>2, <3>3 DEF Expire, Over, Upgrade, Observe, PodGoes, EditExporter,
                                    cluster, vars
  <2>4. \A g \in Orchestrators : hasAnyOldFields(otel'[g]) => hasAnyOldFields(otel[g])
    <3>1. CASE otel' = otel
      BY <3>1
    <3>2. ASSUME NEW g \in Orchestrators, EditExporter(g)
          PROVE  \A h \in Orchestrators : hasAnyOldFields(otel'[h]) => hasAnyOldFields(otel[h])
      <4>1. \A h \in Orchestrators : h # g => otel'[h] = otel[h]
        BY <2>0, <3>2 DEF EditExporter
      <4>2. <<"tracesEndpoint", "old">> \in otel[g]
        BY <3>2 DEF EditExporter
      <4>3. hasAnyOldFields(otel[g])
        BY <4>2 DEF hasAnyOldFields, Fields, oldSchemaFields
      <4> QED
        BY <4>1, <4>3
    <3> QED
      BY <1>3, <3>1, <3>2 DEF Expire, Operator, Over, Upgrade, Observe, PodGoes, GPUComesFree,
                              cluster, vars
  <2>5. FilesDone'
    <3>1. ASSUME cmd.do = "restore data", Counting, cli.pc = "end", dirs[cli.dir].kind = "data"
          PROVE  cli.pod \in Services /\ dirs[cli.dir].files \subseteq data'[cli.pod]
      <4>1. cli.pod \in Services /\ dirs[cli.dir].files \subseteq data[cli.pod]
        BY <3>1 DEF Done, FilesDone
      <4> QED
        BY <2>2, <3>1, <4>1
    <3> QED
      BY <1>0, <3>1 DEF Done, FilesDone, Counting, Whole
  <2>6. MetricsDone'
    <3>1. \A n : \A r : Scheduled(n, r) => Scheduled(n, r)'
      BY <1>0, <2>1 DEF Scheduled, Flag
    <3>2. ASSUME cmd.do = "restore metrics", Counting
          PROVE  /\ \A n \in cli.reached :
                      Past(n) => \A r \in Requests : cli.entries[r] > 0 => Scheduled(n, r)'
                 /\ cli.pc = "post" => \A r \in Requests :
                      cli.left[r] < cli.entries[r] => Scheduled(cli.ns, r)
      BY <3>1, <3>2 DEF Done, MetricsDone
    <3>3. \A r : Scheduled(cli.ns, r) => Scheduled(cli.ns, r)'
      BY <1>0, <2>1 DEF Scheduled, Flag
    <3> QED
      BY <1>0, <2>1, <3>2, <3>3 DEF Done, MetricsDone, Counting, Past, Flag
  <2>7. PatchesDone'
    <3> SUFFICES ASSUME cmd.do \in {"otel", "guardrails", "deadlock"}, Counting,
                        NEW x \in cli.cand, Past(x)
                 PROVE  Changed(x)'
      BY <1>0 DEF PatchesDone, Counting, Past
    <3>1. Changed(x)
      BY DEF Done, PatchesDone
    <3>2. /\ cmd.do \in {"otel", "guardrails"} => x \in Orchestrators
          /\ cmd.do = "deadlock" => x \in Isvcs
      BY DEF Inv, Position
    <3> QED
      BY <1>0, <2>1, <2>3, <2>4, <3>1, <3>2 DEF Changed
  <2> QED
    BY <1>1, <2>5, <2>6, <2>7 DEF Done
<1> QED
  BY <1>2, <1>3

LEMMA DoneNext == ASSUME Inv, Done, [Next]_vars PROVE Done'
<1>0. cli \in Process
  BY DEF Inv, TypeOK
<1>1. CASE \/ UNCHANGED vars \/ Expire \/ Operator \/ Over
           \/ \E s \in Services : Upgrade(s) \/ Observe(s) \/ PodGoes(s)
           \/ \E i \in Isvcs : GPUComesFree(i)
           \/ \E g \in Orchestrators : EditExporter(g)
  BY <1>1, DoneOthers
<1>2. CASE CLI
  <2>1. CASE \/ Start \/ discoverTrustyAIServices \/ resolveTargetService \/ RestorePVC
             \/ RestoreDatabase \/ DiscoverRoutes \/ ListExporters \/ discoverGorchs
             \/ ProbesChecked \/ detectDeadlocks \/ \E s \in Services : UnsupportedFormat(s)
             \/ \E g \in Orchestrators : checkProbe(g)
    <3>1. /\ cli.pc \in {"start", "list", "service", "target", "get"} /\ cmd' = cmd /\ Asked
          /\ cli'.confirmed = cli.confirmed
      BY <2>1, EarlySteps
    <3>2. ~cli.confirmed
      BY <3>1 DEF Done, Agreed
    <3> QED
      BY <3>1, <3>2, NotAgreed
  <2>2. CASE \/ \E s \in Services :
                  \/ BackupPVC(s) \/ CopyFromPod(s) \/ CopiedFromPod(s) \/ BackupDatabase(s)
                  \/ CreateDump(s) \/ Dump(s) \/ writeMetadata(s)
             \/ \E n \in Namespaces : backupNamespace(n)
    <3>1. cmd' = cmd /\ cmd.do \in Backups
      BY <2>2 DEF BackupPVC, CopyFromPod, CopiedFromPod, BackupDatabase, CreateDump, Dump,
                  writeMetadata, backupNamespace, Reads, Same, Inv, Position, Backups
    <3>2. Inv'
      BY <1>2, NextInv DEF Next
    <3>3. ~cli'.confirmed /\ cli'.pc # "confirm"
      BY <3>1, <3>2 DEF Inv, Position
    <3> QED
      BY <3>3, NotAgreed
  <2>3. CASE Finish
    <3>1. cli'.pc = "idle" /\ cli'.confirmed = cli.confirmed /\ cmd' = cmd
      BY <1>0, <2>3 DEF Finish, Process
    <3> QED
      BY <3>1, GivenUp
  <2>4. CASE Confirm \/ AllDone \/ CopyToPod \/ CopiedToPod \/ LoadDump \/ RestoredToNamespace
    BY <2>4, DoneConfirm, DoneAllDone, DoneFiles, DoneRestored
  <2>5. ASSUME NEW n \in Namespaces, restoreToNamespace(n) PROVE Done'
    BY <2>5, DoneNamespace
  <2>6. ASSUME NEW r \in Requests, restoreMetric(r) PROVE Done'
    BY <2>6, DoneEntry
  <2>7. CASE \/ \E g \in Orchestrators : PatchExporter(g) \/ PatchProbe(g)
             \/ \E i \in Isvcs : DeletePod(i)
    BY <2>7, DonePatches
  <2> QED
    BY <1>2, <2>1, <2>2, <2>3, <2>4, <2>5, <2>6, <2>7 DEF CLI
<1>3. CASE Copying \/ CopyBreaks
  BY <1>3, DoneCopying
<1>4. CASE RunAgain
  <2>1. ~cli'.confirmed /\ cli'.pc # "confirm"
    BY <1>4 DEF RunAgain, Started
  <2> QED
    BY <2>1, NotAgreed
<1>5. CASE Killed
  <2>1. cli'.pc = "idle" /\ cli'.confirmed = cli.confirmed /\ cmd' = cmd
    BY <1>0, <1>5 DEF Killed, Process
  <2> QED
    BY <2>1, GivenUp
<1> QED
  BY <1>1, <1>2, <1>3, <1>4, <1>5 DEF Next

LEMMA DoneInit == Init => Done
BY DEF Init, Started, Done, Agreed, FilesDone, MetricsDone, PatchesDone, Counting

(* Only Finish gives a run an exit code, and it is one of success only when  *)
(* nothing has failed.                                                       *)
LEMMA OnlyFinish ==
    ASSUME Inv, [Next]_vars, exit = "none", exit' \in {"ok", "skips"}
    PROVE  Finish
<1>1. exit' # exit /\ exit' # "killed" /\ exit' # "none"
  OBVIOUS
<1>2. CASE CLI
  <2>1. \/ Finish \/ exit' = exit
    BY <1>2 DEF CLI, Start, Confirm, AllDone, discoverTrustyAIServices, resolveTargetService,
                RestorePVC, RestoreDatabase, CopyToPod, CopiedToPod, LoadDump, DiscoverRoutes,
                RestoredToNamespace, ListExporters, discoverGorchs, ProbesChecked,
                detectDeadlocks, BackupPVC, CopyFromPod, CopiedFromPod, BackupDatabase,
                CreateDump, Dump, writeMetadata, UnsupportedFormat, backupNamespace,
                restoreToNamespace, restoreMetric, PatchExporter, checkProbe, PatchProbe,
                DeletePod, Reads, Same
  <2> QED
    BY <1>1, <2>1
<1>3. CASE ~CLI
  BY <1>1, <1>3 DEF Next, Copying, CopyBreaks, Expire, Killed, RunAgain, Operator, Over, Upgrade,
                    Observe, PodGoes, GPUComesFree, EditExporter, Others, Same, vars
<1> QED
  BY <1>2, <1>3

(* A run that reports no failure has done what the user agreed to, for any   *)
(* number of services, namespaces, metrics and objects, whatever fails and   *)
(* whatever others do (exit code of migrate run).                            *)
THEOREM OkIsDone == Spec => OkMeansDone
<1>1. ASSUME Inv, Done, [Next]_vars, exit = "none", exit' \in {"ok", "skips"}, cli.confirmed
      PROVE  CASE cmd.do = "restore data" ->
                    dirs[cli.dir].kind = "data" => dirs[cli.dir].files \subseteq data[cli.pod]
               [] cmd.do = "restore metrics" ->
                    \A n \in cli.reached : \A r \in Requests : cli.entries[r] > 0 =>
                      \E q \in Requests : /\ KeyOf[q] = KeyOf[r] /\ sched[n][q] > 0
                                          /\ ~Flag("skip-existing") => q = r
               [] cmd.do = "otel" -> \A g \in cli.cand : ~hasAnyOldFields(otel[g])
               [] cmd.do = "guardrails" -> \A g \in cli.cand : probe[g] = "ok"
               [] cmd.do = "deadlock" -> \A i \in cli.cand : ~pods[i].old
  <2>1. cmd.do \notin Backups /\ cli.pc = "end" /\ ~cli.failed
    <3>1. Finish
      BY <1>1, OnlyFinish
    <3> QED
      BY <1>1, <3>1 DEF Finish, Inv, Position
  <2>2. Counting /\ \A x : Past(x)
    BY <1>1, <2>1 DEF Counting, Past
  <2>3. CASE cmd.do = "restore data"
    BY <1>1, <2>1, <2>2, <2>3 DEF Done, FilesDone
  <2>4. CASE cmd.do = "restore metrics"
    <3>1. \A n \in cli.reached : \A r \in Requests : cli.entries[r] > 0 => Scheduled(n, r)
      BY <1>1, <2>2, <2>4 DEF Done, MetricsDone
    <3> QED
      BY <2>4, <3>1 DEF Scheduled
  <2>5. CASE cmd.do \in {"otel", "guardrails", "deadlock"}
    <3>1. \A x \in cli.cand : Changed(x)
      BY <1>1, <2>2, <2>5 DEF Done, PatchesDone
    <3> QED
      BY <2>5, <3>1 DEF Changed
  <2>6. cmd.do \in {"restore data", "restore metrics", "otel", "guardrails", "deadlock"}
    BY <1>1, <2>1 DEF Inv, TypeOK, Command
  <2> QED
    BY <2>3, <2>4, <2>5, <2>6
<1>2. Inv /\ Done /\ [Next]_vars => Done'
  BY DoneNext
<1> QED
  BY <1>1, <1>2, DoneInit, Invariance, PTL DEF Spec, OkMeansDone
=============================================================================
