----------------------------- MODULE Containers -----------------------------
(***************************************************************************)
(* The modules of Chapter06 that keep entries in a kernel list (list.c)    *)
(* and in a kernel hash table (hashtable.c).  Both are given the same      *)
(* calls, in any order and with any data, the ones their init functions    *)
(* make among them.  A list of the kernel is a sequence.                   *)
(***************************************************************************)
EXTENDS Integers, Sequences, FiniteSets, SequencesExt

CONSTANTS
  Entries,
  Data           \* what an entry may hold

ASSUME ContainersAssumption == Data \subseteq Int

VARIABLES
  data,          \* data[e], also of an entry that has been deleted
  data_list,     \* the list: a sequence of entries
  data_hash,     \* the hash table: a sequence of entries for every bucket
  older          \* history: <<e, f>> if f was added after e was

containersVars == <<data, data_list, data_hash, older>>

ContainersInit ==
  /\ data = [e \in Entries |-> 0]
  /\ data_list = << >> /\ data_hash = [b \in {0, 1} |-> << >>]
  /\ older = {}

-----------------------------------------------------------------------------
(* list.c *)

add_ordered_entry_AfterEqual(list, new, d) ==
  LET k == SelectInSeq(list, LAMBDA e : data[e] <= d)
  IN  IF k = 0 THEN Append(list, new) ELSE InsertAt(list, k, new)

\* In front of the first entry with less data, or at the end.
add_ordered_entry(list, new, d) ==
  LET k == SelectInSeq(list, LAMBDA e : data[e] < d)
  IN  IF k = 0 THEN Append(list, new) ELSE InsertAt(list, k, new)

\* The first entry with this data, if there is one.
del_entry(list, d) == RemoveFirstMatch(list, LAMBDA e : data[e] = d)

-----------------------------------------------------------------------------
(* hashtable.c *)

\* The remainder has the sign of the dividend.
hash_func(d) == IF d < 0 THEN -((-d) % 2) ELSE d % 2

\* hash_32(key, 1): the top bit of key * GOLDEN_RATIO_32, as 32 bits.
Bucket(key) == IF key * 1640531527 < 0 THEN 1 ELSE 0

\* hash_add puts an entry first.
add_node(table, new, d) == [table EXCEPT ![Bucket(hash_func(d))] = <<new>> \o @]

del_node_ByParity(table, d) ==
  [table EXCEPT ![d % 2] = RemoveFirstMatch(@, LAMBDA e : data[e] = d)]

\* hash_for_each_possible looks in the bucket of the key only.
del_node(table, d) ==
  [table EXCEPT ![Bucket(hash_func(d))] =
     RemoveFirstMatch(@, LAMBDA e : data[e] = d)]

-----------------------------------------------------------------------------
InList(e)  == e \in ToSet(data_list)
InTable(e) == \E b \in DOMAIN data_hash : e \in ToSet(data_hash[b])

\* An entry is added when it is on neither.
Add(e, d) ==
  /\ ~InList(e) /\ ~InTable(e)
  /\ data' = [data EXCEPT ![e] = d]
  /\ data_list' = add_ordered_entry(data_list, e, d)
  /\ data_hash' = add_node(data_hash, e, d)
  /\ older' = (older \cup Entries \X {e}) \ {e} \X Entries

Delete(d) ==
  /\ data_list' = del_entry(data_list, d)
  /\ data_hash' = del_node(data_hash, d)
  /\ UNCHANGED <<data, older>>

ContainersNext == \E d \in Data : Delete(d) \/ \E e \in Entries : Add(e, d)

ContainersSpec == ContainersInit /\ [][ContainersNext]_containersVars

-----------------------------------------------------------------------------
(* Properties *)

Before(s, e, f) == \E i, j \in DOMAIN s : i < j /\ s[i] = e /\ s[j] = f

\* The list is kept in descending order, and entries with equal data in the
\* order they were added, whatever was deleted in between (list.c:25-32).
Ordered ==
  \A e, f \in Entries :
    Before(data_list, e, f) =>
      \/ data[e] > data[f]
      \/ data[e] = data[f] /\ <<e, f>> \in older

\* Both containers hold the same data, as often: although the list deletes the
\* oldest and the table the newest of several equals, and although the hash of
\* a negative number is negative, none is lost, left or found twice
\* (list.c:40-46, hashtable.c:18, :37-42).
SameContents ==
  LET Times(s, d) == Cardinality({i \in DOMAIN s : data[s[i]] = d})
  IN  \A d \in Data :
        Times(data_list, d) = Times(data_hash[0], d) + Times(data_hash[1], d)
=============================================================================
