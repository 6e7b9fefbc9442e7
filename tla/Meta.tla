-------------------------------- MODULE Meta --------------------------------
(***************************************************************************)
(* The description of a C object by which the serializers walk over it     *)
(* (cra_serialize.h): one record per member, element, key or value.  A     *)
(* macro that describes bytes or an array yields two records, the second   *)
(* for the variable that holds the length.                                 *)
(*                                                                         *)
(* Values.  A number is an integer, a string a sequence of characters,     *)
(* bytes, an array and a list a sequence, a dictionary a sequence of       *)
(* pairs, a structure the sequence of its members.  A pointer is <<>> when *)
(* it is null and <<v>> when it points to v.                               *)
(***************************************************************************)
LOCAL INSTANCE Integers
LOCAL INSTANCE Sequences
LOCAL INSTANCE SequencesExt

TypeCode == [NULL |-> 0, BOOL |-> 1, INT |-> 2, UINT |-> 3, VARINT |-> 4, VARUINT |-> 5,
             FLOAT |-> 6, STRING |-> 7, BYTES |-> 8, STRUCT |-> 9, LIST |-> 10, DICT |-> 11]

\* iter: the object is walked over with an iterator (a list), not an array.
\* init, uninit: init_i has these functions.
Meta(type, id, is_ptr, size, sub) ==
  [type |-> type, id |-> id, is_ptr |-> is_ptr, size |-> size, sub |-> sub,
   is_len |-> FALSE, iter |-> FALSE, init |-> FALSE, uninit |-> FALSE]

Length(id, size) == [Meta("UINT", id, FALSE, size, <<>>) EXCEPT !.is_len = TRUE]

Scalar(type, id, size)       == <<Meta(type, id, FALSE, size, <<>>)>>
String(id, is_ptr, size)     == <<Meta("STRING", id, is_ptr, size, <<>>)>>
Bytes(id, is_ptr, size)      == <<Meta("BYTES", id, is_ptr, size, <<>>), Length(id, 1)>>
Struct(id, is_ptr, members, uninit) ==
  <<[Meta("STRUCT", id, is_ptr, 1, members) EXCEPT !.init = uninit, !.uninit = uninit]>>
\* The size of an array is the number of elements there is room for.
Array(id, is_ptr, size, element) == <<Meta("LIST", id, is_ptr, size, element), Length(id, 1)>>
List(id, is_ptr, element, uninit) ==
  <<[Meta("LIST", id, is_ptr, 1, element) EXCEPT !.iter = TRUE, !.init = TRUE, !.uninit = uninit]>>
Dict(id, is_ptr, kv, uninit) ==
  <<[Meta("DICT", id, is_ptr, 1, kv) EXCEPT !.iter = TRUE, !.init = TRUE, !.uninit = uninit]>>

IsArray(meta)   == meta.type = "LIST" /\ ~meta.iter
HasLength(meta) == meta.type = "BYTES" \/ IsArray(meta)

\* CHECK_NULL, CHECK_KEY: what may be null, and what may be a key.
MayBeNull(meta) == TypeCode[meta.type] > TypeCode["FLOAT"] /\ meta.is_ptr
MayBeKey(meta)  == TypeCode[meta.type] <= TypeCode["STRING"]

\* What a member holds after bzero; an object not yet made is <<>>.
Zero(meta) == CASE meta.is_ptr -> <<>>
                [] meta.type = "BOOL" -> FALSE
                [] ~meta.is_ptr /\ meta.type \in {"INT", "UINT", "VARINT", "VARUINT", "FLOAT"} -> 0
                [] OTHER -> <<>>
Zeros(metas) == [i \in DOMAIN metas |-> Zero(metas[i])]

\* i2p and u2p: a number is cut to the size of the variable it goes to.
Unsigned(n, size) == n % (256 ^ size)
Signed(n, size)   == LET half == (256 ^ size) \div 2 IN ((n + half) % (2 * half)) - half
Cut(n, meta) == IF meta.type \in {"INT", "VARINT"} THEN Signed(n, meta.size) ELSE Unsigned(n, meta.size)

Pointed(meta, v) == IF meta.is_ptr THEN <<v>> ELSE v
Contents(meta, v) == IF meta.is_ptr THEN v[1] ELSE v
-----------------------------------------------------------------------------
\* cra_check_id_unique: the first id seen before, or -1.  The ids seen are bits
\* of a byte, and 1 << id is an int: the ids are those an int can be shifted by.
Ids == 0 .. 30
check_id_unique(metas) ==
  LET Seen(i)  == {metas[k].id : k \in 1 .. i - 1} \cap 0 .. 7
      again    == {i \in DOMAIN metas : metas[i].id \in Seen(i)}
  IN IF again = {} THEN -1 ELSE metas[CHOOSE i \in again : \A j \in again : i <= j].id
=============================================================================
