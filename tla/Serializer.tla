----------------------------- MODULE Serializer -----------------------------
(***************************************************************************)
(* What the two readers of cra_serialize share: the position in the        *)
(* buffer, the nesting depth and the error of CraSerializer, the release   *)
(* manager that knows which objects a failed read has to give back, and    *)
(* the search for the member a field of the input belongs to.              *)
(*                                                                         *)
(* The recursion of the readers is the stack of frames, one for every      *)
(* object that is being read.  Memory is a sequence of blocks; block 1 is  *)
(* the object of the caller.  A block that is touched after it was freed,  *)
(* or freed again, is "misused" from then on.                              *)
(***************************************************************************)
EXTENDS Integers, Sequences, SequencesExt, Meta

CONSTANTS MaxNesting,       \* CRA_SERIALIZER_MAX_NESTING
          Nodes1,           \* places in CraReleaseMgr.nodes1
          MaxLength,        \* the longest string, array, list or dictionary
          Failing           \* what may fail: "malloc", "manager", "init", "append"

ASSUME SerializerAssumption ==
         /\ MaxNesting \in Nat /\ Nodes1 \in Nat \ {0} /\ MaxLength \in Nat
         /\ Failing \subseteq {"malloc", "manager", "init", "append"}

VARIABLES buf,              \* what is read, never changed
          ser,              \* CraSerializer
          stack,            \* the frames of the readers, the innermost last
          heap,             \* the state of every block ever allocated
          obj               \* retobj, once the read has succeeded

vars == <<buf, ser, stack, heap, obj>>

Errors == {"OK", "NOBUF", "ALLOC", "LENGTH", "NESTING", "TOO_SMALL", "ADD_FAILED", "INIT_FAILED",
           "INVALID_VAL", "SIZE_MISMATCH", "TYPE_MISMATCH", "CANNOT_BE_KEY", "CANNOT_BE_NULL"}

\* kind: the function; meta: of its object; home: the block the object is in;
\* temp: the block an element is read into before it is added; left: how many
\* fields or elements are to come; m, last, key: the search for a member; val:
\* what has been read.
Frame(kind, meta, home, temp, left, val, part) ==
  [kind |-> kind, meta |-> meta, home |-> home, temp |-> temp, left |-> left,
   m |-> 1, last |-> 1, key |-> <<>>, val |-> val, part |-> part]

\* The frame of cra_bin_deserialize_err and cra_json_parse_err.
Root(metas) == Frame("root", [sub |-> metas], 1, 0, 1, Zeros(metas), "member")

Top == Last(stack)
Running == stack # <<>>
Here(kind, part) == Running /\ Top.kind = kind /\ Top.part = part
SetTop(f) == stack' = Append(Front(stack), f)
-----------------------------------------------------------------------------
\* Memory.
Freed(h, b)   == [h EXCEPT ![b] = IF @ = "live" THEN "freed" ELSE "misused"]
Touched(h, b) == [h EXCEPT ![b] = IF @ = "live" THEN "live" ELSE "misused"]

\* The space for an object: allocated if it is a pointer, else a part of home.
\* It is noted in the release manager before init makes it; own is the storage
\* init gives an object that has an uninit, which later gives it back.
Obtained(meta, home) ==
  LET at    == IF meta.is_ptr THEN Len(heap) + 1 ELSE home
      got   == IF meta.is_ptr THEN Append(heap, "live") ELSE heap
      noted == meta.is_ptr \/ meta.uninit
      full  == noted /\ Len(ser.release) = ser.size
      Entry(own) == [at |-> at, own |-> own, is_ptr |-> meta.is_ptr, uninit |-> meta.uninit]
      Added(own) == IF noted THEN Append(ser.release, Entry(own)) ELSE ser.release
      Outcome(err, h, rel) ==
        [err |-> err, at |-> at, heap |-> h, release |-> rel,
         size |-> IF full THEN ser.size + Nodes1 ELSE ser.size]
      May(cond, outcome) == IF cond THEN {outcome} ELSE {}
  IN {IF meta.uninit THEN Outcome("OK", Append(got, "live"), Added(Len(got) + 1))
                     ELSE Outcome("OK", got, Added(0))}
     \cup May(meta.is_ptr /\ "malloc" \in Failing, Outcome("ALLOC", heap, ser.release))
     \cup May(full /\ "manager" \in Failing, Outcome("ALLOC", Freed(got, at), ser.release))
     \cup May(meta.init /\ "init" \in Failing, Outcome("INIT_FAILED", got, Added(0)))

\* A function returns false, and so do all that wait for it: they free their
\* temporary elements on the way, and note the arrays they have not noted yet.
IsLate(f) == f.kind = "array" /\ f.temp # 0
\* MUTANT: a function that fails keeps its temporary element.
KeepsTemporaries(h, st) == h

Unwound(h, st) ==
  [b \in DOMAIN h |-> IF \E i \in DOMAIN st : st[i].temp = b /\ ~IsLate(st[i]) THEN "freed" ELSE h[b]]
FailFrom(st, err, o) ==
  LET late  == SelectSeq(Reverse(st), IsLate)
      noted == o.release \o [i \in DOMAIN late |-> [at |-> late[i].temp, own |-> 0, is_ptr |-> TRUE, uninit |-> FALSE]]
  IN /\ ser' = [ser EXCEPT !.err = err, !.release = noted,
                           !.size = LET more == {k \in 0 .. Len(late) : o.size + k * Nodes1 >= Len(noted)}
                                    IN o.size + Nodes1 * Min(more)]
     /\ heap' = Unwound(o.heap, st)
     /\ stack' = <<>>
     /\ UNCHANGED <<buf, obj>>
Fail(err, o) == FailFrom(stack, err, o)

\* Memory as it was: what a scalar leaves alone.
Same == [heap |-> heap, release |-> ser.release, size |-> ser.size]
Error(err) == Fail(err, Same)

\* cra_release_mgr_uninit after a failure: in the order they were noted, the
\* objects are taken down by their uninit, and freed if they were allocated.
ReleaseOne ==
  /\ ~Running /\ ser.err # "OK" /\ ser.freed < Len(ser.release)
  /\ LET e == ser.release[ser.freed + 1]
         h == CASE ~e.uninit -> heap
                [] e.uninit /\ e.own = 0 -> [heap EXCEPT ![e.at] = "misused"]  \* never made
                [] OTHER -> Freed(Touched(heap, e.at), e.own)
     IN heap' = IF e.is_ptr THEN Freed(h, e.at) ELSE h
  /\ ser' = [ser EXCEPT !.freed = @ + 1]
  /\ UNCHANGED <<buf, stack, obj>>
-----------------------------------------------------------------------------
\* Frames.
Member(f) == f.meta.sub[f.m]

\* MUTANT: the search stays at the last member.
StaysAtLast(f, m) == IF m = Len(f.meta.sub) THEN m ELSE m + 1

\* The member after m; the first comes after the last.
Succ(f, m) == IF m = Len(f.meta.sub) THEN 1 ELSE m + 1

OneLess(n) == IF n = 0 THEN 0 ELSE n - 1

\* The frame once the value its function waited for has come.  The length of
\* bytes and of an array is stored beside it, cut to its variable's size.
Received(f, v) ==
  CASE f.kind \in {"root", "struct"} ->
         LET meta == Member(f)
             new  == [f.val EXCEPT ![f.m] = v]
         IN [f EXCEPT !.m = Succ(f, f.m), !.part = "next",
                      !.val = IF HasLength(meta) /\ ~(meta.is_ptr /\ v = <<>>)
                              THEN [new EXCEPT ![f.m + 1] = Cut(Len(Contents(meta, v)), f.meta.sub[f.m + 1])]
                              ELSE new]
    [] f.kind \in {"list", "array"} -> [f EXCEPT !.val = Append(@, v), !.left = OneLess(@), !.part = "next"]
    [] f.kind = "dict" /\ f.part # "value" -> [f EXCEPT !.val = Append(@, <<v>>), !.part = "value"]
    [] f.kind = "dict" /\ f.part = "value" ->
         [f EXCEPT !.val = Append(Front(@), Append(Last(@), v)), !.left = OneLess(@), !.part = "next"]

\* append_i copies the element, or the pair, into its container, and may fail.
Appends(f) == f.kind = "list" \/ (f.kind = "dict" /\ f.part = "value")

\* The value v goes to the last frame of st; index, heap and manager are what
\* reading it has made of them.
Return(v, st, index, nesting, o) ==
  LET f == Last(st) IN
  \/ Appends(f) /\ "append" \in Failing /\ Fail("ADD_FAILED", o)
  \/ /\ stack' = Append(Front(st), Received(f, v))
     /\ ser' = [ser EXCEPT !.index = index, !.nesting = nesting, !.release = o.release, !.size = o.size]
     /\ heap' = o.heap
     /\ UNCHANGED <<buf, obj>>

\* A reader of an object with fields or elements has made it, and starts on them.
Enter(f, index, o) ==
  /\ stack' = Append(stack, f)
  /\ ser' = [ser EXCEPT !.index = index, !.nesting = @ + 1, !.release = o.release, !.size = o.size]
  /\ heap' = o.heap
  /\ UNCHANGED <<buf, obj>>

\* The object of the top frame is complete, and its temporary element is freed.
Close(dec) ==
  LET f == Top IN
  Return(Pointed(f.meta, f.val), Front(stack), ser.index, ser.nesting - dec,
         [Same EXCEPT !.heap = IF f.temp = 0 THEN heap ELSE Freed(heap, f.temp)])

\* The search for one of the members in goes, which go by key, from where the last
\* one was found: a length is stepped over; back at the start the field is unknown.
Match(goes) ==
  /\ Here("struct", "match")
  /\ LET f == Top
         m == IF Member(f).is_len THEN Succ(f, f.m) ELSE f.m
     IN \/ m \in goes /\ SetTop([f EXCEPT !.m = m, !.part = "member"])
        \/ /\ m \notin goes
           /\ SetTop([f EXCEPT !.m = Succ(f, m), !.part = IF Succ(f, m) = f.last THEN "skip" ELSE "match"])
  /\ UNCHANGED <<buf, ser, heap, obj>>

\* The outermost function has its value.
Finish ==
  /\ Here("root", "next")
  /\ obj' = Top.val
  /\ stack' = <<>>
  /\ UNCHANGED <<buf, ser, heap>>

SerInit == [index |-> 0, nesting |-> 0, err |-> "OK", release |-> <<>>, size |-> Nodes1, freed |-> 0]

Finished == ~Running /\ (ser.err = "OK" \/ ser.freed = Len(ser.release))
-----------------------------------------------------------------------------
\* Every variable has its type; the position stays in the buffer, and what the
\* release manager and the frames refer to exists.
TypeOK ==
  /\ ser.index \in 0 .. Len(buf) /\ ser.nesting \in 0 .. MaxNesting
  /\ ser.err \in Errors \cup {"UNSET"}
  /\ ser.freed \in 0 .. Len(ser.release) /\ Len(ser.release) <= ser.size
  /\ \A i \in DOMAIN ser.release :
        ser.release[i].at \in DOMAIN heap /\ ser.release[i].own \in {0} \cup DOMAIN heap
  /\ \A i \in DOMAIN stack :
        /\ stack[i].kind \in {"root", "struct", "array", "list", "dict", "skip"}
        /\ stack[i].home \in DOMAIN heap /\ stack[i].temp \in {0} \cup DOMAIN heap
        /\ stack[i].left \in Nat
  /\ \A b \in DOMAIN heap : heap[b] \in {"live", "freed", "misused"}

\* cra_release_mgr_uninit: after a read that failed nothing is left but the
\* object of the caller, and nothing was freed twice or used after it was freed;
\* after one that succeeded exactly the objects it made are left, and the
\* temporary elements are gone.
FailedReadFreesAll ==
  /\ \A b \in DOMAIN heap : heap[b] # "misused"
  /\ heap[1] = "live"
  /\ Finished /\ ser.err # "OK" => \A b \in DOMAIN heap \ {1} : heap[b] = "freed"
  /\ Finished /\ ser.err = "OK" =>
        {b \in DOMAIN heap \ {1} : heap[b] = "live"} =
        UNION {{e.own} \ {0} : e \in ToSet(ser.release)}
           \cup {e.at : e \in {r \in ToSet(ser.release) : r.is_ptr}}
=============================================================================
