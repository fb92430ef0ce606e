----------------------------- MODULE FrontMatter ------------------------------
(***************************************************************************)
(* The front matter of a spec file: how it is read and how it is updated.  *)
(* A line is its indentation, its kind and the texts it holds.  A parsed   *)
(* field is a scalar, a list or a dictionary.  NoMatter is a file without  *)
(* front matter, which is also what a reader finds in a file somebody is   *)
(* writing.  A behaviour is one file; what is said of it is said of every  *)
(* update it may get.                                                      *)
(*                                                                         *)
(* src/mtor/rptor.py (reading), src/mtor/spec.py (validating, updating)    *)
(***************************************************************************)
EXTENDS SpecGraph, Functions

CONSTANTS
  Texts,     \* the names and the values of fields
  Matters,   \* the files
  Names,     \* of the specs beside it
  Values     \* what an update may be given to write

NoValue == ""   \* nothing after the colon, and an argument that is not given

Line == {l \in [at : Nat, kind : {"key", "item", "blank"}, key : Texts, val : Texts] :
           l.kind = "blank" => l.at = 0}

(* The fields an update writes, and the values it has of its own.          *)
Lifecycle == {"status", "workflow_id", "verdict", "dispatched_at", "completed_at", "audit_reason"}
Closing   == {"completed", "done", "approved", "rejected", "failed"}

ASSUME MatterAssumption ==
  /\ Matters \subseteq Seq(Line)
  /\ Values \subseteq Texts \ {NoValue}
  /\ Lifecycle \cup Closing \cup {"ready", "dispatched", "now"} \subseteq Texts

VARIABLE matter

NoMatter == <<>>
Key(at, k, v) == [at |-> at, kind |-> "key", key |-> k, val |-> v]
Item(at, v)   == [at |-> at, kind |-> "item", key |-> NoValue, val |-> v]
Blank         == [at |-> 0, kind |-> "blank", key |-> NoValue, val |-> NoValue]

Scalar(v) == [kind |-> "scalar", list |-> <<v>>]
List(s)   == [kind |-> "list", list |-> s]
Dict(f)   == [kind |-> "dict", list |-> <<>>, dict |-> f]
Unset     == [kind |-> "unset", list |-> <<>>]

(* The lines of some kinds that follow line i without a gap, deeper than it. *)
Following(f, i, kinds) ==
  LET in(j) == j <= Len(f) /\ f[j].at > f[i].at /\ f[j].kind \in kinds
      s == CHOOSE n \in 0 .. Len(f) - i : (\A j \in i + 1 .. i + n : in(j)) /\ ~in(i + n + 1)
  IN [j \in 1 .. s |-> f[i + j]]

ItemsUnder(f, i) == LET run == Following(f, i, {"item"}) IN [j \in 1 .. Len(run) |-> run[j].val]

(* The block of children under line i, and the dictionary of its keys, the *)
(* last one of a name winning.                                             *)
Block(f, i) == Following(f, i, {"key", "item"})

Children(block) ==
  LET keys == {j \in 1 .. Len(block) : block[j].kind = "key"}
      last(k) == CHOOSE j \in keys : block[j].key = k /\ \A m \in keys : block[m].key = k => m <= j
      value(j) == IF block[j].val = NoValue /\ ItemsUnder(block, j) # <<>>
                  THEN List(ItemsUnder(block, j)) ELSE Scalar(block[j].val)
  IN Dict([k \in {block[j].key : j \in keys} |-> value(last(k))])

(* _parse_frontmatter.  A key followed by a deeper item starts a list and  *)
(* loses its own value; an item belongs to the key that last started one,  *)
(* whatever its indentation, until a key with nothing under it is read.    *)
(* The lines of a block of children are skipped once it is read.           *)
With(r, k, v) == [j \in DOMAIN r \cup {k} |-> IF j = k THEN v ELSE r[j]]
Continued(r, k) == IF r[k].kind = "list" THEN r[k].list ELSE <<>>
Under(f, i) == IF i < Len(f) /\ f[i + 1].at > f[i].at THEN f[i + 1].kind ELSE "none"

ReadItem(r, open, v) ==
  IF open = NoValue THEN r ELSE With(r, open, List(Append(Continued(r, open), v)))

ReadKey(f, acc, i) ==
  LET key == f[i].key
  IN CASE Under(f, i) = "item" ->
            [acc EXCEPT !.fields = With(@, key, Scalar(NoValue)), !.open = key]
       [] Under(f, i) = "key" ->
            [acc EXCEPT !.fields = With(@, key, Children(Block(f, i))), !.skip = Len(Block(f, i))]
       [] OTHER ->
            [acc EXCEPT !.fields = With(@, key, Scalar(f[i].val)), !.open = NoValue]

ReadLine(f, acc, i) ==
  CASE acc.skip > 0          -> [acc EXCEPT !.skip = @ - 1]
    [] acc.skip = 0 /\ f[i].kind = "key"  -> ReadKey(f, acc, i)
    [] acc.skip = 0 /\ f[i].kind = "item" ->
         [acc EXCEPT !.fields = ReadItem(@, acc.open, f[i].val)]
    [] OTHER                 -> acc

Unread == [fields |-> <<>>, open |-> NoValue, skip |-> 0]

(* What has been read after each line. *)
Reading(f) ==
  LET acc[i \in 0 .. Len(f)] == IF i = 0 THEN Unread ELSE ReadLine(f, acc[i - 1], i)
  IN acc

Parse(f) == Reading(f)[Len(f)].fields

Field(f, k) == IF k \in DOMAIN Parse(f) THEN Parse(f)[k] ELSE Unset

(* _as_list *)
AsList(v) == SelectSeq(v.list, LAMBDA x : v.kind = "list" \/ x # NoValue)

Text(f, k, default) ==
  IF Field(f, k).kind = "unset" THEN default
  ELSE IF Field(f, k).kind = "scalar" THEN Field(f, k).list[1] ELSE "nonsense"

HasTests(f) ==
  /\ Field(f, "tests").kind = "dict"
  /\ \E k \in DOMAIN Field(f, "tests").dict \cap {"run", "functions"} :
       AsList(Field(f, "tests").dict[k]) # <<>>

(* parse_spec, of the fields that are acted upon. *)
ParseSpec(f) ==
  [status |-> Text(f, "status", "ready"), wid |-> Text(f, "workflow_id", NoValue),
   verdict |-> Text(f, "verdict", NoValue), deps |-> AsList(Field(f, "depends_on")),
   scope |-> AsList(Field(f, "scope")), tests |-> HasTests(f)]

(* _normalize_list: "[]" is no dependency here, and here alone. *)
ValidDeps(f) == SelectSeq(AsList(Field(f, "depends_on")), LAMBDA x : x # "[]")

(* validate_spec of spec.py, for one file among the given names. *)
Margin(f) == {i \in 1 .. Len(f) : f[i].at = 0 /\ f[i].kind = "key"}

FrontMatterErrors(f, names) ==
  LET keys == {f[i].key : i \in Margin(f)}
      status == ParseSpec(f).status
  IN IF keys = {} THEN {"no_frontmatter"}
     ELSE (IF "status" \notin keys THEN {"no_status"} ELSE {})
          \cup (IF "status" \in keys /\ status \notin Canonical THEN {"invalid_status"} ELSE {})
          \cup (IF status \in {"ready", "dispatched"} /\ ~(ToSet(ValidDeps(f)) \subseteq names)
                THEN {"unknown_dependency"} ELSE {})

(* re.sub(rf"^{field}:\s*.*$"): a key at the margin and its value.  With no *)
(* value, \s* runs over the end of the line and .* takes the next line that*)
(* holds something.                                                        *)
IsField(f, i, k) == f[i].kind = "key" /\ f[i].at = 0 /\ f[i].key = k
HasField(f, k)   == \E i \in 1 .. Len(f) : IsField(f, i, k)

(* Mutant: the pattern's dot matches the end of a line. *)
MatchedToTheEnd(f, k) == [i \in {j \in 1 .. Len(f) : IsField(f, j, k)} |-> i .. Len(f)]

Matched(f, k) ==
  LET next(i) == {j \in i + 1 .. Len(f) : f[j].kind # "blank"}
      taken(i) == IF f[i].val # NoValue THEN {i}
                  ELSE IF next(i) = {} THEN i .. Len(f)
                  ELSE i .. CHOOSE j \in next(i) : \A m \in next(i) : j <= m
  IN [i \in {j \in 1 .. Len(f) : IsField(f, j, k)} |-> taken(i)]

(* The lines a match starts in; a line that one has run over starts none.  *)
Starting(f, k) ==
  LET m == Matched(f, k) IN {i \in DOMAIN m : \A j \in DOMAIN m : j < i => i \notin m[j]}
Run(f, k) == UNION {Matched(f, k)[i] : i \in Starting(f, k)}

(* The lines of f at some places, in order. *)
Only(f, places) ==
  LET nth(j) == CHOOSE i \in places : Cardinality(places \cap 1 .. i) = j
  IN [j \in 1 .. Cardinality(places) |-> f[nth(j)]]

Rewritten(f, k, v) ==
  Only([i \in 1 .. Len(f) |-> IF i \in Starting(f, k) THEN Key(0, k, v) ELSE f[i]],
       ((1 .. Len(f)) \ Run(f, k)) \cup Starting(f, k))

Removed(f, k) == Only(f, (1 .. Len(f)) \ Run(f, k))

(* rstrip: the blank lines at the end go. *)
Stripped(f) ==
  LET blank(n) == \A i \in n + 1 .. Len(f) : f[i].kind = "blank"
  IN SubSeq(f, 1, CHOOSE n \in 0 .. Len(f) : blank(n) /\ \A m \in 0 .. Len(f) : blank(m) => n <= m)

(* _set_field, of a value that is given *)
SetField(f, k, v) ==
  CASE v = NoValue                     -> f
    [] v # NoValue /\ HasField(f, k)  -> Rewritten(f, k, v)
    [] v # NoValue /\ ~HasField(f, k) -> Append(f, Key(0, k, v))

(* update_spec_status: the status is replaced where there is one, and the  *)
(* other fields are replaced or appended; those without a value are kept.  *)
Update(f, call) ==
  LET f1 == Rewritten(f, "status", call.status)
      f2 == SetField(f1, "dispatched_at", IF call.status = "dispatched" THEN "now" ELSE NoValue)
      f3 == SetField(f2, "completed_at", IF call.status \in Closing THEN "now" ELSE NoValue)
      f4 == IF call.clear THEN Stripped(Removed(f3, "workflow_id")) ELSE f3
      f5 == SetField(f4, "workflow_id", call.wid)
      f6 == SetField(f5, "verdict", call.verdict)
  IN IF f = NoMatter THEN f ELSE SetField(f6, "audit_reason", call.reason)

(* How dispatch, reconcile and rptor_done call it. *)
UpdateCall(status, wid, clear, verdict, reason) ==
  [status |-> status, wid |-> wid, clear |-> clear, verdict |-> verdict, reason |-> reason]

UpdateCalls ==
  {UpdateCall("dispatched", w, FALSE, NoValue, NoValue) : w \in Values}
  \cup {UpdateCall("ready", NoValue, TRUE, NoValue, NoValue)}
  \cup {UpdateCall("done", NoValue, FALSE, v, NoValue) : v \in Values \cup {NoValue}}
  \cup {UpdateCall("failed", NoValue, FALSE, v, r) : v \in Values \cup {NoValue}, r \in Values}

(* scaffold_spec: the two templates of `mtor init`. *)
Scaffold(template) ==
  IF template = "plan"
  THEN <<Key(0, "status", "done"), Key(0, "scope", "mtor"), Key(0, "repo", "r"),
         Key(0, "priority", "medium"), Key(0, "depends_on", "[]")>>
  ELSE <<Key(0, "title", "t"), Key(0, "status", "ready"), Key(0, "repo", "r"),
         Key(0, "scope", NoValue), Item(2, "s"), Key(0, "exclude", NoValue), Item(2, "e")>>

MatterInit == matter \in Matters
MatterSpec == MatterInit /\ [][UNCHANGED matter]_matter

---------------------------------------------------------------------------
(* Files as `mtor init` and its updates leave them, in any order: a field  *)
(* of the lifecycle is written at the margin with a value and nothing under*)
(* it, and the items of a list evenly under the key that starts it.        *)
FieldPlain(f, i) ==
  /\ f[i].kind = "key" /\ f[i].at = 0 /\ f[i].val # NoValue
  /\ i < Len(f) => f[i + 1].kind = "key" /\ f[i + 1].at = 0

ItemEven(f, i) ==
  /\ i > 1
  /\ \/ f[i - 1].kind = "item" /\ f[i - 1].at = f[i].at
     \/ f[i - 1].kind = "key" /\ f[i - 1].at <= f[i].at

Tidy(f) ==
  \A i \in 1 .. Len(f) : /\ f[i].key \in Lifecycle => FieldPlain(f, i)
                         /\ f[i].kind = "item" => ItemEven(f, i)

(* An update of a tidy file that has a status reaches the reader, changes  *)
(* nothing else the reader finds, leaves a valid file valid and a tidy one *)
(* tidy (spec.py:108-194 read back by rptor.py:25-242 and validated by     *)
(* spec.py:41-105).  Only a spec that is settled may name dependencies     *)
(* that are not there, and be made ready with them.                        *)
UpdateKeepsTheRest ==
  Tidy(matter) /\ HasField(matter, "status") =>
    \A call \in UpdateCalls :
      LET new == Update(matter, call)
          old == ParseSpec(matter)
          written(v, before) == IF v = NoValue THEN before ELSE v
      IN /\ ParseSpec(new).status = call.status
         /\ ParseSpec(new).wid = written(call.wid, IF call.clear THEN NoValue ELSE old.wid)
         /\ ParseSpec(new).verdict = written(call.verdict, old.verdict)
         /\ DOMAIN Parse(new) \ Lifecycle = DOMAIN Parse(matter) \ Lifecycle
         /\ \A k \in DOMAIN Parse(matter) \ Lifecycle : Field(new, k) = Field(matter, k)
         /\ FrontMatterErrors(new, Names) \subseteq FrontMatterErrors(matter, Names) \cup
              IF old.status = "ready" THEN {} ELSE {"unknown_dependency"}
         /\ Tidy(new) /\ HasField(new, "status")
=============================================================================
