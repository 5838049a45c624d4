------------------------------- MODULE AgentFs -------------------------------
(***************************************************************************)
(* What the filesystem helper's operations do to a container's file        *)
(* system (plugins/filesystem/internal/helper, internal/rootfs).  A file   *)
(* system maps the paths that exist to their nodes; a path is a sequence   *)
(* of names.  An operation returns the file system it leaves behind and    *)
(* whether it succeeded: one that fails half way keeps what it has done.   *)
(* Each is one step: other writers between two system calls of one         *)
(* operation, symbolic links, owners and modes are left out.               *)
(***************************************************************************)
EXTENDS Naturals, Sequences, SequencesExt

Dir == [type |-> "directory", data |-> <<>>]
File(data) == [type |-> "file", data |-> data]

Done(f) == [fs |-> f, ok |-> TRUE]
Refused(f) == [fs |-> f, ok |-> FALSE]

IsDir(f, p) == p \in DOMAIN f /\ f[p].type = "directory"
IsFile(f, p) == p \in DOMAIN f /\ f[p].type = "file"

(* What a file system is: whatever is in it lies in directories.           *)
IsPath(p) == p \in Seq(Range(p))
IsTree(f) ==
  \A p \in DOMAIN f :
    /\ IsPath(p) /\ f[p].type \in {"directory", "file"}
    /\ \A i \in 0..(Len(p) - 1) : IsDir(f, SubSeq(p, 1, i))

Put(f, p, node) == [q \in DOMAIN f \cup {p} |-> IF q = p THEN node ELSE f[q]]

Children(f, p) == {q \in DOMAIN f : q # <<>> /\ Front(q) = p}

Pruned(f, p) == [q \in {r \in DOMAIN f : ~IsPrefix(p, r)} |-> f[q]]

(* What ListDirectory answers: the names in p and their types. *)
List(f, p) == [n \in {Last(q) : q \in Children(f, p)} |-> f[Append(p, n)].type]

(* Offset 0 truncates; any other offset writes into what is there.  A file *)
(* that is missing is created, one that is shorter is filled with zeroes.  *)
Upload(f, p, offset, data) ==
  LET old == IF offset = 0 \/ p \notin DOMAIN f THEN <<>> ELSE f[p].data
      end == offset + Len(data)
      At(i) == CASE i \in offset + 1 .. end -> data[i - offset]
                 [] i \notin offset + 1 .. end /\ i <= Len(old) -> old[i]
                 [] OTHER -> "zero"
  IN IF ~IsDir(f, Front(p)) \/ IsDir(f, p) THEN Refused(f)
     ELSE Done(Put(f, p, File([i \in 1 .. (IF end > Len(old) THEN end ELSE Len(old)) |-> At(i)])))

MkdirAll(f, p) ==
  LET missing == {SubSeq(p, 1, i) : i \in 0..Len(p)} \ DOMAIN f
      blocked == \E i \in 0..Len(p) : IsFile(f, SubSeq(p, 1, i))
  IN IF blocked THEN Refused(f)
     ELSE Done([q \in DOMAIN f \cup missing |-> IF q \in missing THEN Dir ELSE f[q]])

(* rename(2): a file replaces a file, a directory an empty directory. *)
Rename(f, from, to, overwrite) ==
  LET moved == {q \in DOMAIN f : IsPrefix(from, q)}
      Dest(q) == to \o SubSeq(q, Len(from) + 1, Len(q))
      rest == Pruned(Pruned(f, from), to)
  IN IF \/ from \notin DOMAIN f \/ ~IsDir(f, Front(to)) \/ IsPrefix(from, to)
        \/ to \in DOMAIN f /\ (~overwrite \/ f[to].type # f[from].type \/ Children(f, to) # {})
     THEN Refused(f)
     ELSE Done([q \in DOMAIN rest \cup {Dest(r) : r \in moved} |->
                  IF q \in DOMAIN rest THEN rest[q]
                  ELSE f[from \o SubSeq(q, Len(to) + 1, Len(q))]])

(* Descends only when recursive; a directory with entries is then refused. *)
Delete(f, p, recursive) ==
  IF p \notin DOMAIN f \/ (~recursive /\ Children(f, p) # {}) THEN Refused(f)
  ELSE Done(Pruned(f, p))

(* The destination is made first, so a member that is refused leaves it.   *)
(* An archive holds one member.                                            *)
Extract(f, p, dest, overwrite, name, data) ==
  LET made == MkdirAll(f, dest)
      member == Append(dest, name)
  IN CASE ~IsFile(f, p) -> Refused(f)
       [] IsFile(f, p) /\ ~made.ok -> made
       [] IsFile(f, p) /\ made.ok /\ (IsDir(made.fs, member)
                                       \/ (member \in DOMAIN made.fs /\ ~overwrite)) -> Refused(made.fs)
       [] OTHER -> Done(Put(made.fs, member, File(data)))
=============================================================================
