--------------------------- MODULE MCPublication ---------------------------
(* Two business files beside a transaction directory for snapshots, with
   declarations good and bad: names that collide, directories in the wrong
   order, snapshots of other bytes, locks old and new. *)
EXTENDS Publication, TLC

CONSTANTS top, c0, c1, r0, r1, other

MCBytes == {c0, c1, r0, r1, other, Empty, Torn}

MCParentOf ==
  [path \in {"con", "reg", "con.tmp", "reg.tmp", "lock", "tx"} |-> top]
    @@ [path \in {"tx/c", "tx/r", "tx/sub"} |-> "tx"]
    @@ [path \in {"tx/sub/lock", "tx/sub/new"} |-> "tx/sub"]

Replacement(path, previous, candidate, temporary) ==
  [path |-> path, previous |-> previous, candidate |-> candidate,
   temporary |-> temporary]

Consumers ==
  {Creation(path, c1) : path \in {"con", "tx", "tx/c", "tx/sub/new"}}
    \cup {Replacement("con", c0, c1, t) : t \in {"con.tmp", "reg.tmp", "tx/c"}}

Registries == {Creation("reg", r1), Replacement("reg", r0, r1, "reg.tmp")}

\* The registry last, after at most two other files.
MCFiles ==
  {Append(before, registry) :
     before \in {<<>>} \cup {<<a>> : a \in Consumers}
                  \cup {<<a, b>> : a, b \in Consumers},
     registry \in Registries}

\* Where the snapshots go, with the bytes to preserve or with others.
Snapshots(files) ==
  LET replaced == {file \in ToSet(files) : file.previous # None}
      paths == {file.path : file \in replaced}
      bytes(path) == (CHOOSE file \in replaced : file.path = path).previous
      all(place, saved(_)) == [path \in paths |-> Creation(place[path], saved(path))]
  IN  {all(place, bytes) : place \in [paths -> {"tx/c", "tx/r"}]}
        \cup {all([path \in paths |-> "tx/c"], LAMBDA path : other)}

Lock(path, previous) == [path |-> path, previous |-> previous]

MCLocks ==
  { <<>>, <<Lock("lock", None)>>, <<Lock("lock", other)>>,
    <<Lock("lock", other), Lock("tx/sub/lock", None)>>,
    <<Lock("tx/sub/lock", other)>> }

MCDeclarations ==
  UNION {[files : {files}, snapshots : Snapshots(files),
          directories : {<<>>, <<"tx">>, <<"tx/sub">>,
                         <<"tx", "tx/sub">>, <<"tx/sub", "tx">>},
          locks : MCLocks] : files \in MCFiles}
=============================================================================
