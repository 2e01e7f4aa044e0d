----------------------------- MODULE MCDeliver ------------------------------
(***************************************************************************)
(* A small instance of Deliver: a root directory in which "a" is absent, a *)
(* file or a directory, which may itself hold an "a", each directory with  *)
(* or without index files and a not-found page; and URLs of up to three    *)
(* elements, not-found pages and hidden names among them.                  *)
(***************************************************************************)
EXTENDS Deliver

MCNames == {"a", "b", ".x", ".well-known", "not-found.html"}
             \cup {azIndex[k] : k \in DOMAIN azIndex}

A == <<"a">>
AA == <<"a", "a">>

\* What a directory may hold besides "a".
Furniture(d) ==
  LET page == Append(d, "not-found.html")
      index(k) == Append(d, azIndex[k])
  IN  {p @@ i : p \in {<<>>, page :> "file", page :> "locked"},
                i \in {<<>>, index(1) :> "file" @@ index(3) :> "file",
                       index(1) :> "locked" @@ index(3) :> "file"}}

Home == {(<<>> :> "dir") @@ f : f \in Furniture(<<>>)}
WithFile == {h @@ (A :> k) : h \in Home, k \in {"file", "locked"}}
WithDir == {h @@ (A :> "dir") @@ f : h \in Home, f \in Furniture(A)}
MCTrees ==
  Home \cup WithFile \cup WithDir
    \cup {t @@ (AA :> "file") : t \in WithDir}

MCURLs ==
  {[path |-> p, slash |-> s] : p \in {A, AA, <<"a", "a", "b">>}, s \in BOOLEAN}
    \cup {Root}
    \cup {FileURL(p) : p \in {<<"a", "not-found.html">>, <<"a", ".x">>,
                              <<".well-known", ".x">>}}

=============================================================================
