--------------------------- MODULE MCFileSystem ---------------------------
(* Instances of FileSystem for TLC. *)
EXTENDS FileSystem, TLC

CONSTANTS p1, p2

(* One process moves between directories; all other calls race with it.    *)
TwoRoles == p1 :> {"creat", "mkdir", "unlink", "chdir"}
         @@ p2 :> {"open", "creat", "mkdir", "link", "unlink"}
FlatPaths == {<<"a">>, <<"b">>}

(* One process goes down, removes what is above it, and goes up. *)
OneRole == p1 :> {"mkdir", "unlink", "chdir"}
UpPaths == {<<"a">>, <<"a", "a">>, <<"..">>}
=============================================================================
