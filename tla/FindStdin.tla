----------------------------- MODULE FindStdin -----------------------------
(***************************************************************************)
(* esameSNP38: wmstdin walks the file tree from the root and looks for the *)
(* name of the file that is its standard input (wmstdin.c, pathalloc.c).   *)
(* It has one path, fullpath, and each lstat() follows that path from the  *)
(* root again, while others make, move and remove files.                   *)
(***************************************************************************)
EXTENDS Integers, Sequences

CONSTANTS
  Files,     \* files that are not directories, "stdin" among them
  Twin,      \* the one with the inode number of stdin's, on another device
  Length,    \* names, with their lengths
  NAME_MAX, PATH_MAX,
  MaxChanges \* bound: changes others make during the walk

Names == DOMAIN Length

\* One directory below the root is enough for a path to change on the way.
Root == "/"
Sub == "sub"
Dirs == {Root, Sub}
None == "none"

VARIABLES
  entry,     \* what each directory has under each name
  readable,  \* the directories opendir() can open
  stack,     \* one frame for each dopath() that reads a directory
  path,      \* the names in fullpath
  pathlen,   \* the size of the buffer
  pc,
  answer,    \* the file that is reported, or None
  calm,      \* the names nobody touched, as <<directory, name>>
  changes

vars == <<entry, readable, stack, path, pathlen, pc, answer, calm, changes>>

Trees == {t \in [Dirs -> [Names -> Files \union {Sub, None}]] :
            /\ \A n \in Names : t[Sub][n] # Sub
            /\ \E n \in Names : {m \in Names : t[Root][m] = Sub} = {n}}

\* path_alloc(): PATH_MAX, or one more where it may not count the null byte.
PathAlloc == {PATH_MAX, PATH_MAX + 1}

Init ==
  /\ entry \in Trees
  /\ readable \in {Dirs, {Root}}
  /\ pathlen \in PathAlloc
  /\ stack = << >> /\ path = << >>
  /\ pc = "lstat" /\ answer = None
  /\ calm = Dirs \X Names /\ changes = 0

\* strlen(fullpath): "/", and a slash before each name.
Strlen(p) ==
  CASE Len(p) = 0 -> 1
    [] Len(p) = 1 -> 2 + Length[p[1]]
    [] Len(p) = 2 -> 3 + Length[p[1]] + Length[p[2]]

\* What the path leads to; nothing when it is too long.
Lookup(p) ==
  IF Strlen(p) >= PATH_MAX THEN None
  ELSE CASE Len(p) = 0 -> Root
         [] Len(p) = 1 -> entry[Root][p[1]]
         [] Len(p) = 2 -> IF entry[Root][p[1]] = Sub THEN entry[Sub][p[2]] ELSE None

-----------------------------------------------------------------------------

\* dopath() returns 0: the loop that called it goes on, main() exits.
Return == pc' = IF stack = << >> THEN "end" ELSE "readdir"

\* A plausible error: the device is not looked at.
SameInode(x) == x \in {"stdin", Twin}

\* myfunc(), FTW_F: inode and device.  The run that README:19-36 records reports a
\* file that has only the inode number of the standard input, as README:6 asks; this
\* code no longer does that.
IsStdin(x) == x = "stdin"

\* lstat() finds nothing (FTW_NS), a file (FTW_F) or a directory (FTW_D).
Lstat ==
  /\ pc = "lstat"
  /\ LET x == Lookup(path)
     IN  \/ x \in Dirs /\ pc' = "opendir" /\ UNCHANGED answer
         \/ x \in Files /\ IsStdin(x) /\ pc' = "end" /\ answer' = x
         \/ x \notin Dirs /\ ~(x \in Files /\ IsStdin(x)) /\ Return /\ UNCHANGED answer
  /\ UNCHANGED <<entry, readable, stack, path, pathlen, calm, changes>>

\* A plausible error: the slash and the null byte are not counted.
ShortTight == Strlen(path) + NAME_MAX > pathlen

Short == Strlen(path) + NAME_MAX + 2 > pathlen

\* opendir() may find another directory than lstat() did, or none (FTW_DNR).
Opendir ==
  /\ pc = "opendir"
  /\ pathlen' = IF Short THEN 2 * pathlen ELSE pathlen
  /\ LET d == Lookup(path)
     IN  \/ /\ d \in Dirs \intersect readable
            /\ stack' = Append(stack, [dir |-> d, done |-> {},
                                       left |-> {n \in Names : entry[d][n] # None}])
            /\ pc' = "readdir"
         \/ /\ d \notin Dirs \intersect readable
            /\ Return /\ UNCHANGED stack
  /\ UNCHANGED <<entry, readable, path, answer, calm, changes>>

Depth == Len(stack)
Frame == stack[Depth]
Prefix == SubSeq(path, 1, Depth - 1)

\* strcpy(&fullpath[n], dirp->d_name)
PathOf(n) == Append(Prefix, n)

\* The next name: one that is there, once.
Readdir ==
  /\ pc = "readdir"
  /\ \E n \in Names \ Frame.done :
       /\ entry[Frame.dir][n] # None
       /\ stack' = [stack EXCEPT ![Depth].done = @ \union {n}, ![Depth].left = @ \ {n}]
       /\ path' = PathOf(n)
  /\ pc' = "lstat"
  /\ UNCHANGED <<entry, readable, pathlen, answer, calm, changes>>

\* All names that were there all the time have been returned.
Closedir ==
  /\ pc = "readdir" /\ Frame.left = {}
  /\ path' = Prefix
  /\ stack' = SubSeq(stack, 1, Depth - 1)
  /\ pc' = IF Depth = 1 THEN "end" ELSE "readdir"
  /\ UNCHANGED <<entry, readable, pathlen, answer, calm, changes>>

-----------------------------------------------------------------------------
(* The others: link() or creat(), unlink(), rename(). *)

Change(places) ==
  /\ pc # "end" /\ changes < MaxChanges /\ changes' = changes + 1
  /\ calm' = calm \ places
  /\ stack' = [i \in DOMAIN stack |->
                 [stack[i] EXCEPT !.left = {n \in @ : <<stack[i].dir, n>> \notin places}]]
  /\ UNCHANGED <<readable, path, pathlen, pc, answer>>

Make ==
  \E d \in Dirs, n \in Names, f \in Files :
    /\ entry[d][n] = None
    /\ entry' = [entry EXCEPT ![d][n] = f]
    /\ Change({<<d, n>>})

Remove ==
  \E d \in Dirs, n \in Names :
    /\ entry[d][n] \in Files
    /\ entry' = [entry EXCEPT ![d][n] = None]
    /\ Change({<<d, n>>})

Rename ==
  \E d, e \in Dirs, m, n \in Names :
    /\ entry[d][m] # None /\ <<d, m>> # <<e, n>>
    /\ entry[d][m] = Sub => e = Root /\ entry[e][n] = None
    /\ entry[e][n] # Sub
    /\ entry' = [entry EXCEPT ![d][m] = None, ![e][n] = entry[d][m]]
    /\ Change({<<d, m>>, <<e, n>>})

Next == Lstat \/ Opendir \/ Readdir \/ Closedir \/ Make \/ Remove \/ Rename

Spec == Init /\ [][Next]_vars

-----------------------------------------------------------------------------

TypeOK ==
  /\ entry \in Trees /\ readable \subseteq Dirs
  /\ path \in Seq(Names) /\ Len(path) <= 2 /\ Depth <= 2
  /\ pc \in {"lstat", "opendir", "readdir", "end"} /\ answer \in Files \union {None}

\* The walk reports a name of the file itself, and none of a file that has only the
\* inode number, unlike the recorded run of README:19-36.  It ends without one only if
\* there was none that stayed where it was the whole time, below directories
\* that stayed and can be read, with a path that lstat() takes.
Found ==
  pc = "end" =>
    \/ answer = "stdin"
    \/ /\ answer = None
       /\ \A d \in Dirs, n \in Names :
            entry[d][n] = "stdin" =>
              \/ <<d, n>> \notin calm \/ d \notin readable
              \/ d = Sub /\ \A m \in Names : entry[Root][m] = Sub =>
                                               \/ <<Root, m>> \notin calm
                                               \/ Strlen(<<m, n>>) >= PATH_MAX

\* The path fits its buffer, the next name with it.
InBuffer == Strlen(path) + 1 <= pathlen
=============================================================================
