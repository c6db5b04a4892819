----------------------------- MODULE WorkingDir -----------------------------
(***************************************************************************)
(* One task's working directory: Syscall_chdir (src/src/syscall/          *)
(* SysChdir.h) with resolve_path (src/src/Kernel.cpp), and Syscall_getcwd *)
(* (src/src/syscall/SysGetCwd.h).  A C string is the sequence of its      *)
(* characters before the NUL; characters are one-letter strings.  cwd is  *)
(* the string that starts at Task.cwd, a char[CwdSize] followed in the    *)
(* struct by the operand stack, so a string longer than CwdSize - 1 has   *)
(* its NUL outside the array.  Whether a path names a directory is up to  *)
(* the SD card (sd.open and isDirectory): any answer but for "/", which    *)
(* the code accepts without asking.  reply is what the caller's result    *)
(* buffer holds: a string, or Err when its first cell was set to -1.      *)
(***************************************************************************)
EXTENDS Integers, SequencesExt

CONSTANTS CwdSize,      \* sizeof(Task.cwd) = 32
          PathMax,      \* the read loop's bound, 31 (path_str is char[32])
          Paths,        \* NUL-terminated strings a caller leaves in its heap
          Err           \* a -1 in the buffer's first cell

VARIABLES cwd, reply

vars == <<cwd, reply>>

Slash == <<"/">>

\* strncpy(dst, s, n) into a zeroed buffer: at most n characters.
Take(s, n) == SubSeq(s, 1, Min({Len(s), n}))

\* resolve_path(t, input, output): an absolute input as it is, otherwise
\* cwd, a "/" when cwd does not end in one, and the input.
ResolvePath(c, input) ==
    IF Len(input) > 0 /\ input[1] = "/" THEN input
    ELSE c \o (IF Len(c) > 0 /\ Last(c) # "/" THEN Slash ELSE <<>>) \o input

\* Case A of Syscall_chdir, "..": drop one trailing "/" (unless the string
\* is "/"), then cut at the last "/" that remains; "/" when that is the
\* first character or there is none.
Parent(c) ==
    LET t == IF Len(c) > 1 /\ Last(c) = "/" THEN Front(c) ELSE c
        k == SelectLastInSeq(t, LAMBDA ch : ch = "/")
    IN  IF k <= 1 THEN Slash ELSE SubSeq(t, 1, k - 1)

\* The target path of Syscall_chdir for the path string it read.
Target(c, path) ==
    CASE path = <<".", ".">> -> Parent(c)
      [] path = <<".">>      -> c
      [] OTHER               -> ResolvePath(c, path)

\* On success: memset, strncpy(t->cwd, target, 31), and strcat "/" when the
\* result is longer than 1 and does not end in "/".
NewCwd(target) ==
    LET c == Take(target, CwdSize - 1)
    IN  IF Len(c) > 1 /\ Last(c) # "/" THEN c \o Slash ELSE c

(***************************************************************************)
(* Syscall_chdir(t): pop the path address and the buffer address; a null *)
(* path returns at once.  Read at most PathMax characters of the path,    *)
(* compute the target, accept it when it is "/" or the card opens it as a *)
(* directory.  On success set cwd and copy it, NUL-terminated, into a     *)
(* non-null buffer; on failure write -1 into a non-null buffer's first    *)
(* cell.  hasBuf is buf_addr # 0 and isDir the card's answer.            *)
(***************************************************************************)
ChdirNull ==
    UNCHANGED vars

Chdir(p, hasBuf, isDir) ==
    LET target == Target(cwd, Take(p, PathMax))
    IN  IF target = Slash \/ isDir
        THEN /\ cwd' = NewCwd(target)
             /\ reply' = IF hasBuf THEN NewCwd(target) ELSE reply
        ELSE /\ reply' = IF hasBuf THEN Err ELSE reply
             /\ UNCHANGED cwd

\* Syscall_getcwd(t): pop the buffer address; copy cwd into a non-null one.
Getcwd(hasBuf) ==
    /\ reply' = IF hasBuf THEN cwd ELSE reply
    /\ UNCHANGED cwd

\* Kernel_init: strcpy(cwd, "/"); the heap starts zeroed.
Init ==
    /\ cwd = Slash
    /\ reply = <<>>

Next ==
    \/ ChdirNull
    \/ \E p \in Paths, hasBuf, isDir \in BOOLEAN : Chdir(p, hasBuf, isDir)
    \/ \E hasBuf \in BOOLEAN : Getcwd(hasBuf)

Spec == Init /\ [][Next]_vars

-----------------------------------------------------------------------------
\* Syscall_chdir's success path (spec: "updates cwd, normalized to end with
\* a separator"): the working directory, with its NUL, stays inside the
\* 32-byte Task.cwd, so the strcat that adds the "/" never writes into the
\* operand stack that follows it.
CwdFits == Len(cwd) <= CwdSize - 1

=============================================================================
