--------------------------- MODULE MCDescriptors ---------------------------
(* Descriptors with what TLC needs. *)
EXTENDS DescriptorsInv

\* Every way to open and use a descriptor.
OpenCalls == Openers \cup Pairs \cup {"close", "read", "write"}

\* The same in a task that executes programs.
OpenExecCalls == OpenCalls \cup {"execve"}

\* Every way to duplicate one, change its flag or lose it.
DupCalls == Dups \cup {"open", "close", "write", "untracked", "execve", "setfd"}

\* Calls that change a table two tasks may share.
SharedCalls == {"open", "close", "read", "execve", "clone", "fork", "pipe"}

\* Any descriptor, or the -1 of a call that failed.
AnyFd == -1 .. MaxFd
=============================================================================
