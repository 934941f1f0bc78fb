----------------------------- MODULE Filenames -----------------------------
(***************************************************************************)
(* The names of files (syscall_handler.c, fd_table.c).  When a task enters *)
(* open, iotrace copies the path out of its memory, a word at a time, into *)
(* a buffer of fixed size, while other threads of the traced program may   *)
(* write to that memory.  When the task leaves open, the buffer is the     *)
(* name of the file; the peer of a pseudoterminal gets a name made from    *)
(* that of the terminal, in a second buffer.  A buffer is a function from  *)
(* offsets to characters, and a write past its end adds to its domain.     *)
(***************************************************************************)
EXTENDS Integers, Sequences, FiniteSets

CONSTANTS Char,
          Image,    \* what may be in memory from the address of a path on
          Edge,     \* the bytes that may be mapped from there on
          Scribble, \* what another thread may write: pairs of an offset and a character
          Rest,     \* what may be in a buffer before it is written
          WORD,     \* sizeof(long)
          WORDS     \* the size of the buffers in words

NUL == "NUL"
FILENAME_BUFF_SIZE == WORDS * WORD
Buffer == 0 .. FILENAME_BUFF_SIZE - 1
SLAVE == <<" ", "s", "l", "a", "v", "e">>
DOTS == <<".", ".", ".">>

ASSUME FilenamesAssumption ==
  /\ WORD \in Nat \ {0} /\ WORDS \in Nat /\ FILENAME_BUFF_SIZE >= 17
  /\ NUL \in Char /\ \A k \in 1 .. 6 : SLAVE[k] \in Char /\ "." \in Char
  /\ Edge \subseteq Nat /\ Scribble \subseteq Nat \X Char /\ Rest \subseteq Char
  /\ \A m \in Image : DOMAIN m \subseteq Nat
  /\ \A m \in Image, e \in Edge : \A a \in 0 .. e - 1 : a \in DOMAIN m /\ m[a] \in Char

VARIABLES
  mem,              \* the memory of the task from the address of the path on
  edge,             \* how much of it is mapped
  touched,          \* whether another thread wrote to it during the call
  pc,               \* ready, peek (in read_string), call, return, or exit
  i,                \* the word read_string is at
  filename_buffer,  \* of thread_temporaries
  fd,               \* whether the file is open
  name,             \* its name in the fd table
  filename,         \* the buffer of fd_table_insert_dup
  peer              \* the name of the peer in the fd table

caller == <<mem, edge, touched>>
reader == <<pc, i, filename_buffer>>
tables == <<fd, name, filename, peer>>
vars == <<caller, reader, tables>>

-----------------------------------------------------------------------------
(* Strings of C.                                                           *)

Ends(m) == {n \in DOMAIN m : m[n] = NUL}

\* A string that has no end is taken to be as long as what it is in.
strlen(m) ==
  IF Ends(m) = {} THEN Cardinality(DOMAIN m)
  ELSE CHOOSE n \in Ends(m) : \A k \in Ends(m) : n <= k

Text(m, n) == [k \in 1 .. n |-> m[k - 1]]
String(m) == Text(m, strlen(m))

\* memcpy to an offset of a buffer, and strcpy.
Copy(buf, at, s) ==
  [k \in DOMAIN buf \cup at .. at + Len(s) - 1 |->
     IF k \in at .. at + Len(s) - 1 THEN s[k - at + 1] ELSE buf[k]]
strcpy(buf, at, s) == Copy(buf, at, Append(s, NUL))

\* The buffers come from malloc and from the stack.
Fresh == {[k \in Buffer |-> c] : c \in Rest}

Init ==
  /\ mem \in Image /\ edge \in Edge /\ touched = FALSE
  /\ pc = "ready" /\ i = 0
  /\ filename_buffer \in Fresh /\ filename \in Fresh
  /\ fd = FALSE /\ name = <<>> /\ peer = <<>>

-----------------------------------------------------------------------------
\* handle_open_call, with the path the task has put in its memory.  (Only the
\* last file and its peers are looked at.)
handle_open_call ==
  /\ pc = "ready"
  /\ mem' \in Image /\ edge' \in Edge /\ touched' = FALSE
  /\ pc' = "peek" /\ i' = 0
  /\ fd' = FALSE /\ name' = <<>> /\ peer' = <<>> /\ filename' \in Fresh
  /\ UNCHANGED filename_buffer

Word(at) == [k \in 1 .. WORD |-> mem[at + k - 1]]

\* Mutant: a word that cannot be read is taken for its value, -1.
peek_unchecked ==
  LET at == i * WORD
      data == IF at + WORD > edge THEN [k \in 1 .. WORD |-> "0xff"] ELSE Word(at)
      ended == \E k \in 1 .. WORD : data[k] = NUL
  IN
  /\ pc = "peek" /\ i < WORDS
  /\ filename_buffer' = Copy(filename_buffer, at, data)
  /\ pc' = IF ended THEN "call" ELSE "peek"
  /\ i' = IF ended THEN i ELSE i + 1
  /\ UNCHANGED <<caller, tables>>

\* Mutant: the end of the string does not end the loop.
peek_on ==
  LET at == i * WORD IN
  /\ pc = "peek" /\ i < WORDS
  /\ IF at + WORD > edge THEN pc' = "exit" /\ UNCHANGED <<i, filename_buffer>>
     ELSE /\ filename_buffer' = Copy(filename_buffer, at, Word(at))
          /\ i' = i + 1 /\ UNCHANGED pc
  /\ UNCHANGED <<caller, tables>>

\* One round of read_string.  PTRACE_PEEKDATA fails for a word that is not all
\* mapped; then iotrace ends.
peek ==
  LET at == i * WORD
      ended == \E k \in 1 .. WORD : Word(at)[k] = NUL
  IN
  /\ pc = "peek" /\ i < WORDS
  /\ IF at + WORD > edge THEN pc' = "exit" /\ UNCHANGED <<i, filename_buffer>>
     ELSE /\ filename_buffer' = Copy(filename_buffer, at, Word(at))
          /\ pc' = IF ended THEN "call" ELSE "peek"
          /\ i' = IF ended THEN i ELSE i + 1
  /\ UNCHANGED <<caller, tables>>

\* Mutant: the last character is left in place.
cut_unterminated ==
  /\ pc = "peek" /\ i = WORDS
  /\ pc' = "call"
  /\ UNCHANGED <<caller, i, filename_buffer, tables>>

\* A path that fills the buffer is cut.
cut ==
  /\ pc = "peek" /\ i = WORDS
  /\ filename_buffer' = [filename_buffer EXCEPT ![FILENAME_BUFF_SIZE - 1] = NUL]
  /\ pc' = "call"
  /\ UNCHANGED <<caller, i, tables>>

\* Another thread of the traced program writes to the path, once in a call.
scribble ==
  /\ pc \in {"peek", "call"} /\ ~touched
  /\ touched' = TRUE
  /\ \E w \in Scribble : w[1] < edge /\ mem' = [mem EXCEPT ![w[1]] = w[2]]
  /\ UNCHANGED <<edge, reader, tables>>

\* The kernel takes the path from the memory and opens the file, or fails.
kernel_open ==
  /\ pc = "call" /\ pc' = "return"
  /\ fd' \in {FALSE, Ends(mem) # {} /\ strlen(mem) \in 1 .. edge - 1}
  /\ UNCHANGED <<caller, i, filename_buffer, name, filename, peer>>

\* handle_open_return: fd_table_insert copies the name.
handle_open_return ==
  /\ pc = "return" /\ pc' = "ready"
  /\ name' = IF fd THEN String(filename_buffer) ELSE name
  /\ UNCHANGED <<caller, i, filename_buffer, fd, filename, peer>>

\* Mutant: the room for the zero at the end is forgotten.
SlaveOf_room(buf) ==
  LET len == strlen(buf) IN
  IF len + 6 <= FILENAME_BUFF_SIZE THEN strcpy(buf, len, SLAVE)
                                   ELSE strcpy(buf, len - 10, DOTS \o SLAVE)

\* Mutant: the room for the shorter of the two endings is taken for both.
SlaveOf_short(buf) ==
  LET len == strlen(buf) IN
  IF len + 7 < FILENAME_BUFF_SIZE THEN strcpy(buf, len, SLAVE)
                                  ELSE strcpy(buf, len - 11, DOTS \o SLAVE)

SlaveOf(buf) ==
  LET len == strlen(buf) IN
  IF len + 7 < FILENAME_BUFF_SIZE THEN strcpy(buf, len, SLAVE)
                                  ELSE strcpy(buf, len - 10, DOTS \o SLAVE)

\* handle_ioctl_return of TIOCGPTPEER, of the file or, as a failure is entered in
\* the table too, of what is there by an earlier one.
fd_table_insert_dup ==
  /\ pc = "ready" /\ fd
  /\ \E orig \in {name} \cup ({peer} \ {<<>>}), stack \in Fresh :
       filename' = SlaveOf(strcpy(stack, 0, orig))
  /\ peer' = String(filename')
  /\ UNCHANGED <<caller, reader, fd, name>>

Next ==
  \/ handle_open_call \/ peek \/ cut \/ scribble \/ kernel_open \/ handle_open_return
  \/ fd_table_insert_dup

Spec == Init /\ [][Next]_vars

-----------------------------------------------------------------------------
\* Every variable keeps its type.
TypeOK ==
  /\ \A a \in 0 .. edge - 1 : mem[a] \in Char
  /\ edge \in Edge /\ touched \in BOOLEAN /\ fd \in BOOLEAN
  /\ pc \in {"ready", "peek", "call", "return", "exit"}
  /\ i \in 0 .. WORDS
  /\ \A k \in Buffer : filename_buffer[k] \in Char /\ filename[k] \in Char
  /\ name \in Seq(Char) /\ peer \in Seq(Char)

\* No write goes past the end of a buffer, whatever the length of the path and
\* whoever changes it while it is read (read_string, fd_table_insert_dup).
InBounds == DOMAIN filename_buffer = Buffer /\ DOMAIN filename = Buffer

\* A path as far as it fits into a buffer.
Cut(m) == Text(m, IF strlen(m) < FILENAME_BUFF_SIZE THEN strlen(m) ELSE FILENAME_BUFF_SIZE - 1)

\* If nobody writes to the path, its name is the path the kernel opens, cut to
\* the size of the buffer, and nothing is left in it of an earlier, longer path.
NameOfPath ==
  pc = "return" /\ fd /\ ~touched => String(filename_buffer) = Cut(mem)

\* The bytes that have to be mapped: all words up to the one with the zero.
Needed ==
  IF Ends(mem) # {} /\ strlen(mem) < FILENAME_BUFF_SIZE
    THEN (strlen(mem) \div WORD + 1) * WORD ELSE FILENAME_BUFF_SIZE

\* iotrace ends, all reports lost, exactly if the path comes that close to the
\* edge of what is mapped, be it that the kernel can read it.
ExitsAtEdge ==
  ~touched => /\ pc = "exit" => edge < Needed
              /\ pc \in {"call", "return"} => edge >= Needed

\* The name of a peer says that it is one and of which terminal, in all but the
\* last 17 characters of a buffer, however often a peer is made of a peer.
PeerNamed ==
  peer # <<>> =>
    /\ SubSeq(peer, Len(peer) - 5, Len(peer)) = SLAVE
    /\ \A k \in 1 .. Len(name) : k <= FILENAME_BUFF_SIZE - 17 => peer[k] = name[k]
=============================================================================
