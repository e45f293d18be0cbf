-------------------------------- MODULE Wasi --------------------------------
(***************************************************************************)
(* The WASI functions (wasi.rs).  They have no allocation: a call is one   *)
(* step.  Those with two results write the first one before they check     *)
(* where the second goes.                                                  *)
(***************************************************************************)
EXTENDS HostCalls

ASSUME WasiAssumption ==
    /\ SpansOf("random") \subseteq GuestSlice
    /\ \A n \in {"iovs", "count", "size", "time", "data", "buffer"} : PtrsOf(n) \subseteq GuestPtr

\* fault: every error of a guest address is one errno.
Fault(f) == Answer(f, "Fault")

\* A WASI call that answers and leaves the memory m.
Replies(answer, m) ==
    /\ memory' = m
    /\ last' = answer
    /\ told' = Nothing /\ asked' = Nobody
    /\ UNCHANGED <<calls, held, opened, here, made, poisoned>>

\* write_block.
Block(ptr, bytes) == [ptr |-> ptr, len |-> Len(bytes)]

-----------------------------------------------------------------------------
(***************************************************************************)
(* fd_write                                                                *)
(***************************************************************************)
IovecSize == 2 * WordBytes
LevelOf(fd) == CASE fd = "Stdout" -> "Info" [] fd = "Stderr" -> "Error"

Table(iovs, count) == [ptr |-> iovs, len |-> count * IovecSize]
Entries(m, iovs, count) ==
    [i \in 1 .. count |->
        [ptr |-> ReadWord(m, iovs + (i - 1) * IovecSize),
         len |-> ReadWord(m, iovs + (i - 1) * IovecSize + WordBytes)]]

FdWriteErrno(fd, iovs, count, nwritten) ==
    IF fd = Unknown THEN "Badf"
    ELSE IF ~HasWord(memory, nwritten) \/ count > SignedMax THEN "Fault"
    ELSE IF count > MaxIovecs THEN "Inval"
    ELSE IF \/ ~Readable(memory, Table(iovs, count))
            \/ \E i \in 1 .. count : ~Readable(memory, Entries(memory, iovs, count)[i])
    THEN "Fault"
    ELSE "Success"

WithoutNewline(message) ==
    IF message # <<>> /\ Last(message) = Configuration.newline THEN Front(message)
    ELSE message

Sent(entries) == FlattenSeq([i \in DOMAIN entries |-> Read(memory, entries[i])])

\* The copy stops at the embedder's limit, or without one at the size of the
\* memory; every byte is reported as written.
FdWriteMessage(sent) ==
    WithoutNewline(CutTo(sent, IF MaxLogBytes = NoLimit THEN Size(memory) ELSE MaxLogBytes))

FdWrite(fd, iovs, count, nwritten) ==
    LET f == "fd_write"
        status == FdWriteErrno(fd, iovs, count, nwritten)
        sent == Sent(Entries(memory, iovs, count))
        message == FdWriteMessage(sent)
    IN  IF status # "Success"
        THEN Replies(Answer(f, status), memory) /\ UNCHANGED logged
        ELSE /\ Replies([Answer(f, "Ok") EXCEPT !.size = nwritten, !.value = sent],
                        WriteWord(memory, nwritten, Least(Len(sent), WordMax)))
             /\ logged' = IF count = 0 THEN logged
                          ELSE LogContext(LevelOf(fd), message, sent)

-----------------------------------------------------------------------------
(***************************************************************************)
(* Clock and randomness                                                    *)
(***************************************************************************)
ClockTimeGet(id, time) ==
    LET f == "clock_time_get" IN
    /\ UNCHANGED logged
    /\ IF id = Unknown THEN Replies(Answer(f, "Notsup"), memory)
       ELSE IF ~HasLong(memory, time) THEN Replies(Fault(f), memory)
       ELSE Replies(Answer(f, "Ok"), WriteLong(memory, time, Configuration.time[id]))

\* getrandom fills the range in the guest's memory; where it fails, it may have
\* filled some of it.
Fills(slice) == {[i \in 1 .. slice.len |-> b] : b \in {0, Base - 1}}

RandomGet(slice) ==
    LET f == "random_get" IN
    /\ UNCHANGED logged
    /\ IF ~InRangeOfWord(slice) THEN Replies(Fault(f), memory)
       ELSE IF slice.len > MaxRandomBytes THEN Replies(Answer(f, "Inval"), memory)
       ELSE IF ~Inside(memory, slice) THEN Replies(Fault(f), memory)
       ELSE   \/ \E fill \in Fills(slice) :
                    Replies(Answer(f, "Ok"), Write(memory, slice.ptr, fill))
              \/ \E fill \in Fills(slice) \cup {<<>>} :
                    Replies(Answer(f, "Inval"), Write(memory, slice.ptr, fill))

-----------------------------------------------------------------------------
(***************************************************************************)
(* Environment and arguments.  Configuration.environment is the variables  *)
(* in order, each with the bytes of its key, its equals sign and its value *)
(***************************************************************************)
EnvironmentBlock ==
    FlattenSeq([i \in DOMAIN Configuration.environment |->
                    Append(Configuration.environment[i], Terminator)])

\* Two words, the second checked after the first is written.
TwoWords(f, first, count, second, size) ==
    /\ UNCHANGED logged
    /\ IF ~HasWord(memory, first) THEN Replies(Fault(f), memory)
       ELSE IF ~HasWord(memory, second) THEN Replies(Fault(f), WriteWord(memory, first, count))
       ELSE Replies(Answer(f, "Ok"),
                    WriteWord(WriteWord(memory, first, count), second, size))

EnvironSizesGet(first, second) ==
    TwoWords("environ_sizes_get", first, Len(Configuration.environment),
             second, Len(EnvironmentBlock))

ArgsSizesGet(first, second) == TwoWords("args_sizes_get", first, 0, second, 0)

\* Where each variable begins, and after the last the end of the block.
Offsets(buffer) ==
    [i \in 1 .. Len(Configuration.environment) + 1 |->
        buffer + Len(FlattenSeq([j \in 1 .. i - 1 |->
                         Append(Configuration.environment[j], Terminator)]))]

\* The words of the array after its first.
OtherPointers(array, buffer) ==
    [i \in 1 .. Len(Configuration.environment) - 1 |->
        WordAt(array + i * WordBytes, Offsets(buffer)[i + 1])]

EnvironGet(array, buffer) ==
    LET f == "environ_get"
        pointers == FlattenSeq([i \in DOMAIN Configuration.environment |->
                                    LittleEndian(Offsets(buffer)[i], WordBytes)])
        listed == Write(memory, array, pointers)
    IN  /\ UNCHANGED logged
        /\ IF \/ Last(Offsets(buffer)) > WordMax
              \/ ~Readable(memory, Block(array, pointers))
           THEN Replies(Fault(f), memory)
           ELSE IF ~Readable(memory, Block(buffer, EnvironmentBlock))
           THEN Replies(Fault(f), listed)
           ELSE     Replies([Answer(f, "Ok") EXCEPT
                                 !.data = IF pointers = <<>> THEN Absent ELSE array,
                                 !.value = EnvironmentBlock, !.address = buffer,
                                 !.others = OtherPointers(array, buffer)],
                            Write(listed, buffer, EnvironmentBlock))

ArgsGet == Replies(Answer("args_get", "Ok"), memory) /\ UNCHANGED logged

\* proc_exit is a trap: the callback unwinds and the guest is poisoned.
ProcExit ==
    /\ poisoned' = TRUE
    /\ calls' = <<>>
    /\ UNCHANGED <<memory, last, held, told, opened, logged, asked, here, made>>

-----------------------------------------------------------------------------
WasiNext ==
    \/ /\ MayCall("fd_write")
       /\ \E fd \in {"Stdout", "Stderr", Unknown}, iovs \in PtrsOf("iovs"),
             count \in PtrsOf("count"), nwritten \in PtrsOf("size") :
                FdWrite(fd, iovs, count, nwritten)
    \/ /\ MayCall("clock_time_get")
       /\ \E id \in {"Realtime", "Monotonic", Unknown}, time \in PtrsOf("time") :
                ClockTimeGet(id, time)
    \/ MayCall("random_get") /\ \E slice \in SpansOf("random") : RandomGet(slice)
    \/ /\ MayCall("environ_get")
       /\ \/ \E first \in PtrsOf("data"), second \in PtrsOf("size") :
                EnvironSizesGet(first, second) \/ ArgsSizesGet(first, second)
          \/ \E array \in PtrsOf("data"), buffer \in PtrsOf("buffer") :
                EnvironGet(array, buffer)
          \/ ArgsGet
    \/ MayCall("proc_exit") /\ ProcExit

CallsNext == Next \/ WasiNext
CallsSpec == Init /\ [][CallsNext]_vars
=============================================================================
