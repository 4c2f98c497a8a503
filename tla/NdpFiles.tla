------------------------------ MODULE NdpFiles ------------------------------
(***************************************************************************)
(* The near-data-processing commands from file to file: the host's         *)
(* io-passthru turns file names into extents (nvme.c), the target reads    *)
(* the extents, computes and, for HEAAN_ADD, writes the target file's      *)
(* extents (ctrlr_bdev.c).  Processes on the host run commands side by     *)
(* side; the host's file system has dirty pages it writes back at any      *)
(* time.  A file is a sequence of bytes, a ciphertext is the file's bytes  *)
(* and adding is bytewise (external: the HEaaN library).  Failing I/O,     *)
(* missing descriptors and allocations are the subject of CtrlrBdev.       *)
(***************************************************************************)
EXTENDS GrepLines

CONSTANTS
  Procs,        \* nvme processes on the host, one command each
  NumBlocks,    \* blocks of the namespace
  Scenarios,    \* devices with files and the commands their users run
  BufWords,     \* 64-bit words in HEAAN_ADD's data buffer (4096 bytes)
  MaxExtents,   \* MAX_EXTENTS
  CdwModulus,   \* 2^32: what cdw11 and cdw12 hold
  Capacity,     \* initial result capacity of GREP, and the bytes it returns (4096)
  GrepBuf,      \* GREP's data buffer (8192 bytes)
  None

VARIABLES
  dev,      \* block size bs, iovec length iov, and the jobs users may run; fixed
  disk,     \* the namespace, by byte
  layout,   \* the extents of each file, by logical offset
  dirty,    \* the contents of files with dirty pages, <<>> without
  cmd,      \* the command of each process, host and target side
  want      \* history: what each file holds for its users

vars == <<dev, disk, layout, dirty, cmd, want>>

Files == {"a", "b", "t"}
Extent == [logical : Nat, physical : Nat, length : Nat]
Status == {"ok", "not sent", "LBA_OUT_OF_RANGE", "INTERNAL_DEVICE_ERROR"}
NoCmd == [st |-> "idle", job |-> None, cdw |-> <<>>, data |-> <<>>, sc |-> "ok", io |-> {},
          pending |-> 0, in |-> <<<<>>, <<>>>>, target_ext |-> <<>>, out |-> <<>>,
          over |-> FALSE, want |-> <<>>]

Init ==
  \E s \in Scenarios :
    /\ dev = [bs |-> s.bs, iov |-> s.iov, jobs |-> s.jobs]
    /\ disk = s.disk /\ layout = s.layout
    /\ dirty = [f \in Files |-> <<>>] /\ cmd = [p \in Procs |-> NoCmd]
    /\ want = s.contents

(***************************************************************************)
(* The host's file system (external): the bytes of a file by its extents,  *)
(* holes reading as zero; writing dirty pages back; and fallocate, which   *)
(* maps the missing blocks to any free ones, or fails for a length of zero *)
(* and for want of space.                                                  *)
(***************************************************************************)
Size(ext) == IF ext = <<>> THEN 0 ELSE Last(ext).logical + Last(ext).length
Covering(ext, k) == {e \in ToSet(ext) : e.logical <= k /\ k < e.logical + e.length}
FileBytes(ext, d) ==
  [k \in 1 .. Size(ext) |->
     IF Covering(ext, k - 1) = {} THEN 0
     ELSE LET e == CHOOSE e \in Covering(ext, k - 1) : TRUE IN d[e.physical + k - 1 - e.logical]]
View(f) == IF dirty[f] # <<>> THEN dirty[f] ELSE FileBytes(layout[f], disk)

WrittenBack(ext, d, bytes) ==
  [o \in DOMAIN d |->
     LET holding == {e \in ToSet(ext) : /\ e.physical <= o /\ o < e.physical + e.length
                                         /\ e.logical + o - e.physical < Len(bytes)} IN
     IF holding = {} THEN d[o]
     ELSE LET e == CHOOSE e \in holding : TRUE IN bytes[e.logical + o - e.physical + 1]]
fsync(fs, f) ==
  IF fs.dirty[f] = <<>> THEN fs
  ELSE [fs EXCEPT !.disk = WrittenBack(fs.layout[f], @, fs.dirty[f]), !.dirty[f] = <<>>]

FreeBlocks(lay) ==
  {b \in 0 .. NumBlocks - 1 :
     \A e \in UNION {ToSet(lay[f]) : f \in Files} :
       ~(e.physical <= b * dev.bs /\ b * dev.bs < e.physical + e.length)}
fallocate(lay, f, length) ==
  LET missing == {k \in 0 .. (length \div dev.bs) - 1 : Covering(lay[f], k * dev.bs) = {}}
      New(place) == {[logical |-> k * dev.bs, physical |-> place[k] * dev.bs, length |-> dev.bs] :
                       k \in missing}
      ByLogical(e1, e2) == e1.logical < e2.logical
  IN IF length = 0 THEN {}
     ELSE {[lay EXCEPT ![f] = Sorted(ToSet(@) \cup New(place), ByLogical)] :
             place \in Injection(missing, FreeBlocks(lay))}

(***************************************************************************)
(* get_file_layout: the dirty pages go to the device, then the extents, at *)
(* most MaxExtents of them.  The extents are sent as physical byte offset  *)
(* and byte length; the logical offset is left behind.                     *)
(***************************************************************************)
\* Faulty variant: the file is not synchronised first.
LayoutUnsynced(fs, f) == fs
LayoutSynced(fs, f) == fsync(fs, f)
get_file_layout(fs, f) == SubSeq(fs.layout[f], 1, Min({MaxExtents, Len(fs.layout[f])}))
total_length(ext) == FoldLeft(LAMBDA sum, e : sum + e.length, 0, ext)

FS == [disk |-> disk, dirty |-> dirty, layout |-> layout]
Apply(fs) == disk' = fs.disk /\ dirty' = fs.dirty /\ layout' = fs.layout

Running(p) == cmd[p].st \notin {"idle", "done"}
FilesOf(job) == {job.in0, job.in1, job.out} \ {None}
NoConflict(p, job) ==
  \A o \in Procs \ {p} :
    Running(o) => job.out \notin FilesOf(cmd[o].job) /\ cmd[o].job.out \notin FilesOf(job)
Start(p, job) == cmd[p].st = "idle" /\ job \in dev.jobs /\ NoConflict(p, job)

(***************************************************************************)
(* passthru for HEAAN_ADD (0xe0).  The data buffer holds, for each of the  *)
(* three files, the offset of its start (always 0) and its extents; what   *)
(* does not fit its 4096 bytes is not sent.                                *)
(***************************************************************************)
Packed(ext) == <<0>> \o FlattenSeq([n \in DOMAIN ext |-> <<ext[n].physical, ext[n].length>>])
DataBuffer(words) == [n \in 1 .. BufWords |-> IF n <= Len(words) THEN words[n] ELSE 0]
Sum(x, y) == [k \in 1 .. Min({Len(x), Len(y)}) |-> x[k] + y[k]]

\* Faulty variant: the result of fallocate is not checked.
AllocatedOrNot(fs, f, length) ==
  LET done == fallocate(fs.layout, f, length) IN IF done = {} THEN {fs.layout} ELSE done
Allocated(fs, f, length) == fallocate(fs.layout, f, length)

passthru_heaan(p, job) ==
  /\ Start(p, job) /\ job.op = "HEAAN_ADD"
  /\ LET fs0 == LayoutSynced(FS, job.in0)
         input_0 == get_file_layout(fs0, job.in0)
         fs1 == LayoutSynced(fs0, job.in1)
         input_1 == get_file_layout(fs1, job.in1)
         allocations == Allocated(fs1, job.out, total_length(input_0))
     IN \/ /\ allocations = {} /\ Apply(fs1)
           /\ cmd' = [cmd EXCEPT ![p].st = "done", ![p].sc = "not sent"]
        \/ \E lay \in allocations :
             LET fs2 == LayoutSynced([fs1 EXCEPT !.layout = lay], job.out)
                 target == get_file_layout(fs2, job.out)
             IN /\ Apply(fs2)
                /\ cmd' = [cmd EXCEPT ![p].st = "sent", ![p].job = job,
                     ![p].cdw = <<Len(input_0), Len(input_1), Len(target)>>,
                     ![p].data = DataBuffer(Packed(input_0) \o Packed(input_1) \o Packed(target)),
                     ![p].want = Sum(want[job.in0], want[job.in1])]
  /\ UNCHANGED <<dev, want>>

(***************************************************************************)
(* passthru for GREP (0xd1): each extent overwrites the one before it in   *)
(* the command, cut to 32 bits; the keyword file is the data.              *)
(***************************************************************************)
passthru_grep(p, job) ==
  /\ Start(p, job) /\ job.op = "GREP"
  /\ LET fs == LayoutSynced(FS, job.in0)
         ext == get_file_layout(fs, job.in0)
     IN /\ Apply(fs)
        /\ cmd' = [cmd EXCEPT ![p].st = "sent", ![p].job = job, ![p].data = job.key,
             ![p].want = want[job.in0],
             ![p].cdw = IF ext = <<>> THEN <<0, 0>>
                        ELSE <<Last(ext).physical % CdwModulus, Last(ext).length % CdwModulus>>]
  /\ UNCHANGED <<dev, want>>

(***************************************************************************)
(* Other users of the host: a program rewrites a file no command is using, *)
(* and the kernel writes dirty pages back whenever it likes (external).    *)
(***************************************************************************)
Fresh == 4
HostWrite(f) ==
  /\ layout[f] # <<>> /\ \A p \in Procs : Running(p) => f \notin FilesOf(cmd[p].job)
  /\ LET bytes == [k \in 1 .. Size(layout[f]) |-> Fresh]
     IN dirty' = [dirty EXCEPT ![f] = bytes] /\ want' = [want EXCEPT ![f] = bytes]
  /\ UNCHANGED <<dev, disk, layout, cmd>>
WriteBack(f) ==
  dirty[f] # <<>> /\ Apply(fsync(FS, f)) /\ UNCHANGED <<dev, cmd, want>>

(***************************************************************************)
(* HEAAN_ADD on the target.  The handler reads back as many words as the   *)
(* counts in the command say; past the data received it reads whatever the *)
(* transport's buffer holds (junk).                                        *)
(***************************************************************************)
Junk == {b * dev.bs : b \in 0 .. NumBlocks}
Word(data, n, junk) == IF n <= Len(data) THEN data[n] ELSE junk
Unpacked(data, from, count, junk) ==
  [n \in 1 .. count |-> [off |-> Word(data, from + 2 * n - 1, junk),
                         len |-> Word(data, from + 2 * n, junk)]]
\* (The wrap-around of the 64-bit sum is modelled in CtrlrBdev.)
lba_in_range(start, count) == start + count <= NumBlocks
InRange(ext) ==
  \A n \in DOMAIN ext : lba_in_range(ext[n].off \div dev.bs, ext[n].len \div dev.bs)
BytesBefore(ext, n) == FoldLeft(LAMBDA sum, e : sum + e.len, 0, SubSeq(ext, 1, n - 1))
Zeroes(n) == [k \in 1 .. n |-> 0]

Done(c, sc) ==
  [c EXCEPT !.st = "done", !.sc = sc, !.cdw = <<>>, !.data = <<>>, !.target_ext = <<>>]

\* One I/O for each extent; at is its place in the buffer.
Ios(buf, ext) ==
  {[buf |-> buf, at |-> BytesBefore(ext, n), off |-> ext[n].off, len |-> ext[n].len] :
     n \in DOMAIN ext}

PendingFills(n0, n1) == n0 + n1

nvmf_bdev_ctrlr_custom_heaan_cipadd_cmd(p) ==
  /\ cmd[p].st = "sent" /\ cmd[p].job.op = "HEAAN_ADD"
  /\ \E junk \in IF 3 + 2 * FoldLeft(+, 0, cmd[p].cdw) > BufWords THEN Junk ELSE {0} :
       LET n == cmd[p].cdw
           ext0 == Unpacked(cmd[p].data, 1, n[1], junk)
           ext1 == Unpacked(cmd[p].data, 2 + 2 * n[1], n[2], junk)
           target_ext == Unpacked(cmd[p].data, 3 + 2 * n[1] + 2 * n[2], n[3], junk)
       IN IF InRange(ext0) /\ InRange(ext1) /\ InRange(target_ext)
          THEN cmd' = [cmd EXCEPT ![p].st = "fill", ![p].io = Ios(1, ext0) \cup Ios(2, ext1),
                        ![p].pending = PendingFills(n[1], n[2]), ![p].target_ext = target_ext,
                        ![p].in = <<Zeroes(BytesBefore(ext0, n[1] + 1)),
                                    Zeroes(BytesBefore(ext1, n[2] + 1))>>]
          ELSE cmd' = [cmd EXCEPT ![p] = Done(cmd[p], "LBA_OUT_OF_RANGE")]
  /\ UNCHANGED <<dev, disk, layout, dirty, want>>

(***************************************************************************)
(* Completions, in any order.  The last fill adds the two ciphertexts into *)
(* the zeroed target buffer and submits the writes; the last write         *)
(* completes the command.                                                  *)
(***************************************************************************)
CopyIn(buffer, io) ==
  [k \in DOMAIN buffer |->
     IF io.at < k /\ k <= io.at + io.len THEN disk[io.off + k - io.at - 1] ELSE buffer[k]]
CopyOut(buffer, io) ==
  [o \in DOMAIN disk |->
     IF io.off <= o /\ o < io.off + io.len THEN buffer[io.at + o - io.off + 1] ELSE disk[o]]
Padded(bytes, n) == [k \in 1 .. n |-> IF k <= Len(bytes) THEN bytes[k] ELSE 0]

nvmf_heaan_buffer_fill_complete(p, io) ==
  /\ cmd[p].st = "fill" /\ cmd[p].job.op = "HEAAN_ADD" /\ io \in cmd[p].io
  /\ LET c == [cmd[p] EXCEPT !.in[io.buf] = CopyIn(@, io), !.io = @ \ {io}, !.pending = @ - 1]
         n == Len(c.target_ext)
         sum == Padded(Sum(c.in[1], c.in[2]), BytesBefore(c.target_ext, n + 1))
     IN cmd' = [cmd EXCEPT ![p] =
          IF c.pending > 0 THEN c
          ELSE [c EXCEPT !.st = "write", !.pending = n, !.io = @ \cup Ios(0, c.target_ext),
                         !.out = sum, !.in = NoCmd.in]]
  /\ UNCHANGED <<dev, disk, layout, dirty, want>>

nvmf_heaan_cip_write_complete(p, io) ==
  /\ cmd[p].st = "write" /\ io \in cmd[p].io /\ io.buf = 0
  /\ disk' = CopyOut(cmd[p].out, io)
  /\ LET c == [cmd[p] EXCEPT !.io = @ \ {io}, !.pending = @ - 1]
         last == c.pending = 0
     IN /\ cmd' = [cmd EXCEPT ![p] = IF last THEN Done([c EXCEPT !.out = <<>>, !.want = <<>>], "ok") ELSE c]
        /\ want' = IF last
                   THEN [want EXCEPT ![c.job.out] = Padded(c.want, Size(layout[c.job.out]))]
                   ELSE want
  /\ UNCHANGED <<dev, layout, dirty>>

(***************************************************************************)
(* GREP on the target: the handler saves the keyword, clears the buffer    *)
(* and reads the blocks the command names; the callback searches the whole *)
(* buffer, iovec by iovec, and returns the lines found, or an error if     *)
(* there are none.  (cmd[p].in[1] keeps the buffer searched.)              *)
(***************************************************************************)
nvmf_bdev_ctrlr_custom_grep_cmd(p) ==
  /\ cmd[p].st = "sent" /\ cmd[p].job.op = "GREP"
  /\ cmd' = [cmd EXCEPT ![p] =
       IF lba_in_range(cmd[p].cdw[1], cmd[p].cdw[2]) THEN [cmd[p] EXCEPT !.st = "fill"]
       ELSE Done(cmd[p], "LBA_OUT_OF_RANGE")]
  /\ UNCHANGED <<dev, disk, layout, dirty, want>>

Iovs(buffer) ==
  [n \in 1 .. ((Len(buffer) + dev.iov - 1) \div dev.iov) |->
     SubSeq(buffer, (n - 1) * dev.iov + 1, Min({n * dev.iov, Len(buffer)}))]
Returned(out) == Padded([out EXCEPT ![Len(out)] = NUL], Capacity)

nvmf_bdev_ctrlr_complete_cmd_custom(p) ==
  /\ cmd[p].st = "fill" /\ cmd[p].job.op = "GREP"
  /\ LET read == [at |-> 0, off |-> cmd[p].cdw[1] * dev.bs, len |-> cmd[p].cdw[2] * dev.bs]
         buffer == CopyIn(Zeroes(GrepBuf), read)
         result == Search(Iovs(buffer), Keyword(cmd[p].data), Capacity)
         c == [cmd[p] EXCEPT !.in[1] = buffer, !.over = result.over,
                 !.out = IF result.out = <<>> THEN <<>> ELSE Returned(result.out)]
     IN cmd' = [cmd EXCEPT ![p] =
          Done(c, IF result.out = <<>> THEN "INTERNAL_DEVICE_ERROR" ELSE "ok")]
  /\ UNCHANGED <<dev, disk, layout, dirty, want>>

(***************************************************************************)
(* The specification.  The target handles what it received and the bdev    *)
(* layer completes what it accepted (only HEAAN_ADD's liveness is stated). *)
(* When all commands are done the host goes on using its files.            *)
(***************************************************************************)
Heaan(p) ==
  \/ nvmf_bdev_ctrlr_custom_heaan_cipadd_cmd(p)
  \/ \E io \in cmd[p].io :
       nvmf_heaan_buffer_fill_complete(p, io) \/ nvmf_heaan_cip_write_complete(p, io)
Next ==
  \/ \E p \in Procs, job \in dev.jobs : passthru_heaan(p, job) \/ passthru_grep(p, job)
  \/ \E f \in Files : HostWrite(f) \/ WriteBack(f)
  \/ \E p \in Procs : \/ Heaan(p)
                     \/ nvmf_bdev_ctrlr_custom_grep_cmd(p)
                     \/ nvmf_bdev_ctrlr_complete_cmd_custom(p)
Spec == Init /\ [][Next]_vars /\ \A p \in Procs : WF_vars(Heaan(p))

\* Values have their types: extents are whole blocks of the device, results
\* are complete, and a command holds I/O only while it runs.
TypeOK ==
  /\ \A f \in Files :
       /\ layout[f] \in Seq(Extent) /\ Len(dirty[f]) <= Size(layout[f])
       /\ \A e \in ToSet(layout[f]) :
            /\ e.physical % dev.bs = 0 /\ e.length % dev.bs = 0
            /\ e.physical + e.length <= NumBlocks * dev.bs
  /\ \A o \in DOMAIN disk : disk[o] \in Nat
  /\ \A p \in Procs :
       /\ cmd[p].st \in {"idle", "sent", "fill", "write", "done"} /\ cmd[p].sc \in Status
       /\ cmd[p].pending \in Nat
       /\ cmd[p].st \in {"idle", "sent", "done"} => cmd[p].io = {}

\* Every file holds what its users expect, unless a HEAAN_ADD is writing it:
\* the target file of a completed command holds the sum of what the inputs
\* held for the user, also with an input as target and with unwritten pages
\* at the start (passthru, get_file_layout, the handler and its callbacks);
\* no other file changes, and nothing is written back over a result.
FilesIntact ==
  \A f \in Files :
    (\A p \in Procs : Running(p) => cmd[p].job.out # f) => View(f) = want[f]

Searched(p) == cmd[p].st = "done" /\ cmd[p].job # None /\ cmd[p].job.op = "GREP"
                 /\ cmd[p].sc \in {"ok", "INTERNAL_DEVICE_ERROR"}

\* A GREP returns the lines of the buffer in which the keyword occurs, as far
\* as they fit, and fails exactly if there are none, provided no line crosses
\* from one iovec into the next (nvmf_bdev_ctrlr_complete_cmd_custom).
GrepFindsLines ==
  \A p \in Procs :
    LET text == cmd[p].in[1]
        lines == MatchingLines(text, Keyword(cmd[p].job.key))
    IN (Searched(p) /\ \A n \in 1 .. Len(text) - 1 : n % dev.iov = 0 => text[n] = NL)
         => IF lines = <<>> THEN cmd[p].sc # "ok"
            ELSE cmd[p].sc = "ok" /\ cmd[p].out = Returned(lines)

\* The result of GREP is not written past its buffer, which is doubled at most
\* once for each line, as long as the lines found (or their pieces, where one
\* crosses into another iovec) fit into twice the initial capacity
\* (nvmf_bdev_ctrlr_complete_cmd_custom, result_capacity).
GrepFits ==
  \A p \in Procs :
    LET iovs == Iovs(cmd[p].in[1])
        pieces == FlattenSeq([n \in DOMAIN iovs |->
                               MatchingLines(iovs[n], Keyword(cmd[p].job.key))])
    IN (Searched(p) /\ Len(pieces) <= 2 * Capacity) => ~cmd[p].over

HeaanSent(p) == cmd[p].st = "sent" /\ cmd[p].job.op = "HEAAN_ADD"

\* A HEAAN_ADD that was sent is completed: it has an extent to read and one to
\* write because the host allocates the target file, as large as the first
\* input, before it sends (passthru, pending_fills).
CommandEnds == \A p \in Procs : HeaanSent(p) ~> cmd[p].st = "done"

\* The documents say that the file is turned into its logical block addresses,
\* which are put into the command: a GREP that succeeds searched the file.
GrepSearchesFile ==
  \A p \in Procs :
    (Searched(p) /\ cmd[p].sc = "ok")
      => cmd[p].in[1] = Padded(cmd[p].want, GrepBuf)
=============================================================================
