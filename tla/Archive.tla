------------------------------ MODULE Archive ------------------------------
(***************************************************************************)
(* nad bin and nad unbin, bin/nad/megatron.c, macbin.c and nad_adouble.c:  *)
(* the files of one command line are converted one after the other between *)
(* MacBinary archives and files with Mac metadata.                         *)
(*                                                                         *)
(* A file with metadata is [name, fin, data, rsrc], an archive is its      *)
(* header and the bytes behind it.  Blocks and the fork buffer are a few   *)
(* bytes long.  The header keeps of its 128 bytes the ones test_header     *)
(* and the reader look at; dates, comments and locations are left out.     *)
(* nad hex and nad unhex share the loop; the format of their archives is   *)
(* the second part.                                                        *)
(***************************************************************************)
EXTENDS Integers, Sequences, SequencesExt, Bitwise

CONSTANTS ArBlock,    \* HEADBUFSIZ: a fork begins at a multiple of it
          ArBuffer,   \* sizeof(forkbuf)
          ArNameMax,  \* MACBIN_NAMELEN
          ArConfigs   \* [mode, here, force, name, stdout, header, files,
                      \* fails, late]:
                      \* bin or unbin; whether the current directory is in a
                      \* volume; the options; the inputs; how many calls fail,
                      \* and whether creating the metadata may

VARIABLE ar
arVars == <<ar>>

Forks == <<"data", "rsrc">>
NoForks == [data |-> <<>>, rsrc |-> <<>>]
Zero == [data |-> 0, rsrc |-> 0]
NoFin == [tc |-> 0, hi |-> 0, lo |-> 0, x |-> 0]
Fill == 127

(***************************************************************************)
(* MacBinary headers.  crc is 1 when the checksum fits; the bytes 101 to   *)
(* 125 are lo, magic, x and the checksum.                                  *)
(***************************************************************************)
macbin_fdflags_from_header(h, revision) ==
    IF revision < 2 THEN 0 ELSE IF h.lo # 0 THEN h.lo ELSE h.b74

test_header(h) ==
    IF h.magic = 1 THEN 3
    ELSE IF (h.b0 = 0 \/ h.b74 = 0) /\ h.crc = 1 THEN 2
    ELSE IF h.b82 # 0 \/ Len(h.name) \notin 1..ArNameMax \/ h.lo # 0 \/ h.x # 0 \/ h.crc = 1
    THEN -1
    ELSE 1

bin_header_read(h, revision) ==
    [name |-> h.name, len |-> h.len,
     fin |-> [tc |-> h.tc, hi |-> h.hi, lo |-> macbin_fdflags_from_header(h, revision),
              x |-> IF revision = 3 THEN h.x ELSE 0]]

bin_header_write(fh) ==
    [b0 |-> 0, name |-> fh.name, tc |-> fh.fin.tc, hi |-> fh.fin.hi, b74 |-> fh.fin.lo,
     b82 |-> 0, len |-> fh.len, lo |-> fh.fin.lo, magic |-> 1, x |-> fh.fin.x, crc |-> 1]

(***************************************************************************)
(* The forks.  io.left counts what the header promised and the forks still *)
(* lack, io.pos the bytes of an archive that were read.                    *)
(***************************************************************************)
Padding(pos) == (ArBlock - (pos % ArBlock)) % ArBlock

\* Mutant: a fork that ends on a block is followed by a block of padding.
macbin_skip_padding_block(io, src) ==
    [io EXCEPT !.pos = @ + ArBlock - (@ % ArBlock), !.rc = 0]

\* On a pipe the padding has to be there.
macbin_skip_padding(io, src) ==
    LET to == io.pos + Padding(io.pos)
    IN  IF src.pipe = 1 /\ to > Len(src.body) THEN [io EXCEPT !.rc = -1]
        ELSE [io EXCEPT !.pos = to, !.rc = 0]

Least(a, b) == IF a < b THEN a ELSE b
Part(s, from, n) == SubSeq(s, from + 1, Least(from + n, Len(s)))

bin_read(io, src, f) ==
    LET got == Part(src.body, io.pos, Least(io.left[f], ArBuffer))
    IN  IF io.left[f] = 0
        THEN IF f = "data" THEN macbin_skip_padding(io, src) ELSE [io EXCEPT !.rc = 0]
        ELSE [io EXCEPT !.buf = got, !.rc = Len(got), !.pos = @ + Len(got),
                        !.left[f] = @ - Len(got)]

nad_read(io, src, f) ==
    LET got == Part(src[f], io.off[f], ArBuffer)
    IN  [io EXCEPT !.buf = got, !.rc = Len(got), !.off[f] = @ + Len(got)]

from_read(mode, io, src, f) ==
    IF mode = "bin" THEN nad_read(io, src, f) ELSE bin_read(io, src, f)

macbin_write_padding(body) == body \o [i \in 1..Padding(Len(body)) |-> Fill]

bin_write(io, out, f) ==
    LET left == io.left[f] - Len(io.buf)
        body == out.body \o io.buf
    IN  IF (f = "rsrc" /\ io.left.data # 0) \/ left < 0 THEN [io |-> io, out |-> out, rc |-> -1]
        ELSE [io |-> [io EXCEPT !.left[f] = left], rc |-> Len(io.buf),
              out |-> [out EXCEPT !.body = IF left = 0 THEN macbin_write_padding(body)
                                           ELSE body]]

nad_write(io, out, f) ==
    [io |-> io, out |-> [out EXCEPT ![f] = @ \o io.buf], rc |-> Len(io.buf)]

to_write(mode, io, out, f) ==
    IF mode = "bin" THEN bin_write(io, out, f) ELSE nad_write(io, out, f)

(***************************************************************************)
(* The conversion of one file.  ar.to is the output while it is open, and  *)
(* ar.left holds, by file, what the command left in the directory.         *)
(***************************************************************************)
File(s) == s.cf.files[s.i]
Absent == [there |-> 0]
NewIo(len) == [left |-> len, off |-> Zero, pos |-> 0, buf |-> <<>>, rc |-> 0]

mode_writes_metadata(s) == s.cf.mode = "unbin"
mode_creates_volume_file(s) == s.cf.header = 0 /\ (s.cf.mode = "unbin" \/ s.cf.stdout = 0)

\* The outcomes of a call that may fail.
Either(s, good, bad) == {good} \cup (IF s.fails > 0 THEN {[bad EXCEPT !.fails = @ - 1]} ELSE {})

NextFile(s, rc) ==
    [s EXCEPT !.phase = "file", !.i = @ + 1, !.rcs = Append(@, rc), !.newname = 0]

\* The volume of the input, or of the current directory for an output there,
\* and its CNID database.  A file that fails here does not use up --filename.
resolve_metadata_volume(s) ==
    LET inside == IF mode_writes_metadata(s) THEN s.cf.here ELSE File(s).vol
        refused == [NextFile(s, -1) EXCEPT !.newname = s.newname]
        on(cnid) == [s EXCEPT !.phase = "from", !.cnid = cnid]
    IN  IF inside = 0 THEN IF s.cf.force = 0 THEN {refused} ELSE {on(0)}
        ELSE IF ~mode_creates_volume_file(s) THEN {on(0)}
        ELSE IF s.cf.here = 0 THEN IF s.cf.force = 0 THEN {refused} ELSE {on(0)}
        ELSE Either(s, on(1), refused)

\* The header of an input with Mac metadata.
nad_header_read(src) == [name |-> src.name, fin |-> src.fin, len |-> src.len]
nad_header_write(out, fh) == [out EXCEPT !.fin = fh.fin]

nad_open_read(src) == {nad_header_read(src)}

\* bin_open for input: the revision decides which bytes of the header count.
bin_open_read(src) ==
    LET rev == test_header(src.head)
    IN  IF rev < 0 THEN {} ELSE {bin_header_read(src.head, rev)}

from_open(s) ==
    LET src == File(s)
        fhs == IF s.cf.mode = "bin" THEN nad_open_read(src) ELSE bin_open_read(src)
        on(fh) == IF s.cf.header = 1 THEN NextFile(s, 0) ELSE [s EXCEPT !.phase = "to", !.fh = fh]
        bad == NextFile(s, -1)
    IN  IF src.dir = 1 THEN {NextFile(s, 0)}
        ELSE IF fhs = {} THEN {bad}
        ELSE UNION {Either(s, on(fh), bad) : fh \in fhs}

Named(s) == IF s.newname = 1 THEN s.cf.name ELSE s.fh.name

\* A file that exists is never opened (O_EXCL).  A header that cannot be
\* written deletes the new archive again.
bin_open_write(s, fh, out(_), bad) ==
    IF (File(s).exists = 1 /\ s.cf.stdout = 0) \/ Len(fh.name) > ArNameMax THEN {bad}
    ELSE Either(s, out([there |-> 1, head |-> bin_header_write(fh), body |-> <<>>]), bad)

\* nad_open for output creates the data fork first.  Creating the metadata
\* file or setting the modes may fail after that.
nad_open_write(s, fh, out(_), bad) ==
    LET new == [there |-> 1, name |-> fh.name, fin |-> NoFin, data |-> <<>>, rsrc |-> <<>>,
                id |-> 0]
    IN  IF File(s).exists = 1 THEN {bad}
        ELSE Either(s, out(nad_header_write(new, fh)), bad)
             \cup (IF s.cf.late = 1 THEN {[bad EXCEPT !.left[s.i] = new]} ELSE {})

to_open(s) ==
    LET fh == [s.fh EXCEPT !.name = Named(s)]
        out(to) == [s EXCEPT !.phase = "move", !.fh = fh, !.f = 1, !.red = 0, !.to = to,
                             !.io = NewIo(fh.len)]
        bad == NextFile(s, -1)
    IN  IF s.cf.mode = "bin" THEN bin_open_write(s, fh, out, bad)
        ELSE nad_open_write(s, fh, out, bad)

\* TRASH deletes the output; standard output keeps what was written.
Trash(s) == [NextFile(s, -1) EXCEPT !.to = Absent]

\* One turn of the loop over the forks: a buffer is moved, or the fork ends
\* and its length is compared with the header.
Move(s) ==
    LET f == Forks[s.f]
        io == from_read(s.cf.mode, s.io, File(s), f)
        w == to_write(s.cf.mode, io, s.to, f)
        moved == IF w.rc < 0 THEN Trash(s)
                 ELSE [s EXCEPT !.io = w.io, !.to = w.out, !.red = @ + Len(io.buf)]
        ended == IF io.rc < 0 \/ s.red # s.fh.len[f] THEN Trash(s)
                 ELSE [s EXCEPT !.io = io, !.red = 0, !.f = @ + 1,
                                !.phase = IF s.f = 2 THEN "keep" ELSE @]
    IN  Either(s, IF io.rc > 0 THEN moved ELSE ended, Trash(s))

\* The metadata is flushed, then the file gets its CNID; both failures leave
\* the file.
nad_close(s) ==
    LET kept(id) == [s EXCEPT !.left[s.i] = [s.to EXCEPT !.id = id], !.to = Absent]
    IN  Either(s, NextFile(kept(s.cnid), 0), NextFile(kept(0), -1))

bin_close(s) == Either(s, [s EXCEPT !.phase = "cnid"], Trash(s))

update_created_file_cnid(s) ==
    LET kept == [s EXCEPT !.left[s.i] = IF s.cf.stdout = 1 THEN Absent ELSE s.to, !.to = Absent,
                          !.piped = IF s.cf.stdout = 1 THEN s.to ELSE @]
    IN  IF s.cf.stdout = 1 \/ s.cnid = 0 THEN {NextFile(kept, 0)}
        ELSE Either(s, [NextFile(kept, 0) EXCEPT !.ids = @ \cup {s.i}], NextFile(kept, -1))

nad_archive_convert(s) ==
    CASE s.phase = "file" -> resolve_metadata_volume(s)
      [] s.phase = "from" -> from_open(s)
      [] s.phase = "to" -> to_open(s)
      [] s.phase = "move" -> Move(s)
      [] s.phase = "keep" -> IF mode_writes_metadata(s) THEN nad_close(s) ELSE bin_close(s)
      [] s.phase = "cnid" -> update_created_file_cnid(s)

NoFh == [name |-> <<>>, fin |-> NoFin, len |-> Zero]

ArInit ==
    \E cf \in ArConfigs :
        ar = [cf |-> cf, i |-> 1, phase |-> "file", newname |-> IF cf.name = <<>> THEN 0 ELSE 1,
              cnid |-> 0, fh |-> NoFh, f |-> 1, red |-> 0, io |-> NewIo(Zero), to |-> Absent,
              left |-> [i \in 1..Len(cf.files) |-> Absent], piped |-> Absent, ids |-> {},
              rcs |-> <<>>, fails |-> cf.fails]

\* nad_archive goes through the files of the command line.
ArNext ==
    /\ ar.i <= Len(ar.cf.files)
    /\ ar' \in nad_archive_convert(ar)

ArSpec == ArInit /\ [][ArNext]_arVars

(***************************************************************************)
(* Properties.                                                             *)
(***************************************************************************)
\* The forks the MacBinary format puts behind a header.
Unpacked(h, body) ==
    [data |-> SubSeq(body, 1, h.len.data),
     rsrc |-> SubSeq(body, h.len.data + Padding(h.len.data) + 1,
                     h.len.data + Padding(h.len.data) + h.len.rsrc)]

HoldsInput(i, out) ==
    LET src == ar.cf.files[i]
    IN  IF ar.cf.mode = "bin"
        THEN /\ Unpacked(out.head, out.body) = [data |-> src.data, rsrc |-> src.rsrc]
             /\ bin_header_read(out.head, test_header(out.head)).fin = src.fin
             /\ Len(out.body) % ArBlock = 0
        ELSE /\ [data |-> out.data, rsrc |-> out.rsrc] = Unpacked(src.head, src.body)
             /\ Len(out.data) = src.head.len.data /\ Len(out.rsrc) = src.head.len.rsrc
             /\ out.fin = src.fin

\* An input the conversion has no reason to refuse, in a volume.
Sound(src) ==
    /\ src.exists = 0 /\ ar.cf.here = 1
    /\ IF ar.cf.mode = "bin"
       THEN src.vol = 1 /\ src.len = [data |-> Len(src.data), rsrc |-> Len(src.rsrc)]
            /\ Len(src.name) <= ArNameMax
       ELSE test_header(src.head) > 0
            /\ Len(src.body) >= src.head.len.data + Padding(src.head.len.data) + src.head.len.rsrc

\* Whatever fails on the way, every file that nad bin or nad unbin leaves in
\* the directory holds both forks and the Finder information of its input
\* in whole, nothing is left where a file was before, a conversion that
\* reports success has left its file, with a CNID in a volume, and one of a
\* sound input in which no call fails is a success
\* (nad_archive_convert, bin_read, bin_write, nad_close).
ArchiveWhole ==
    \A i \in 1..Len(ar.rcs) :
        LET out == ar.left[i]
        IN  /\ Sound(ar.cf.files[i]) /\ ar.fails = ar.cf.fails /\ ar.cf.name = <<>> => ar.rcs[i] = 0
            /\ out.there = 1 => HoldsInput(i, out) /\ ar.cf.files[i].exists = 0
            /\ ar.rcs[i] = 0 /\ ar.cf.stdout = 0 /\ ar.cf.header = 0 /\ ar.cf.files[i].dir = 0
               => out.there = 1 /\ (ar.cf.here = 1 /\ (ar.cf.mode = "unbin" \/ ar.cf.files[i].vol = 1)
                                    => IF ar.cf.mode = "unbin" THEN out.id = 1 ELSE i \in ar.ids)

-----------------------------------------------------------------------------
(***************************************************************************)
(* The BinHex 4.0 archives of nad hex and nad unhex, bin/nad/hqx.c: the    *)
(* encoder, which turns the header, two forks and their checksums into     *)
(* lines of text, and the decoder, which finds the text again after any    *)
(* junk and through reads of any size.                                     *)
(*                                                                         *)
(* Bytes and characters are numbers.  The lengths of a line, of the buffer *)
(* of the decoder and of the type and creator field are constants, so that *)
(* lines end and reads fall short at every place of a small archive.       *)
(* hx.d is the decoder, whose static variables survive                     *)
(* from one archive of a run to the next.                                  *)
(***************************************************************************)
CONSTANTS HqxLine,      \* characters of a line (63)
          HqxShortest,  \* a line of at most so many is junk (30)
          HqxBuffer,    \* sizeof(hqx7_buf) (8192)
          HqxTc,        \* BHH_TCSIZ, the type and the creator (8)
          HqxName,      \* the longest name, in bytes (63)
          HqxConfigs    \* [files, chunk, read]: the files of one run, each with
                        \* its name, tc, flags, data and resource forks, and
                        \* what the transfer does to its archive: the text it
                        \* puts before, its line ends and the characters it
                        \* leaves, -1 for all; the bytes a fork buffer and one
                        \* read of the input hold

VARIABLE hx
hxVars == <<hx>>

RUNCHAR == 144
NoLengths == [f \in {"data", "rsrc"} |-> 0]

\* The exclusive or of two bytes, and of two words.
XorByte(a, b) ==
    LET w(k) == 2 ^ k * ((a \div 2 ^ k + b \div 2 ^ k) % 2)
    IN  w(0) + w(1) + w(2) + w(3) + w(4) + w(5) + w(6) + w(7)
XorWord(a, b) == 256 * XorByte(a \div 256, b \div 256) + XorByte(a % 256, b % 256)

\* The polynomial 0x1021 over the eight bits of a byte, the high bit first.
CrcBit(v) == IF v >= 32768 THEN XorWord((v * 2) % 65536, 4129) ELSE v * 2
CrcByte ==
    [b \in 0..255 |-> LET bit[k \in 0..8] == IF k = 0 THEN b * 256 ELSE CrcBit(bit[k - 1])
                      IN  bit[8]]
crc16_xmodem_update(crc, bytes) ==
    LET next[c \in 0..65535, b \in 0..255] ==
            XorWord((c % 256) * 256, CrcByte[XorByte(c \div 256, b)])
        upto[i \in 0..Len(bytes)] ==
            IF i = 0 THEN crc ELSE next[upto[i - 1], bytes[i]]
    IN  upto[Len(bytes)]

Short(n) == <<n \div 256, n % 256>>
Long(n) == <<(n \div 16777216) % 256, (n \div 65536) % 256, (n \div 256) % 256, n % 256>>
FromBytes(s) == FoldLeft(LAMBDA n, b : 256 * n + b, 0, s)

\* A length above 0x7fffffff is never used: it stands for all of them.
TooLong == -1
Length(s) == IF s[1] >= 128 THEN TooLong ELSE FromBytes(s)

\* The Finder flags an archive carries, the mask 0xfcee.
Masked(flags) == <<flags[1] & 252, flags[2] & 238>>

(***************************************************************************)
(* The text.  hqxchars holds the characters of the values 0 to 63.         *)
(***************************************************************************)
hqxchars == <<33, 34, 35, 36, 37, 38, 39, 40, 41, 42, 43, 44, 45, 48, 49, 50, 51, 52,
              53, 54, 56, 57, 64, 65, 66, 67, 68, 69, 70, 71, 72, 73, 74, 75, 76, 77,
              78, 80, 81, 82, 83, 84, 85, 86, 88, 89, 90, 91, 96, 97, 98, 99, 100, 101,
              102, 104, 105, 106, 107, 108, 109, 112, 113, 114>>
Colon == 58
Newline == 10
hqx_preamble == <<40, 84, 32, 41, Newline, Newline, Colon>>

\* Above 63 a class: 255 illegal, 254 the end of a line, 253 the colon, 252 blank.
hqxlookup == [c \in 0..127 |->
                 IF c \in {10, 13} THEN 254
                 ELSE IF c \in {9, 32} THEN 252
                 ELSE IF c = Colon THEN 253
                 ELSE IF \E i \in 1..64 : hqxchars[i] = c
                 THEN (CHOOSE i \in 1..64 : hqxchars[i] = c) - 1
                 ELSE 255]

(***************************************************************************)
(* The encoder.                                                            *)
(***************************************************************************)
\* A literal RUNCHAR is followed by a zero; the encoder makes no runs.
hqx_emit_byte(b) == IF b = RUNCHAR THEN <<b, 0>> ELSE <<b>>

hqx_emit_data(e, bytes) ==
    [e EXCEPT !.out = @ \o FlattenSeq([i \in 1..Len(bytes) |-> hqx_emit_byte(bytes[i])])]

\* The values of six bits that a group of three bytes makes.
hqx_emit_6bit(s) ==
    <<s[1] \div 4, (s[1] * 16 + s[2] \div 16) % 64, (s[2] * 4 + s[3] \div 64) % 64,
      s[3] % 64>>

\* All values: the whole groups, then one value more than the bytes left over.
hqx_flush_6bit(out) ==
    LET s == out \o <<0, 0>>
        groups == [k \in 1..((Len(out) + 2) \div 3) |->
                       hqx_emit_6bit(SubSeq(s, 3 * k - 2, 3 * k))]
    IN  SubSeq(FlattenSeq(groups), 1, (Len(out) * 8 + 5) \div 6)

\* Character p of the lines that hold the values v: a line end goes before the
\* character that finds its line full.
hqx_put_char(v, p) ==
    IF p % (HqxLine + 1) = 0 THEN Newline ELSE hqxchars[v[p - p \div (HqxLine + 1)] + 1]

\* The checksum of a fork that is whole, once.
hqx_finish_fork(e, f) ==
    IF e.forkdone[f] = 1 THEN e
    ELSE IF e.forklen[f] # 0 THEN [e EXCEPT !.rc = -1]
    ELSE [hqx_emit_data(e, Short(e.forkcrc[f])) EXCEPT !.forkdone[f] = 1]

hqx_header_write(e, fh) ==
    LET head == <<Len(fh.name)>> \o fh.name \o <<0>> \o fh.tc \o Masked(fh.flags)
                \o Long(Len(fh.data)) \o Long(Len(fh.rsrc))
    IN  IF Len(fh.name) > HqxName THEN [e EXCEPT !.rc = -1]
        ELSE hqx_emit_data(e, head \o Short(crc16_xmodem_update(0, head)))

hqx_open_write(fh) ==
    hqx_header_write([out |-> <<>>, rc |-> 0, forkcrc |-> NoLengths, forkdone |-> NoLengths,
                      forklen |-> [data |-> Len(fh.data), rsrc |-> Len(fh.rsrc)]], fh)

ForkWritten(e, f) == IF e.forklen[f] = 0 THEN hqx_finish_fork(e, f) ELSE e
hqx_write_fork(e, f, bytes) ==
    IF e.rc # 0 THEN e
    ELSE IF e.forkdone[f] = 1 \/ Len(bytes) > e.forklen[f] THEN [e EXCEPT !.rc = -1]
    ELSE ForkWritten([hqx_emit_data(e, bytes) EXCEPT !.forklen[f] = @ - Len(bytes),
                          !.forkcrc[f] = crc16_xmodem_update(@, bytes)], f)
hqx_write(e, f, bytes) ==
    hqx_write_fork(IF f = "rsrc" THEN hqx_finish_fork(e, "data") ELSE e, f, bytes)

\* The text of the whole archive.
hqx_text(v) ==
    hqx_preamble \o [p \in 1..(Len(v) + (Len(v) - 1) \div HqxLine) |-> hqx_put_char(v, p)]
                 \o <<Colon, Newline>>
hqx_close_write(e) ==
    hqx_text(hqx_flush_6bit(hqx_finish_fork(hqx_finish_fork(e, "data"), "rsrc").out))

(***************************************************************************)
(* The input of the decoder.  d.rem holds what lies between hqx7_first and *)
(* hqx7_last, d.in what the descriptor has not delivered.                  *)
(***************************************************************************)
\* Read behind the first kept characters of the buffer.
hqx7_read(d, kept, n) ==
    [d EXCEPT !.rem = kept \o SubSeq(d.in, 1, n), !.in = SubSeq(@, n + 1, Len(@)), !.cc = n]
hqx7_fill(d, kept) ==
    IF Len(kept) >= HqxBuffer THEN [d EXCEPT !.cc = -1]
    ELSE hqx7_read(d, kept, Min({d.read, HqxBuffer - Len(kept), Len(d.in)}))

Class(s, i) == hqxlookup[s[i]]

\* How many characters from place i on are of the classes k.
RunOf(s, i, k) == Min({Len(s) + 1} \cup {j \in i..Len(s) : Class(s, j) \notin k}) - i

Legal == 0..63
Blank == {252, 254}

\* The scan of the line behind a colon or a line end: nc characters, ended by
\* one of class c.  Blanks before the text of a later line count.
ScanEnd(s, nc) ==
    [nc |-> nc,
     c |-> IF nc < Len(s) THEN Class(s, nc + 1) ELSE IF nc = 0 THEN 0 ELSE Class(s, nc)]
ScanBehind(s, blanks) == ScanEnd(s, blanks + RunOf(s, blanks + 1, Legal))
Scan(line, s) == ScanBehind(s, IF line = "first" THEN 0 ELSE RunOf(s, 1, Blank))

Found_long(line, sc) ==
    sc.nc > HqxShortest /\ sc.nc < HqxLine + 1 /\ sc.c \in {253, 254}
Found(line, sc) ==
    IF line = "first" THEN sc.nc > HqxShortest /\ sc.nc < HqxLine + 1 /\ sc.c \in {253, 254}
    ELSE sc.c = 253 \/ (sc.nc > HqxShortest /\ sc.c = 254)

\* Move to the next line that looks like BinHex, reading on as needed; nc is
\* the length of the line scanned last.
RECURSIVE SkipFrom(_, _, _)
SkipOn(d, line, nc, found) ==
    IF found THEN [d EXCEPT !.cc = 1] ELSE SkipFrom(d, line, nc)
SkipFull(d, line, sc, found) == IF d.cc <= 0 THEN d ELSE SkipOn(d, line, sc.nc + 1, found)
SkipLine(d, s, line, sc, found) ==
    IF Len(s) = sc.nc
    THEN SkipFull(hqx7_fill(d, <<IF line = "first" THEN Colon ELSE Newline>> \o s), line, sc, found)
    ELSE SkipOn([d EXCEPT !.rem = s], line, sc.nc, found)
SkipScanned(d, s, line, sc) == SkipLine(d, s, line, sc, Found(line, sc))
SkipFrom(d, line, nc) ==
    IF IF line = "first" THEN d.rem[1] = Colon ELSE Class(d.rem, 1) = 254
    THEN SkipScanned(d, Tail(d.rem), line, Scan(line, Tail(d.rem)))
    ELSE SkipLine(d, Tail(d.rem), line, [nc |-> nc, c |-> 0], FALSE)

\* d.cc is not positive when the input ended first.
SkipRead(d) == IF d.cc <= 0 THEN d ELSE SkipFrom(d, "first", 0)
skip_junk(d, line) ==
    IF line = "first" THEN SkipRead(hqx7_fill(d, <<>>)) ELSE SkipFrom(d, line, 0)

(***************************************************************************)
(* The decoder.  d.hqx8 holds the bytes of the group read last that are    *)
(* not looked at yet.                                                      *)
(***************************************************************************)
Padded(h7) == SubSeq(h7 \o <<0, 0, 0, 0>>, 1, 4)
Ended(d, h7) == [d |-> [d EXCEPT !.eofflag = 1], h7 |-> Padded(h7)]

\* Characters until a group of four is whole or the buffer is empty.
RECURSIVE Sextets(_, _)
SextetsLegal(d, h7, n) ==
    Sextets([d EXCEPT !.rem = SubSeq(@, n + 1, Len(@)), !.prev_hqx7 = Class(d.rem, n)],
            h7 \o [i \in 1..n |-> Class(d.rem, i)])
SextetsLine(d, junk, h7) == IF junk.cc > 0 THEN Sextets(junk, h7) ELSE Ended(d, h7)
SextetsAt(d, h7, c) ==
    IF c \in Legal THEN SextetsLegal(d, h7, Min({4 - Len(h7), RunOf(d.rem, 1, Legal)}))
    ELSE IF c = 252 /\ d.prev_hqx7 \in Blank THEN Sextets([d EXCEPT !.rem = Tail(@)], h7)
    ELSE IF c = 254 THEN SextetsLine(d, skip_junk([d EXCEPT !.prev_hqx7 = c], "other"), h7)
    ELSE Ended(d, h7)
Sextets(d, h7) ==
    IF Len(h7) = 4 \/ d.rem = <<>> THEN [d |-> d, h7 |-> h7]
    ELSE SextetsAt(d, h7, Class(d.rem, 1))

Group(h7) ==
    <<(h7[1] * 4 + h7[2] \div 16) % 256, (h7[2] * 16 + h7[3] \div 4) % 256,
      (h7[3] * 64 + h7[4]) % 256>>

\* The bytes of a group, runs expanded, while there is room for n in all.
RECURSIVE Bytes(_, _)
ByteRun(d, b, copies) ==
    [d EXCEPT !.out = @ \o (IF b = 0 THEN <<RUNCHAR>> ELSE <<>>) \o [i \in 1..copies |-> d.prev_out],
              !.prev_out = IF b = 0 THEN RUNCHAR ELSE @,
              !.prev_hqx8 = IF b - copies < 2 THEN b - copies ELSE @,
              !.hqx8 = IF b - copies < 2 THEN Tail(@) ELSE <<b - copies>> \o Tail(@)]
BytePlain(d, b) ==
    [d EXCEPT !.prev_hqx8 = b, !.hqx8 = Tail(@),
              !.prev_out = IF b = RUNCHAR THEN @ ELSE b,
              !.out = IF b = RUNCHAR THEN @ ELSE Append(@, b)]
ByteOf(d, b, n) ==
    IF d.prev_hqx8 = RUNCHAR
    THEN ByteRun(d, b, IF b > 1 THEN Min({b - 1, n - Len(d.out)}) ELSE 0)
    ELSE BytePlain(d, b)
Bytes(d, n) ==
    IF d.hqx8 = <<>> \/ Len(d.out) = n THEN d ELSE Bytes(ByteOf(d, d.hqx8[1], n), n)

RECURSIVE Decode(_, _, _)
DecodeGroup(d, h7, n) ==
    IF Len(h7) = 4 THEN Decode(Bytes([d EXCEPT !.hqx8 = Group(h7)], n), <<>>, n)
    ELSE Decode(Bytes(d, n), h7, n)
DecodeSextets(s, n) == DecodeGroup(s.d, s.h7, n)
DecodeFrom(d, h7, n) ==
    IF d.hqx8 = <<>> THEN DecodeSextets(Sextets(d, h7), n) ELSE Decode(Bytes(d, n), h7, n)
DecodeFilled(d, h7, n) ==
    IF d.cc <= 0 THEN [d EXCEPT !.eofflag = 1] ELSE DecodeFrom(d, h7, n)
Decode(d, h7, n) ==
    IF Len(d.out) = n \/ d.eofflag = 1 THEN d
    ELSE IF d.rem = <<>> THEN DecodeFilled(hqx7_fill(d, <<>>), h7, n)
    ELSE DecodeFrom(d, h7, n)

\* Up to n bytes in d.out.  The first call after an open resets the decoder.
hqx_7tobin(d, n) ==
    LET fresh == [d EXCEPT !.prev_hqx8 = 0, !.prev_hqx7 = 0, !.prev_out = 0, !.hqx8 = <<>>,
                           !.first_flag = 1, !.eofflag = 0]
    IN  Decode([(IF d.first_flag = 0 THEN fresh ELSE d) EXCEPT !.out = <<>>], <<>>, n)

NoHeader == [name |-> <<>>, tc |-> <<>>, flags |-> <<0, 0>>]
NoDecoder == [in |-> <<>>, rem |-> <<>>, read |-> 1, cc |-> 1, out |-> <<>>, hqx8 |-> <<>>,
              prev_hqx8 |-> 0, prev_hqx7 |-> 0, prev_out |-> 0, first_flag |-> 0,
              eofflag |-> 0, forklen |-> NoLengths, forkcrc |-> NoLengths, rc |-> 0,
              fh |-> NoHeader]

HeaderFields(d, h, len, at, size) ==
    [d EXCEPT !.fh = [name |-> SubSeq(h, 1, len), tc |-> SubSeq(h, len + 2, at),
                      flags |-> Masked(SubSeq(h, at + 1, at + 2))],
              !.forklen = [data |-> Length(SubSeq(h, at + 3, at + 6)),
                           rsrc |-> Length(SubSeq(h, at + 7, at + 10))],
              !.forkcrc = NoLengths,
              !.rc = IF FromBytes(SubSeq(h, size - 1, size))
                        = crc16_xmodem_update(0, <<len>> \o SubSeq(h, 1, size - 2))
                     THEN 0 ELSE -1]
HeaderRead(d, len, size) ==
    IF Len(d.out) # size THEN [d EXCEPT !.rc = -1]
    ELSE HeaderFields(d, d.out, len, len + 1 + HqxTc, size)
HeaderSized(d, len, size) == HeaderRead(hqx_7tobin(d, size), len, size)
HeaderNamed(d) ==
    IF Len(d.out) # 1 THEN [d EXCEPT !.rc = -1]
    ELSE HeaderSized(d, d.out[1], d.out[1] + 1 + HqxTc + 2 + 4 + 4 + 2)
hqx_header_read(d) == HeaderNamed(hqx_7tobin(d, 1))

hqx_opened(d) == IF d.cc <= 0 THEN [d EXCEPT !.rc = -1] ELSE hqx_header_read(d)
hqx_open_read(d, text, read) ==
    hqx_opened(skip_junk([d EXCEPT !.first_flag = 0, !.in = text, !.read = read, !.rc = 0], "first"))

\* Up to n bytes of fork f; at its end the stored checksum.  rc is the number
\* of bytes, 0 for a whole fork, -1 for an error.
ForkRead(r, f) ==
    [r EXCEPT !.rc = Len(r.out), !.forklen[f] = @ - Len(r.out),
              !.forkcrc[f] = crc16_xmodem_update(@, r.out)]
ForkChecked(c, f) ==
    [c EXCEPT !.rc = IF Len(c.out) = 2 /\ FromBytes(c.out) = c.forkcrc[f] THEN 0 ELSE -1]
hqx_read(d, f, n) ==
    IF d.forklen[f] = TooLong THEN [d EXCEPT !.rc = -1]
    ELSE IF d.forklen[f] = 0 THEN ForkChecked(hqx_7tobin(d, 2), f)
    ELSE ForkRead(hqx_7tobin(d, Min({d.forklen[f], n})), f)

(***************************************************************************)
(* One run of nad hex and one of nad unhex over the archives it made, as   *)
(* far as the archives go: the loop over the forks of megatron.c.          *)
(***************************************************************************)

\* What an archive promises to bring back.
Kept(fh) == [name |-> fh.name, tc |-> fh.tc, flags |-> Masked(fh.flags),
             data |-> fh.data, rsrc |-> fh.rsrc]
Nothing == [data |-> <<>>, rsrc |-> <<>>]

Chunks(bytes, size) ==
    [k \in 1..((Len(bytes) + size - 1) \div size) |->
        SubSeq(bytes, (k - 1) * size + 1, Min({k * size, Len(bytes)}))]
ForkEncoded(e, f, bytes, size) == FoldLeft(LAMBDA x, b : hqx_write(x, f, b), e, Chunks(bytes, size))
Encoded(fh, size) ==
    hqx_close_write(ForkEncoded(ForkEncoded(hqx_open_write(fh), "data", fh.data, size),
                                "rsrc", fh.rsrc, size))

\* What the transfer makes of the text: its own line ends, a heading, a cut.
Cut(text, n) == IF n = -1 THEN text ELSE SubSeq(text, 1, Min({n, Len(text)}))
Carried(text, fh) ==
    Cut(fh.junk \o FlattenSeq([i \in 1..Len(text) |->
                                  IF text[i] = Newline THEN fh.eol ELSE <<text[i]>>]), fh.cut)

HxInit ==
    \E cf \in HqxConfigs :
        hx = [cf |-> cf, i |-> 1, phase |-> "open", f |-> 1, d |-> NoDecoder, got |-> Nothing,
              done |-> <<>>]

\* nad hex made the archive; nad unhex opens what arrived of it.
HxOpened(d) ==
    hx' = [hx EXCEPT !.d = d, !.phase = IF d.rc = 0 THEN "read" ELSE "failed", !.f = 1, !.got = Nothing]
HxOpen ==
    /\ hx.phase = "open" /\ hx.i <= Len(hx.cf.files)
    /\ HxOpened(hqx_open_read(hx.d, Carried(Encoded(File(hx), hx.cf.chunk), File(hx)), hx.cf.read))

\* One read of the fork buffer, and the test of the length at the end.
HxGot(d, f, short) ==
    hx' = [hx EXCEPT !.d = d,
                     !.got[f] = IF d.rc > 0 THEN @ \o d.out ELSE @,
                     !.f = IF d.rc = 0 /\ ~short THEN @ + 1 ELSE @,
                     !.phase = IF d.rc < 0 \/ short THEN "failed"
                               ELSE IF d.rc = 0 /\ hx.f = 2 THEN "whole" ELSE @]
HxReadFrom(d, f) == HxGot(d, f, hx.d.forklen[f] # 0 /\ d.rc = 0)
HxRead ==
    /\ hx.phase = "read"
    /\ HxReadFrom(hqx_read(hx.d, Forks[hx.f], hx.cf.chunk), Forks[hx.f])

\* The result, and on to the next archive.
HxClose ==
    /\ hx.phase \in {"failed", "whole"}
    /\ LET fh == hx.d.fh
           got == [name |-> fh.name, tc |-> fh.tc, flags |-> fh.flags, data |-> hx.got.data,
                   rsrc |-> hx.got.rsrc]
       IN  hx' = [hx EXCEPT !.phase = "open", !.i = @ + 1, !.d.in = <<>>, !.d.rem = <<>>,
                     !.done = Append(@, [ok |-> IF hx.phase = "whole" THEN 1 ELSE 0,
                                         got |-> got])]

HxNext == HxOpen \/ HxRead \/ HxClose
HxSpec == HxInit /\ [][HxNext]_hxVars

(***************************************************************************)
(* Properties.                                                             *)
(***************************************************************************)
\* Whatever the bytes of the two forks, the place and the kind of the line
\* ends, the text before the archive and the sizes of the reads, nad unhex brings back from an archive of nad hex the
\* name, the type, the flags and both forks, also when an archive before it
\* in the same run broke off; and what it brings back from an archive that
\* lost its end is never anything else (hqx_7tobin, skip_junk, hqx_read).
HexRoundTrip ==
    \A i \in 1..Len(hx.done) :
        /\ hx.done[i].ok = 1 => hx.done[i].got = Kept(hx.cf.files[i])
        /\ hx.cf.files[i].cut = -1 => hx.done[i].ok = 1
=============================================================================
