----------------------------- MODULE SerialPort -----------------------------
(***************************************************************************)
(* EB::SerialPort (linux/EB/SerialPort): one port object, used by one      *)
(* thread of a program whose other threads open and close files of their   *)
(* own.  Descriptors are small numbers and open() returns the lowest free  *)
(* one, so a number that was closed soon means another file.               *)
(*                                                                         *)
(* The device sends bytes numbered 1, 2, ...; those in Nuls have the value *)
(* '\0'.  A buffer cell holds the number of the byte in it, and 0 where    *)
(* memset has put a '\0' of its own; Alien is any byte of another file.    *)
(***************************************************************************)
EXTENDS Integers, Sequences, FiniteSets

CONSTANTS MaxFd,        \* the process has the descriptors 1..MaxFd
          DefaultSize,  \* the initial buffer_size
          BufferSizes,  \* the sizes set_buffer_size may be given
          MaxBytes,     \* bound on the bytes the device sends
          Nuls,         \* those of them that are '\0'
          MaxFailures   \* bound on the open() calls that fail half-way

ASSUME SerialAssumption ==
    /\ MaxFd \in Nat \ {0} /\ MaxBytes \in Nat /\ MaxFailures \in Nat
    /\ BufferSizes \subseteq Nat /\ DefaultSize \in BufferSizes
    /\ Nuls \subseteq 1..MaxBytes

Fds   == 1..MaxFd
Alien == MaxBytes + 1

VARIABLES
    status_code,    \* SerialPort::status_code
    serial_port,    \* SerialPort::serial_port, or -1
    buffer,         \* SerialPort::buffer
    buffer_size,    \* SerialPort::buffer_size
    last_err_code,  \* SerialPort::last_err_code
    name_lives,     \* whether the string port_name points to still exists
    files,          \* what each descriptor of the process is open on
    arrived,        \* bytes the device has sent so far
    unread,         \* those of them the driver still holds
    returned,       \* history: the bytes read() has returned
    written_to,     \* history: what write() has written to
    half_opened,    \* history: open() calls that failed after ::open
    ended           \* how the object or the process ended, or "no"

object_vars  == <<status_code, serial_port, buffer, buffer_size, last_err_code, name_lives>>
device_vars  == <<arrived, unread>>
history_vars == <<returned, written_to, half_opened>>
vars == <<object_vars, files, device_vars, history_vars, ended>>

(* serial_port is not initialised, and no method reads it before open().   *)
Init ==
    /\ status_code = 0 /\ serial_port = -1 /\ last_err_code = "none"
    /\ buffer = <<>> /\ buffer_size = DefaultSize
    /\ name_lives = TRUE
    /\ files = [f \in Fds |-> "free"]
    /\ arrived = 0 /\ unread = <<>>
    /\ returned = <<>> /\ written_to = {} /\ half_opened = 0
    /\ ended = "no"

Alive == ended = "no"
Free  == {f \in Fds : files[f] = "free"}
Lowest(S) == CHOOSE f \in S : \A g \in S : f <= g

-----------------------------------------------------------------------------
MayResize_unchecked == TRUE
MayResize == status_code = 0

SetBufferSize ==
    /\ Alive /\ MayResize
    /\ buffer_size' \in BufferSizes
    /\ UNCHANGED <<status_code, serial_port, buffer, last_err_code, name_lives,
                   files, device_vars, history_vars, ended>>

MayOpen_unchecked == TRUE
MayOpen == status_code = 0

(* A name that is gone may read as any text: one that names no file here.  *)
OpenFails ==
    /\ Alive /\ MayOpen
    /\ serial_port' = -1
    /\ last_err_code' \in {"open", "logger"}
    /\ UNCHANGED <<status_code, buffer, buffer_size, name_lives, files, device_vars,
                   history_vars, ended>>

(* tcgetattr or tcsetattr fails: the descriptor is kept open.  Logging     *)
(* comes before errno is saved and may have overwritten it.                *)
OpenHalfWay ==
    /\ Alive /\ MayOpen /\ name_lives /\ Free # {} /\ half_opened < MaxFailures
    /\ serial_port' = Lowest(Free)
    /\ files' = [files EXCEPT ![Lowest(Free)] = "port"]
    /\ last_err_code' \in {"configure", "logger"}
    /\ half_opened' = half_opened + 1
    /\ UNCHANGED <<status_code, buffer, buffer_size, name_lives, device_vars,
                   returned, written_to, ended>>

Open ==
    /\ Alive /\ MayOpen /\ name_lives /\ Free # {}
    /\ serial_port' = Lowest(Free)
    /\ files' = [files EXCEPT ![Lowest(Free)] = "port"]
    /\ buffer' = [k \in 1..buffer_size |-> 0]
    /\ status_code' = 1
    /\ UNCHANGED <<buffer_size, last_err_code, name_lives, device_vars, history_vars, ended>>

(* status_code stays 1.                                                    *)
Close ==
    /\ Alive /\ status_code = 1
    /\ files' = [files EXCEPT ![serial_port] = "free"]
    /\ UNCHANGED <<object_vars, device_vars, history_vars, ended>>

(* The result of ::write is not looked at.                                 *)
Write ==
    /\ Alive /\ status_code # 0
    /\ written_to' = written_to \cup {files[serial_port]}
    /\ UNCHANGED <<object_vars, files, device_vars, returned, half_opened, ended>>

(***************************************************************************)
(* std::string(buffer, 0, bytes): a C string, up to the first '\0' in the  *)
(* buffer, of which the first `bytes' bytes are taken.  A buffer without a *)
(* '\0' is read beyond its end: the process dies, or goes on the same.     *)
(***************************************************************************)
IsNul(cell) == cell = 0 \/ cell \in Nuls

text_of_buffer(cells, bytes) ==
    SelectSeq(cells, LAMBDA cell : ~ IsNul(cell))

text(cells, bytes) ==
    LET inside == {n \in 0..bytes : \A k \in 1..n : ~ IsNul(cells[k])}
    IN  SubSeq(cells, 1, CHOOSE n \in inside : \A m \in inside : m <= n)

Filled(bytes) ==
    [k \in 1..Len(buffer) |-> IF k <= Len(bytes) THEN bytes[k] ELSE buffer[k]]

Survives(filled) ==
    \/ UNCHANGED ended
    \/ /\ \A k \in 1..Len(filled) : ~ IsNul(filled[k])
       /\ ended' = "overread"

(* The bytes a read takes from the driver; none is a timeout.              *)
Taken == SubSeq(unread, 1, IF Len(unread) < buffer_size THEN Len(unread) ELSE buffer_size)

Read ==
    /\ Alive /\ status_code # 0 /\ files[serial_port] = "port"
    /\ LET filled == Filled(Taken)
       IN  /\ buffer' = filled
           /\ unread' = SubSeq(unread, Len(Taken) + 1, Len(unread))
           /\ returned' = returned \o text(filled, Len(Taken))
           /\ Survives(filled)
    /\ UNCHANGED <<status_code, serial_port, buffer_size, last_err_code, name_lives,
                   files, arrived, written_to, half_opened>>

(* After close() the number may stand for another file; a read of a number *)
(* that stands for none fails and changes nothing.                         *)
ReadElsewhere ==
    /\ Alive /\ status_code # 0 /\ files[serial_port] = "other"
    /\ \E n \in 0..buffer_size :
          LET filled == Filled([k \in 1..n |-> Alien])
          IN  buffer' = filled /\ Survives(filled)
    /\ UNCHANGED <<status_code, serial_port, buffer_size, last_err_code, name_lives,
                   files, device_vars, history_vars>>

(* The destructor deletes the buffer; it does not close the port.          *)
Destroy ==
    /\ Alive
    /\ ended' = "destroyed"
    /\ UNCHANGED <<object_vars, files, device_vars, history_vars>>

Port ==
    \/ SetBufferSize \/ OpenFails \/ OpenHalfWay \/ Open \/ Close \/ Write \/ Read
    \/ ReadElsewhere \/ Destroy

-----------------------------------------------------------------------------
(* The rest of the program, and the device.                                *)

(* port_name is a pointer to the caller's string, which may be a temporary.*)
NameDies ==
    /\ Alive /\ name_lives
    /\ name_lives' = FALSE
    /\ UNCHANGED <<status_code, serial_port, buffer, buffer_size, last_err_code,
                   files, device_vars, history_vars, ended>>

OtherOpens ==
    /\ Alive /\ Free # {}
    /\ files' = [files EXCEPT ![Lowest(Free)] = "other"]
    /\ UNCHANGED <<object_vars, device_vars, history_vars, ended>>

OtherCloses(f) ==
    /\ Alive /\ files[f] = "other"
    /\ files' = [files EXCEPT ![f] = "free"]
    /\ UNCHANGED <<object_vars, device_vars, history_vars, ended>>

Arrive ==
    /\ Alive /\ arrived < MaxBytes
    /\ arrived' = arrived + 1
    /\ unread' = Append(unread, arrived + 1)
    /\ UNCHANGED <<object_vars, files, history_vars, ended>>

Program == NameDies \/ OtherOpens \/ (\E f \in Fds : OtherCloses(f)) \/ Arrive

Next == Port \/ Program
Spec == Init /\ [][Next]_vars

-----------------------------------------------------------------------------
(* Properties.                                                             *)

(* Every variable has its type; an open port has a descriptor.             *)
TypeOK ==
    /\ status_code \in {0, 1} /\ serial_port \in Fds \cup {-1}
    /\ status_code = 1 => serial_port \in Fds
    /\ buffer \in Seq(0..Alien) /\ buffer_size \in BufferSizes
    /\ last_err_code \in {"none", "open", "configure", "logger"}
    /\ name_lives \in BOOLEAN
    /\ files \in [Fds -> {"free", "port", "other"}]
    /\ arrived \in 0..MaxBytes /\ unread \in Seq(1..MaxBytes)
    /\ returned \in Seq(1..MaxBytes)
    /\ written_to \subseteq {"free", "port", "other"}
    /\ half_opened \in 0..MaxFailures
    /\ ended \in {"no", "overread", "destroyed"}

(***************************************************************************)
(* read() never returns a byte twice, out of order, or left over from an   *)
(* earlier read: the buffer is not cleared, and the length passed along    *)
(* cuts its old tail.  ::read is given the size the buffer was allocated   *)
(* with: set_buffer_size never changes the one without the other, whatever *)
(* opens fail between.                                                     *)
(***************************************************************************)
NothingStale ==
    /\ \A k \in 2..Len(returned) : returned[k - 1] < returned[k]
    /\ status_code = 1 => Len(buffer) = buffer_size

(***************************************************************************)
(* Each configuration that failed leaves its descriptor open on the port   *)
(* for good, and nothing else does, but for the descriptor of the one      *)
(* open() that succeeded: close() closes it, and a destructor without a    *)
(* close() leaves it open too.                                             *)
(***************************************************************************)
Held == IF status_code = 1 THEN {serial_port} ELSE {}
Leaked == {f \in Fds \ Held : files[f] = "port"}

LeaksOnlyFailures == Cardinality(Leaked) = half_opened

(***************************************************************************)
(* "Please open the port first before attempting to write into it.": what  *)
(* write() writes to is the port.                                          *)
(***************************************************************************)
WritesToThePort == written_to \subseteq {"port"}

=============================================================================
