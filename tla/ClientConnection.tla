-------------------------- MODULE ClientConnection --------------------------
(***************************************************************************)
(* The connection of one Client object to its GPS device                    *)
(* (src/src/gypsy-client.c): SetStartOptions, Start, Stop and               *)
(* GetConnectionStatus called over D-Bus, and the three GLib sources a       *)
(* started connection installs on its I/O channel.  Start has many ways to   *)
(* fail half way; what each of them leaves behind is what this module is    *)
(* about.                                                                   *)
(***************************************************************************)
CONSTANTS
    DeviceKinds,   \* the kinds of device the object may be created for
    NmeaLog,       \* the daemon logs NMEA data (--nmea-log)
    BaudRates,     \* the baud rates SetStartOptions knows
    NoBaudRate     \* B0: no baud rate has been set

\* "usb0" is the tty /dev/ttyUSB0, the only one probed for a Garmin; "file" is
\* a FIFO or a file; "rfcomm" a device path that is a Bluetooth address, and
\* "nobluez" one in a build without HAVE_BLUEZ.
ASSUME KindsAssumption ==
    /\ DeviceKinds \subseteq {"tty", "usb0", "file", "rfcomm", "nobluez"}
    /\ NmeaLog \in BOOLEAN
    /\ NoBaudRate \notin BaudRates

VARIABLES
    kind,        \* what device_path names
    fd,          \* "none" is -1
    type,        \* GypsyClientPrivate.type
    channel,     \* there is an I/O channel
    debug_log,   \* there is a log channel
    error_id, connect_id, input_id,   \* the source is installed
    parser,      \* the parser object, if any
    baudrate,
    termios,     \* the input speed the open terminal was set to
    signalled,   \* the last ConnectionStatusChanged, "none" if there was none
    reply        \* the last method call and its return value

vars == <<kind, fd, type, channel, debug_log, error_id, connect_id, input_id,
          parser, baudrate, termios, signalled, reply>>

sources == <<error_id, connect_id, input_id>>

NoReply == <<"none", TRUE>>

TypeOK ==
    /\ kind \in DeviceKinds
    /\ fd \in {"none", "open"}
    /\ type \in {"UNKNOWN", "SERIAL", "GARMIN", "FIFO", "BLUETOOTH"}
    /\ channel \in BOOLEAN
    /\ debug_log \in BOOLEAN
    /\ error_id \in BOOLEAN
    /\ connect_id \in BOOLEAN
    /\ input_id \in BOOLEAN
    /\ parser \in {"none", "nmea", "garmin"}
    /\ baudrate \in BaudRates \cup {NoBaudRate}
    /\ termios \in BaudRates \cup {NoBaudRate}
    /\ signalled \in {"none", "connected", "disconnected"}
    /\ reply \in {"none", "Start", "Stop", "SetStartOptions"} \X BOOLEAN

Init ==
    /\ kind \in DeviceKinds
    /\ fd = "none"
    /\ type = "UNKNOWN"
    /\ channel = FALSE
    /\ debug_log = FALSE
    /\ error_id = FALSE
    /\ connect_id = FALSE
    /\ input_id = FALSE
    /\ parser = "none"
    /\ baudrate = NoBaudRate
    /\ termios = NoBaudRate
    /\ signalled = "none"
    /\ reply = NoReply

IsTty == kind \in {"tty", "usb0"}

-----------------------------------------------------------------------------
(* gypsy_client_set_start_options, with the one key it knows.               *)

\* Mutants: a rate it does not know is stored all the same, or the check that
\* the device is not started yet is missing.
SetAnyRate(rate) ==
    /\ ~channel
    /\ baudrate' = "unsupported"
    /\ reply' = <<"SetStartOptions", FALSE>>
    /\ UNCHANGED <<kind, fd, type, channel, debug_log, sources, parser,
                   termios, signalled>>
SetRateAnytime(rate) ==
    /\ baudrate' = rate
    /\ reply' = <<"SetStartOptions", TRUE>>
    /\ UNCHANGED <<kind, fd, type, channel, debug_log, sources, parser,
                   termios, signalled>>

SetBaudRate(rate) ==
    /\ ~channel
    /\ baudrate' = rate
    /\ reply' = <<"SetStartOptions", TRUE>>
    /\ UNCHANGED <<kind, fd, type, channel, debug_log, sources, parser,
                   termios, signalled>>

\* Refused: the device is started already, or the rate is not supported.
\* Accepted without effect: no key, or only keys it does not know.
OtherStartOptions ==
    /\ reply' \in {"SetStartOptions"} \X BOOLEAN
    /\ UNCHANGED <<kind, fd, type, channel, debug_log, sources, parser,
                   baudrate, termios, signalled>>

-----------------------------------------------------------------------------
(* gypsy_client_start, one action for each way through it.                  *)

StartReturns(ok) ==
    /\ reply' = <<"Start", ok>>
    /\ UNCHANGED <<kind, parser, input_id, baudrate, signalled>>

StartAlready ==
    /\ fd = "open"
    /\ StartReturns(TRUE)
    /\ UNCHANGED <<fd, type, channel, debug_log, error_id, connect_id, termios>>

\* open fails; a terminal that was opened once is SERIAL by then.
StartOpenFails ==
    /\ fd = "none"
    /\ kind \in {"tty", "usb0", "file"}
    /\ type' \in IF IsTty THEN {"FIFO", "SERIAL"} ELSE {"FIFO"}
    /\ StartReturns(FALSE)
    /\ UNCHANGED <<fd, channel, debug_log, error_id, connect_id, termios>>

\* tcgetattr or tcsetattr fails; the descriptor stays open.
StartTermiosFails ==
    /\ fd = "none"
    /\ IsTty
    /\ fd' = "open"
    /\ type' = "SERIAL"
    /\ StartReturns(FALSE)
    /\ UNCHANGED <<channel, debug_log, error_id, connect_id, termios>>

StartWithoutBluez ==
    /\ fd = "none"
    /\ kind = "nobluez"
    /\ type' = "BLUETOOTH"
    /\ StartReturns(FALSE)
    /\ UNCHANGED <<fd, channel, debug_log, error_id, connect_id, termios>>

\* The device is open, and a terminal has its speed set if one was chosen.
DeviceOpened ==
    /\ fd = "none"
    /\ kind # "nobluez"
    /\ type' = IF IsTty THEN "SERIAL"
               ELSE IF kind = "file" THEN "FIFO" ELSE "BLUETOOTH"
    /\ termios' = IF IsTty THEN baudrate ELSE NoBaudRate
    /\ debug_log' = (debug_log \/ NmeaLog)

\* Setting up the channel fails, which it always does when socket () failed
\* and the descriptor is -1.
StartChannelFails ==
    /\ DeviceOpened
    /\ fd' \in IF kind = "rfcomm" THEN {"none", "open"} ELSE {"open"}
    /\ channel' = TRUE
    /\ StartReturns(FALSE)
    /\ UNCHANGED <<error_id, connect_id>>

StartConnectFails ==
    /\ DeviceOpened
    /\ kind = "rfcomm"
    /\ fd' = "none"
    /\ channel' = FALSE
    /\ error_id' = FALSE
    /\ connect_id' = FALSE
    /\ StartReturns(FALSE)

StartSucceeds ==
    /\ DeviceOpened
    /\ fd' = "open"
    /\ channel' = TRUE
    /\ error_id' = TRUE
    /\ connect_id' = TRUE
    /\ StartReturns(TRUE)

-----------------------------------------------------------------------------
(* shutdown_connection.  The type and the baud rate are kept.               *)

\* Mutant: the input source is not removed.
LeaveInput ==
    /\ fd' = "none"
    /\ channel' = FALSE
    /\ debug_log' = FALSE
    /\ error_id' = FALSE
    /\ connect_id' = FALSE
    /\ parser' = "none"
    /\ UNCHANGED <<kind, type, baudrate, termios, input_id>>

ShutdownConnection ==
    /\ fd' = "none"
    /\ channel' = FALSE
    /\ debug_log' = FALSE
    /\ error_id' = FALSE
    /\ connect_id' = FALSE
    /\ input_id' = FALSE
    /\ parser' = "none"
    /\ UNCHANGED <<kind, type, baudrate, termios>>

\* Mutant: Stop emits no signal.
StopSilently ==
    /\ ShutdownConnection
    /\ reply' = <<"Stop", TRUE>>
    /\ UNCHANGED signalled

Stop ==
    /\ ShutdownConnection
    /\ signalled' = "disconnected"
    /\ reply' = <<"Stop", TRUE>>

-----------------------------------------------------------------------------
(* The sources.  gps_channel_connect runs when the channel is writable.     *)

\* Mutant: the ids of the connect and the error source are taken for each other.
SignalAndDropError ==
    /\ signalled' = "connected"
    /\ error_id' = FALSE
    /\ connect_id' = FALSE
    /\ reply' = NoReply
    /\ UNCHANGED <<kind, fd, channel, debug_log, baudrate, termios>>

SignalConnected ==
    /\ signalled' = "connected"
    /\ connect_id' = FALSE
    /\ reply' = NoReply
    /\ UNCHANGED <<kind, fd, channel, debug_log, error_id, baudrate, termios>>

\* The request to identify a Garmin cannot be written.
ConnectProbeFails ==
    /\ connect_id
    /\ type = "SERIAL"
    /\ kind = "usb0"
    /\ SignalConnected
    /\ UNCHANGED <<type, parser, input_id>>

ConnectGarmin ==
    /\ connect_id
    /\ type = "SERIAL"
    /\ kind = "usb0"
    /\ type' = "GARMIN"
    /\ parser' = "garmin"
    /\ input_id' = TRUE
    /\ SignalConnected

ConnectNmea ==
    /\ connect_id
    /\ parser' = "nmea"
    /\ input_id' = TRUE
    /\ SignalConnected
    /\ UNCHANGED type

\* gps_channel_error: the device reports an error or hangs up.
ChannelError ==
    /\ error_id
    /\ ShutdownConnection
    /\ signalled' = "disconnected"
    /\ reply' = NoReply

-----------------------------------------------------------------------------
Start ==
    \/ StartAlready
    \/ StartOpenFails
    \/ StartTermiosFails
    \/ StartWithoutBluez
    \/ StartChannelFails
    \/ StartConnectFails
    \/ StartSucceeds

ChannelConnect == ConnectProbeFails \/ ConnectGarmin \/ ConnectNmea

Next ==
    \/ \E rate \in BaudRates : SetBaudRate(rate)
    \/ OtherStartOptions
    \/ Start
    \/ Stop
    \/ ChannelConnect
    \/ ChannelError

Spec == Init /\ [][Next]_vars

-----------------------------------------------------------------------------
(* gypsy_client_get_connection_status.                                      *)
Connected == fd = "open"

\* No source outlives the channel and the descriptor its callback uses.
SourcesHaveChannel ==
    (error_id \/ connect_id \/ input_id) => (channel /\ Connected)

\* gps_channel_input dereferences the parser, so the input source exists only
\* together with one, and the parser matches the type of the device however
\* the object was stopped and started before.
InputHasParser ==
    /\ input_id <=> parser # "none"
    /\ parser = "garmin" => type = "GARMIN"
    /\ parser = "nmea" => type # "GARMIN"

\* gps_channel_connect never overwrites a parser: while the connect source is
\* installed there is none, and while there is one no Start installs it again.
ConnectOnce == connect_id => (parser = "none" /\ error_id)

\* A device that hangs up is always noticed: the error source lives as long
\* as the connect or the input source does.
HangUpIsSeen == (connect_id \/ input_id) => error_id

\* While the listeners believe the device is connected, GetConnectionStatus
\* says so too; a connection never ends without a signal.
SignalledIsConnected == signalled = "connected" => Connected

\* The open terminal has the speed asked for before Start: SetStartOptions
\* cannot change it under a running connection.
SpeedInEffect == (connect_id \/ input_id) => termios = (IF IsTty THEN baudrate ELSE NoBaudRate)

\* "Starts the connection ... and listens for incoming messages": when Start
\* has returned TRUE the object listens or waits for the device.
StartListens == reply = <<"Start", TRUE>> => (connect_id \/ input_id)
=============================================================================
