------------------------------- MODULE MCUnits -------------------------------
(***************************************************************************)
(* The parts of the system that have no concurrent partner in the other    *)
(* models, each on its own small instance: unit says which one a behaviour *)
(* is about, s is its state, or the arguments of one call of a function.   *)
(* The name server has the variables of its module.                        *)
(***************************************************************************)
EXTENDS NameService

CONSTANTS
  c1, c2, thread, free, \* clients of the channel, another thread, no file
  none,                 \* no value of the kind at hand
  wrong                 \* a character that is no digit

VARIABLES unit, s

\* Options of dbg_ctrl.
Level(l, patterns) == [kind |-> "level", level |-> l, patterns |-> patterns]
DefaultLevel(l)    == [kind |-> "default", level |-> l]
Static             == [kind |-> "static"]

RB == INSTANCE RingBuffer WITH ring <- s, Size <- 3, Serials <- 4
BP == INSTANCE BufferPool WITH pool <- s, Pools <- {0, 1}, Sizes <- {1, 3},
                               Payload <- 77, None <- none
RP == INSTANCE Rpc WITH rpc <- s, Platforms <- {"linux", "win32", "qnx"}, Clients <- {c1, c2},
                        Thread <- thread, Free <- free, Descriptors <- {1, 2}, NoId <- none
SY == INSTANCE Sync WITH state <- s, Threads <- {1, 2}, None <- none, Never <- none,
                         Boot <- 2, MaxTime <- 2, MaxDepth <- 2, MaxTokens <- 1,
                         Timeouts <- {0, 1}
DL == INSTANCE DoubleLinkedList WITH dbll <- s, Entries <- 1 .. 4, NULL <- none,
                                     Key <- <<1, 2, 2, 3>>
BL == INSTANCE BlockList WITH list <- s, Items <- {1, 2, 3}, NULL <- none, MaxItems <- 3,
                              PerBlock <- {1, 2}
BD == INSTANCE ByteDataBuffer WITH bdb <- s, Base <- 2, Widths <- {1, 2, 4}, Block <- 4,
                                   MaxLength <- 8, MaxString <- 2, Reserves <- {5}
BA == INSTANCE BitArray WITH bits <- s, ByteBits <- 3, Bytes <- 2
CH == INSTANCE Checksum WITH block <- s, Radix <- 3, Modulus <- 8, Size <- 3, Offsets <- {0, 5}
LP == INSTANCE LowPassFilter WITH filter <- s, Samples <- {-5, -1, 0, 2, 6},
                                  Integrators <- {1, 2, 4}, IntBits <- 8
\* The units of time of each instance of Arithmetic.
MsPerSec   == 2
NsPerMs    == 3
LastSecond == 4
LastOffset == 6
TimeBits   == 3

LC == INSTANCE Arithmetic WITH IntBits <- 4, XS <- {}, Ys <- {}, IndexBits <- 3
IP == INSTANCE Arithmetic WITH
        XS <- {<<-4, 3>>, <<-4, -3, 0, 3>>, <<-4, -2, -1, 2, 3>>, <<-4, 0, 3>>, <<-2, 1, 3>>},
        Ys <- {-4, -1, 3}, IndexBits <- 3, IntBits <- 6
CV == INSTANCE Conversions WITH MaxDigits <- 2, IntBits <- 8, ByteRadix <- 3,
                                Radix <- 3, MaxBytes <- 2, Other <- wrong
TS == INSTANCE Arithmetic WITH IntBits <- 8, XS <- {}, Ys <- {}, IndexBits <- 3
QI == INSTANCE QueueIterators WITH queue <- s, Nodes <- 1 .. 3, Posters <- {1, 2}, Owner <- 3,
                                   Pool <- {}, Serials <- 4, End <- 0, NULL <- none
QP == INSTANCE QueueIterators WITH queue <- s, Nodes <- 1 .. 3, Posters <- {1, 2}, Owner <- 3,
                                   Pool <- {4}, Serials <- 3, End <- 0, NULL <- none
DG == INSTANCE DebugLevels WITH
        dbg <- s, Tools <- {1, 2}, Modules <- 2, LvlHi <- 1, LvlLo <- 2, Default <- <<1, 1>>,
        None <- none, Files <- {none, <<1>>, <<3, 1>>},
        NamedBy <- [p \in {"a", "ab"} |-> IF p = "ab" THEN {2} ELSE {1, 2}],
        CommandLines <- {<<DefaultLevel(2)>>, <<DefaultLevel(7), DefaultLevel(1)>>,
                         <<Static, Level(0, <<"*">>), Level(2, <<"a">>),
                           Level(2, <<"ab", "ab">>)>>}
IS == INSTANCE IicSlave WITH iic <- s, Callers <- {1, 2}, Channels <- {1, 2},
                             MaxMessages <- 3, NULL <- none
SM == INSTANCE SharedMemory WITH shm <- s, Processes <- {1, 2}, Objects <- 1 .. 3,
                                 Sizes <- {1, 2}, None <- none
NT == INSTANCE NativeTimers WITH nt <- s, Platforms <- {"qnx", "win32"}, Threads <- {1, 2},
                                 Timers <- 1 .. 2, Events <- {5}, None <- none
UA == INSTANCE Uart WITH uart <- s, Drivers <- {"linux", "qnx"}, BufSize <- 2, Serials <- 6,
                         CallerSizes <- {1, 3}, Unset <- none
IM == INSTANCE IicMaster WITH master <- s, Threads <- {1, 2}, Data <- {<<5>>, <<6, 7>>},
                              ReadBuffers <- {8}, MaxSegments <- 3, Nobody <- none
SG == INSTANCE Strings WITH Blank <- 1, Small <- 3, Capital <- 2, MaxString <- 3,
        Buffers <- 0 .. 3, Bytes <- {65, 128, 191, 195, 226, 240, 248},
        WideChars <- {65, 127, 128, 255, 2047, 2048, 65535, 65536, 1114111, 1114112}
QL == INSTANCE QueueLife WITH q <- s, Posters <- {1, 2}, Router <- 1, Size <- 1,
                              Lives <- 2, MaxPosts <- 5, NULL <- none

ScaleCalls == [input : -4 .. 4, old_min : {-4, -1, 0}, old_max : {0, 1, 4},
               new_min : {-3, -1, 0, 2}, new_max : {0, 1, 3, 4}]

Init ==
  \/ unit = "names"  /\ ServiceInit /\ s = none
  \/ /\ ServiceInit
     /\ \/ unit = "ring"   /\ RB!Init
        \/ unit = "pool"   /\ BP!Init
        \/ unit = "rpc"    /\ RP!Init
        \/ unit = "sync"   /\ SY!Init
        \/ unit = "dbll"   /\ DL!Init
        \/ unit = "blist"  /\ BL!Init
        \/ unit = "bdb"    /\ BD!Init
        \/ unit = "bits"   /\ BA!Init
        \/ unit = "chks"   /\ CH!Init
        \/ unit = "filter" /\ LP!Init
        \/ unit = "iter"   /\ QI!Init
        \/ unit = "shared" /\ QP!Init
        \/ unit = "debug"  /\ DG!Init
        \/ unit = "iic"    /\ IS!Init
        \/ unit = "shm"    /\ SM!Init
        \/ unit = "ntimer" /\ NT!Init
        \/ unit = "uart"   /\ UA!Init
        \/ unit = "iicm"   /\ IM!Init
        \/ unit = "qlife"  /\ QL!Init
        \/ unit = "limit"  /\ s \in LC!WrapCalls
        \/ unit = "interp" /\ s \in IP!TableCalls
        \/ unit = "bcd"    /\ s \in CV!BCDCalls
        \/ unit = "scale"  /\ s \in ScaleCalls
        \/ unit = "time"   /\ s \in TS!TimeCalls
        \/ unit = "hex"    /\ s \in CV!HexCalls
        \/ unit = "order"  /\ s \in CV!NumberCalls
        \/ unit = "copy"   /\ s \in SG!CopyCalls
        \/ unit = "split"  /\ s \in SG!SplitCalls
        \/ unit = "compare" /\ s \in SG!CompareCalls
        \/ unit = "swap"   /\ s \in SG!ExchangeCalls
        \/ unit = "wide"   /\ s \in SG!WideCalls
        \/ unit = "latin"  /\ s \in SG!ByteCalls

Next ==
  \/ unit = "names" /\ ServiceNext /\ UNCHANGED <<unit, s>>
  \/ /\ UNCHANGED <<unit, tables, served>>
     /\ \/ unit = "ring"   /\ RB!Next
        \/ unit = "pool"   /\ BP!Next
        \/ unit = "rpc"    /\ RP!Next
        \/ unit = "sync"   /\ SY!Next
        \/ unit = "dbll"   /\ DL!Next
        \/ unit = "blist"  /\ BL!Next
        \/ unit = "bdb"    /\ BD!Next
        \/ unit = "bits"   /\ BA!Next
        \/ unit = "chks"   /\ CH!Next
        \/ unit = "filter" /\ LP!Next
        \/ unit = "iter"   /\ QI!Next
        \/ unit = "shared" /\ QP!Next
        \/ unit = "debug"  /\ DG!Next
        \/ unit = "iic"    /\ IS!Next
        \/ unit = "shm"    /\ SM!Next
        \/ unit = "ntimer" /\ NT!Next
        \/ unit = "uart"   /\ UA!Next
        \/ unit = "iicm"   /\ IM!Next
        \/ unit = "qlife"  /\ QL!Next

Spec == Init /\ [][Next]_<<unit, s, tables, served>>

-----------------------------------------------------------------------------
(* The properties are stated and explained in the modules; here each one is *)
(* asked of its own unit.                                                   *)

(* StructuresHold: the containers keep what they promise in every state the *)
(* operations reach: ring_buffer.c and xsal_free_buffer.c hand every cell   *)
(* and buffer to one user at a time, double_linked_list.c and block_list.c  *)
(* are the sequences they stand for, byte_data_buffer.c returns what was    *)
(* written to it, bit_array_find.c the nearest member, and the checksum of  *)
(* checksum.c tells a foreign write.  An iterator of a message queue stays  *)
(* on a message of it (xsal_next_message.c), and a saved set of debug       *)
(* levels is loaded whole (dbg_trace_ps.c).  The name of a shared memory    *)
(* leads to its owner's (xsal_create_shared_memory.c), and a timer of QNX   *)
(* or Windows is in one list and silent when free (xsal_i_timer.c).  The    *)
(* array of channels never outgrows SAL_MAX_CHANNELS and has one entry for  *)
(* a port (xsal_ns_thread.c).                                               *)
(* The queue of a thread has its nodes and statistics to itself, whatever   *)
(* was posted to the threads before it (xsal_i_message_queue.c).            *)
StructuresHold ==
  /\ unit = "names" => ServerTypeOK /\ PortsBoundOnce
  /\ unit = "ring"  => RB!ReadsInOrder /\ RB!CountsAgree
  /\ unit = "pool"  => BP!ListIsWhatIsFree
  /\ unit = "dbll"  => DL!WellLinked /\ DL!VisitSeesAll
  /\ unit = "blist" => BL!BehavesAsSequence /\ BL!ItemsAreLive
  /\ unit = "bdb"   => BD!DataFits /\ BD!ReadsWhatWasWritten /\ BD!StringsKeepStep
  /\ unit = "bits"  => BA!FirstIsLeast /\ BA!NextIsNearest
  /\ unit = "chks"  => CH!VerifiesWrites
  /\ unit = "iter"  => QI!ListIsWellLinked /\ QI!IteratorIsLinked /\ QI!WalkSeesAll
  /\ unit = "shared" => QP!ListIsWellLinked /\ QP!IteratorIsLinked /\ QP!WalkSeesAll
  /\ unit = "debug" => DG!RestartKeepsLevels /\ DG!WholeOrNothing
  /\ unit = "shm"   => SM!OwnerIsFound /\ SM!MapsAreBacked /\ SM!ClosedIsGone
  /\ unit = "ntimer" => NT!EachTimerOnce /\ NT!FreeIsQuiet
  /\ unit = "qlife" => QL!EachLifeItsNodes /\ QL!RoomForSize /\ QL!StatsAreTrue

(* CallsAreSettled: what a call hands over arrives, or the caller learns    *)
(* that it did not.  A synchronous message leaves no connection open and is *)
(* answered truly, however its client ends (xsal_rpc_*.c); the count of     *)
(* a mutex is that of its users, whatever fails in between                  *)
(* (xsal_mutex_linux.c); who waits for the token of a message that an       *)
(* iterator removed gets it, unless another receiver took it                *)
(* (xsal_remove_message.c); and the master of an IIC bus reads the accepted *)
(* messages whole and in order (iic_slave_linux.c), as does who reads a     *)
(* UART (uart_linux.c); a transfer of a master has the segments of its      *)
(* owner (iic_linux.c).  A message that was posted is announced to its      *)
(* receiver (xsal_i_message_queue.c).                                       *)
CallsAreSettled ==
  /\ unit = "rpc"  => RP!NothingLeaks /\ RP!ReplyIsTrue
  /\ unit = "sync" => SY!CountsUsers
  /\ unit = "iter" => QI!WaiterIsServed
  /\ unit = "shared" => QP!WaiterIsServed
  /\ unit = "iic"  => IS!WholeInOrder /\ IS!AvailableIsTrue /\ IS!NeverStalls
                     /\ IS!ThreadsEndFirst
  /\ unit = "qlife" => QL!NoneUnannounced
  /\ unit = "uart" => UA!EveryByteIsDue /\ UA!ReceivedInOrder
  /\ unit = "iicm" => IM!TransferIsWhole /\ IM!FreeIsEmpty

(* FunctionsHold: the functions agree with what they stand for on all calls *)
(* of the instance: wrapping (limit_check.c), interpolation (interpolate.c),*)
(* decimal codes and scaling (conversions.c), deadlines and elapsed times   *)
(* (xsal_i_time.c), strings of digits (hex_string.c), the filter that stays *)
(* among its samples and follows them (low_pass_filter.c), the bytes of a   *)
(* number (convert_endian.c), strings in buffers (string_resource.c), and   *)
(* their encodings (char_utils.cpp, convert_8859_1_to_utf8.c).              *)
FunctionsHold ==
  /\ unit = "limit"  => LC!WrapsIntoRange(s) /\ LC!StepsAroundRange(s)
  /\ unit = "interp" => IP!PassesThroughPoints(s) /\ IP!KeepsDirection(s)
  /\ unit = "bcd"    => CV!CodesAgree(s) /\ CV!StepsInDecimal(s)
  /\ unit = "scale"  => CV!ScalesToNearest(s)
  /\ unit = "time"   => TS!DeadlineIsExact(s) /\ TS!ElapsedIsClose(s)
  /\ unit = "hex"    => CV!ReadsBack(s) /\ CV!FindsWrongDigit(s)
  /\ unit = "order"  => CV!BytesReadBack(s)
  /\ unit = "copy"   => SG!CopyFits(s)
  /\ unit = "split"  => SG!SplitsAtWords(s)
  /\ unit = "compare" => SG!OrdersWithoutCase(s)
  /\ unit = "swap"   => SG!ExchangesOrLeaves(s)
  /\ unit = "wide"   => SG!WideReadsBack(s)
  /\ unit = "latin"  => SG!LatinReadsBack(s)
  /\ unit = "filter" => LP!StaysAmongSamples /\ LP!Converges
=============================================================================
