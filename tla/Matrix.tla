------------------------------- MODULE Matrix -------------------------------
(***************************************************************************)
(* EB::Matrix (matrix.h).  matrix[row][col] leaves the two indices in the  *)
(* object, which operator[] returns twice, and get, set or operator= then  *)
(* use them.  Each call is an action; the caller writes whole accesses,    *)
(* but an exception, a discarded expression or a missing index may end     *)
(* one early, and the indices may be left out.                             *)
(***************************************************************************)
EXTENDS Integers, Sequences

CONSTANTS Sizes,        \* the sizes <<rows, columns>> of the matrices made
          Values,       \* what their elements may be
          SizeT         \* size_t arithmetic is modulo SizeT

ASSUME MatrixAssumption ==
    /\ SizeT \in Nat /\ Values # {} /\ Sizes \subseteq (0..(SizeT - 1)) \X (0..(SizeT - 1))
    /\ \A size \in Sizes : size[1] * size[2] < SizeT

VARIABLES
    rows, cols,     \* Matrix::rows, Matrix::cols
    array_ptr,      \* Matrix::array_ptr
    is_row_index,   \* Matrix::is_row_index
    index_row,      \* Matrix::index_row
    index_col,      \* Matrix::index_col
    access_count,   \* Matrix::access_count
    access,         \* the indices of the access the caller is making
    meant,          \* history: what the caller has assigned to each element
    cut_short       \* history: an access ended after its first index, or
                    \* wrote without any

cursor == <<is_row_index, index_row, index_col, access_count>>
matrix_vars == <<rows, cols, array_ptr, cursor, access, meant, cut_short>>

Elements == (0..(rows - 1)) \X (0..(cols - 1))

MatrixInit ==
    /\ \E size \in Sizes : rows = size[1] /\ cols = size[2]
    /\ \E init_val \in Values :
          /\ array_ptr = [i \in 0..(rows * cols - 1) |-> init_val]
          /\ meant = [e \in Elements |-> init_val]
    /\ is_row_index = TRUE /\ index_row = 0 /\ index_col = 0 /\ access_count = 0
    /\ access = <<>> /\ cut_short = FALSE

get_converted_index_transposed == (rows * index_row) + index_col
get_converted_index == (cols * index_row) + index_col

out_of_range_by_one(index, count) == index > count
out_of_range(index, count) == index > (count - 1) % SizeT

-----------------------------------------------------------------------------
(* The access is over; after a single index the next one counts as that of *)
(* a column.                                                               *)
EndAccess(lengths) ==
    /\ access' = <<>>
    /\ cut_short' = (cut_short \/ Len(access) \notin lengths)

Index(index) ==
    /\ Len(access) < 2
    /\ ~ out_of_range(index, IF is_row_index THEN rows ELSE cols)
    /\ index_row' = IF is_row_index THEN index ELSE index_row
    /\ index_col' = IF is_row_index THEN index_col ELSE index
    /\ is_row_index' = ~ is_row_index
    /\ access_count' = IF access_count < 2 THEN access_count + 1 ELSE access_count
    /\ access' = Append(access, index)
    /\ UNCHANGED <<rows, cols, array_ptr, meant, cut_short>>

IndexThrows(index) ==
    /\ Len(access) < 2
    /\ out_of_range(index, IF is_row_index THEN rows ELSE cols)
    /\ EndAccess({0})
    /\ UNCHANGED <<rows, cols, array_ptr, cursor, meant>>

(* get, set and operator= throw range_error; or the caller discards the    *)
(* expression.                                                             *)
Discard ==
    /\ access # <<>>
    /\ EndAccess({2})
    /\ UNCHANGED <<rows, cols, array_ptr, cursor, meant>>

Get ==
    /\ access_count = 2
    /\ access_count' = 0
    /\ EndAccess({0, 2})
    /\ UNCHANGED <<rows, cols, array_ptr, is_row_index, index_row, index_col, meant>>

Put(val) ==
    /\ array_ptr' = [array_ptr EXCEPT ![get_converted_index] = val]
    /\ meant' = IF access \in Elements THEN [meant EXCEPT ![access] = val] ELSE meant

Set(val) ==
    /\ access_count = 2
    /\ Put(val)
    /\ access_count' = 0
    /\ EndAccess({2})
    /\ UNCHANGED <<rows, cols, is_row_index, index_row, index_col>>

(* operator=: access_count stays 2, so a later matrix[row] = val passes.   *)
Assign(val) ==
    /\ access_count = 2
    /\ Put(val)
    /\ EndAccess({2})
    /\ UNCHANGED <<rows, cols, cursor>>

(* The bounds of the indices: one beyond the larger dimension.             *)
Indices == 0..(rows + cols)

MatrixNext ==
    \/ \E index \in Indices : Index(index) \/ IndexThrows(index)
    \/ Discard \/ Get
    \/ \E val \in Values : Set(val) \/ Assign(val)

MatrixSpec == MatrixInit /\ [][MatrixNext]_matrix_vars

-----------------------------------------------------------------------------
(* Properties.                                                             *)

(* Every variable has its type.                                            *)
MatrixTypeOK ==
    /\ <<rows, cols>> \in Sizes
    /\ array_ptr \in [0..(rows * cols - 1) -> Values]
    /\ is_row_index \in BOOLEAN /\ cut_short \in BOOLEAN
    /\ index_row \in Indices /\ index_col \in Indices
    /\ access_count \in 0..2
    /\ access \in Seq(Indices) /\ Len(access) <= 2
    /\ meant \in [Elements -> Values]

(***************************************************************************)
(* In a matrix with rows and columns, no access leaves the array, whatever *)
(* was cut short; and as long as none was, a whole access is of the        *)
(* element the caller named, is not refused, and every element holds what  *)
(* was last assigned to it.  (Without a row or a column, the bound of the  *)
(* index wraps and refuses nothing.)                                       *)
(***************************************************************************)
AccessesTheElementNamed ==
    /\ MatrixTypeOK
    /\ rows > 0 /\ cols > 0 =>
        /\ index_row < rows /\ index_col < cols
        /\ ~ cut_short =>
            /\ Len(access) = 2 => access = <<index_row, index_col>> /\ access_count = 2
            /\ \A e \in Elements : array_ptr[cols * e[1] + e[2]] = meant[e]

=============================================================================
