-------------------------------- MODULE Frame --------------------------------
(***************************************************************************)
(* What frames every page: the route on top and the two globals that the   *)
(* side bar, the bottom bar and the drawer share.  Navigation has the      *)
(* actions that change them.                                               *)
(***************************************************************************)

VARIABLES
  page,        \* the page on top
  content,     \* currentWidget
  isChatOpen   \* whether the side bar shows its menu button

\* On the bar the menu button is missing on the chat and only there, whatever the
\* drawer without closeDrawer and the accounts before have left in the globals
\* (side_bar_bar_pages.dart:15, 219, 256).
MenuUnlessChat == page = "bar" => (isChatOpen <=> content # "chat")
=============================================================================
