------------------------------ MODULE ModulePlans ------------------------------
(***************************************************************************)
(* What each small kernel module acquires in its init, where a failed step *)
(* jumps to, and what its exit gives back: one plan per source file, in    *)
(* the order of the code.  ModuleLife says how a plan is carried out.      *)
(***************************************************************************)
EXTENDS Naturals, Sequences

Step(get, on)    == [get |-> get, on |-> on, undo |-> << >>]
(* A step whose failure is ignored; one that cannot fail.                  *)
Tries(get)       == Step(get, "ignore")
Does(get)        == Step(get, "never")
Puts(get)        == Step(get, "put")
Fails(get, undo) == [get |-> get, on |-> "fail", undo |-> undo]
(* The labels at the end of init, from the one a failure jumps to.         *)
From(label, labels) ==
  LET first == CHOOSE i \in 1 .. Len(labels) : labels[i] = label
  IN SubSeq(labels, first, Len(labels))

Plain(init, exit) == [init |-> init, exit |-> exit, again |-> {}, handle |-> "none"]
Through(handle, init, exit) == [Plain(init, exit) EXCEPT !.handle = handle]

--------------------------------------------------------------------------------
(* GPIO.  The step that fails names its own label, not the one before.     *)

gpio_base ==
  LET labels == <<"gpio_out", "device", "class", "cdev", "region">> IN
  Plain(<<Fails("region", From("region", labels)),
          Fails("cdev", From("cdev", labels)),
          Fails("class", From("class", labels)),
          Fails("device", From("device", labels)),
          [get |-> "gpio_out", on |-> "check", undo |-> From("device", labels)],
          Fails("gpio_out", From("gpio_out", labels)),
          Does("export")>>,
        <<"export">> \o labels)

gpio_labels == <<"gpio_in", "gpio_out", "device", "class", "cdev", "region">>
gpio_intr ==
  Plain(<<Fails("region", From("region", gpio_labels)),
          Fails("cdev", From("cdev", gpio_labels)),
          Fails("class", From("class", gpio_labels)),
          Fails("device", From("device", gpio_labels)),
          [get |-> "gpio_out", on |-> "check", undo |-> From("device", gpio_labels)],
          Fails("gpio_out", From("gpio_out", gpio_labels)),
          [get |-> "gpio_in", on |-> "check", undo |-> gpio_labels],
          Fails("gpio_in", gpio_labels),
          Fails("irq", gpio_labels)>>,
        <<"irq">> \o gpio_labels)

(* As gpio_intr, whose exit frees the irq, and a last step: if it fails,   *)
(* the irq stays requested, and if it does not, exit leaves it enabled.    *)
gpio_wakeup == [gpio_intr EXCEPT !.init = @ \o <<Fails("wake", gpio_labels)>>]

--------------------------------------------------------------------------------
(* LED and SDIO.  A probe that fails or finds no device unbinds, and init  *)
(* has succeeded all the same.                                             *)

Binds(get, undo) == [get |-> get, on |-> "unbind", undo |-> undo]

led_steps == <<Tries("chrdev"), Tries("class"), Tries("device")>>
led_undo  == <<"chrdev", "device", "class">>
led_traditional == Through("class", led_steps, led_undo)
led_bus  == Through("class", <<Binds("driver", << >>), Binds("bound", << >>)>> \o led_steps,
                    led_undo \o <<"bound", "driver">>)
led_tree == led_bus
led_dev  == Plain(<<Tries("pdev")>>, <<"pdev">>)

(* probe claims the host and keeps it; the ladder after cdev_add names a   *)
(* device number that was never created.  remove claims the host again.    *)
sdio ==
  Plain(<<Fails("driver", << >>),
          Binds("host", << >>),
          Binds("region", << >>),
          Binds("class", <<"region">>),
          Binds("device", <<"class", "region">>),
          Binds("cdev", <<"device1", "class", "region">>)>>,
        <<"cdev", "device", "class", "region", "claim", "host", "driver">>)

--------------------------------------------------------------------------------
(* Timers, works, tasklets, threads and softirqs.  kmalloc failing ends    *)
(* init with 0.                                                            *)

Mallocs(get) == Step(get, "stop")

timer == [Plain(<<Does("timer")>>, <<"timer">>) EXCEPT !.again = {"timer"}]
delayed_work == [Through("heap", <<Mallocs("heap"), Does("dwork")>>, <<"dwork">>)
                   EXCEPT !.again = {"dwork"}]
workqueue_own == Through("wq", <<Mallocs("heap"), Tries("wq"), Does("work"), Does("work")>>,
                         <<"queue", "wq">>)
workqueue_sm  == Plain(<<Does("work")>>, << >>)
workqueue_dm  == Through("heap", <<Mallocs("heap"), Does("work")>>, << >>)
tasklet_sm    == Plain(<<Does("tasklet")>>, <<"tasklet">>)
tasklet_dm    == Through("heap", <<Mallocs("heap"), Does("tasklet")>>, <<"tasklet">>)
(* kthread_create returns an error pointer, which passes the test for NULL *)
(* and is woken; kthread_run wakes only a thread it got.                   *)
kthread       == Through("task", <<Tries("task"), Does("thread")>>, <<"thread", "task">>)
kthread_run   == Through("task", <<Mallocs("task"), Does("thread")>>, <<"thread", "task">>)
soft_irq      == Plain(<<Does("softirq")>>, << >>)

--------------------------------------------------------------------------------
(* Files of proc, sysfs and /dev, probes, and modules that do all their    *)
(* work in init.  sysfs_remove_file is given the parent's directory and    *)
(* finds nothing there; the last kobject_put removes the file.             *)

sysfs    == Through("kobj", <<Tries("kobj"), Fails("attr", <<"kobj">>)>>, <<"kobj">>)
kprobes  == Plain(<<Fails("probe", << >>)>>, <<"probe">>)
char_dev == kprobes
proc     == Plain(<<Fails("dir", << >>), Tries("proc")>>, <<"dir">>)
ioctl    ==
  LET labels == <<"class", "region">> IN
  Plain(<<Fails("region", << >>),
          Fails("cdev", From("class", labels)),
          Fails("class", From("class", labels)),
          Fails("device", From("region", labels))>>,
        <<"device", "class", "cdev", "region">>)
hello    == Plain(<<Fails("chrdev", << >>)>>, <<"chrdev">>)

(* The buffer is used without a look at what kmalloc returned.             *)
Buffered == <<Tries("heap"), Step("heap", "use"), Puts("heap")>>
read_file == Through("heap", <<Does("uaccess"), Fails("file", << >>)>> \o Buffered
                              \o <<Puts("file"), Puts("uaccess")>>, << >>)
firmware  == Through("heap", <<Fails("fw", << >>)>> \o Buffered \o <<Puts("fw")>>, << >>)

--------------------------------------------------------------------------------
Plans ==
  [gpio_base |-> gpio_base, gpio_intr |-> gpio_intr, gpio_wakeup |-> gpio_wakeup,
   led_traditional |-> led_traditional, led_bus |-> led_bus, led_tree |-> led_tree,
   led_dev |-> led_dev, sdio |-> sdio, timer |-> timer, delayed_work |-> delayed_work,
   workqueue_own |-> workqueue_own, workqueue_sm |-> workqueue_sm,
   workqueue_dm |-> workqueue_dm, tasklet_sm |-> tasklet_sm, tasklet_dm |-> tasklet_dm,
   kthread |-> kthread, kthread_run |-> kthread_run, soft_irq |-> soft_irq,
   sysfs |-> sysfs, kprobes |-> kprobes, char_dev |-> char_dev, proc |-> proc,
   ioctl |-> ioctl, hello |-> hello, read_file |-> read_file, firmware |-> firmware]

Modules == DOMAIN Plans
Resources ==
  UNION {{Plans[m].init[i].get : i \in 1 .. Len(Plans[m].init)}
         \union {Plans[m].exit[i] : i \in 1 .. Len(Plans[m].exit)} : m \in Modules}
  \union {"none", "device1"}

(* Where the code is known to fall short, so that everywhere else it is    *)
(* claimed not to.  Left behind: the irq of a failed enable_irq_wake and   *)
(* the wake-up of one that succeeded, the claimed host, buffers no exit    *)
(* frees, the class and cdev past a label of ioctl, force_uaccess_begin    *)
(* without its end, a softirq for good.                                    *)
LeakyModules ==
  {"gpio_wakeup", "sdio", "delayed_work", "workqueue_own", "workqueue_dm", "tasklet_dm",
   "ioctl", "read_file", "soft_irq"}
(* del_timer and cancel_delayed_work do not wait; a work on the system's   *)
(* queue and a softirq are not stopped at all; gpio_wakeup's exit frees    *)
(* its irq, but its init that fails in enable_irq_wake does not.           *)
UnsyncedModules ==
  {"timer", "delayed_work", "workqueue_sm", "workqueue_dm", "soft_irq", "gpio_wakeup"}
(* The gpio ladders free the pin whose request failed.                     *)
CarelessModules ==
  {"gpio_base", "gpio_intr", "gpio_wakeup", "led_traditional", "led_bus", "led_tree",
   "delayed_work", "workqueue_own", "tasklet_dm", "kthread", "kthread_run",
   "read_file", "firmware"}
EarlyNodeModules == {"gpio_base", "gpio_intr", "gpio_wakeup"}
===============================================================================
